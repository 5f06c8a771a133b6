-------------------------------- MODULE Trees --------------------------------
(***************************************************************************)
(* Workspace trees as staging sees them, and the reference for a diff: the *)
(* index of a tree and scan_diff over two of them (diffscan.py).           *)
(*                                                                         *)
(* A path is a sequence of names.  A file is known by its content and its  *)
(* permission bits; links all point to one path, relative to where they    *)
(* are, so that no chain of links arises.                                  *)
(***************************************************************************)
EXTENDS Sequences, SequencesExt, FiniteSets, Naturals

CONSTANTS
  Paths,           \* the paths there can be, with their parents
  Contents, Modes,
  Target           \* what every link points to

ASSUME TreeParameters ==
  /\ IsFiniteSet(Paths) /\ Paths \subseteq Seq(STRING)
  /\ \A p \in Paths : Len(p) >= 1 /\ (Len(p) > 1 => Front(p) \in Paths)
  /\ Target \in Paths

Nothing == [kind |-> "none"]
Dir == [kind |-> "dir"]
Link == [kind |-> "link"]
Files == [kind : {"file"}, content : Contents, mode : Modes]

Above(p) == {q \in Paths : IsStrictPrefix(q, p)}
Below(p) == {q \in Paths : IsStrictPrefix(p, q)}

\* A node has directories all the way up.
IsTree(t) ==
  \A p \in Paths : t[p] # Nothing => \A q \in Above(p) : t[q] = Dir

Empty == [p \in Paths |-> Nothing]

\* What push_dir sends: regular files, their parents implied (base.py).
PushTrees ==
  {t \in [Paths -> {Nothing, Dir} \cup Files] :
     IsTree(t) /\ \A p \in Paths : t[p] = Dir => \E q \in Below(p) : t[q].kind = "file"}

-----------------------------------------------------------------------------
(* What the code in the guest does to a tree                               *)

Room(t, p) == \A q \in Above(p) : t[q] = Dir

Put(t, p, node) == [t EXCEPT ![p] = node]

CanWrite(t, p) == Room(t, p) /\ t[p].kind \in {"none", "file"}
CanLink(t, p) == Room(t, p) /\ t[p] = Nothing /\ p # Target /\ p \notin Below(Target)
CanMake(t, p) == Room(t, p) /\ t[p] = Nothing
CanUnlink(t, p) == t[p].kind \in {"file", "link"}
CanRmdir(t, p) == t[p] = Dir /\ \A q \in Below(p) : t[q] = Nothing

\* rmtree, or unlink.
Without(t, p) == [q \in Paths |-> IF q = p \/ q \in Below(p) THEN Nothing ELSE t[q]]

-----------------------------------------------------------------------------
(* index_tree and scan_diff.  What is ignored: directories of some names    *)
(* (_IGNORE_DIRS) and files of some names (_IGNORE_SUFFIXES).              *)

Walked(p, ign) == \A q \in Above(p) : Last(q) \notin ign.dirs

Index(t, ign) ==
  {p \in Paths : /\ t[p].kind \in {"file", "link"}
                 /\ Walked(p, ign) /\ Last(p) \notin ign.files}

\* A link is indexed, but it is neither a write nor the end of one.
ScanWrites(work, baseline, ign) ==
  {p \in Index(work, ign) :
     /\ work[p].kind = "file"
     /\ ~(p \in Index(baseline, ign) /\ baseline[p] = work[p])}

ScanDeletes(work, baseline, ign) ==
  {p \in Index(baseline, ign) :
     baseline[p].kind = "file" /\ (p \in Index(work, ign) => work[p].kind # "file")}
=============================================================================
