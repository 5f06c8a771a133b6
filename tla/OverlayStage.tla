----------------------------- MODULE OverlayStage -----------------------------
(***************************************************************************)
(* Staging as OverlayStage does it (guest/staging.py): the workspace is an *)
(* overlay mount of a snapshot under an upper directory.  A diff reads the *)
(* upper (harvest); a rebase folds it into the snapshot (replay).  What    *)
(* the kernel leaves in the upper for each change is external: whiteouts,  *)
(* opaque directories and copies up, as harvest and replay rely on them.   *)
(***************************************************************************)
EXTENDS Trees

CONSTANTS Ignoring   \* what may be ignored: names of directories and of files

\* No directory has a name that makes it look like compiled code.
ASSUME IgnoringNames ==
  /\ Ignoring \subseteq [dirs : SUBSET {Last(p) : p \in Paths},
                       files : SUBSET {Last(p) : p \in Paths}]
  /\ \A i \in Ignoring, p \in Paths : Last(p) \in i.files => Below(p) = {}

VARIABLES
  ignored,   \* which it is; never changes
  snap,      \* the lower directory
  upper      \* the upper directory, which may hold two more kinds of node

vars == <<ignored, snap, upper>>

Whiteout == [kind |-> "whiteout"]
Opaque == [kind |-> "opaque"]

-----------------------------------------------------------------------------
(* The mount (external)                                                    *)

\* The upper says nothing about p that would hide the snapshot's.
Shows(p) == \A q \in Above(p) : upper[q] \in {Nothing, Dir}

Lower(p) == IF Shows(p) THEN snap[p] ELSE Nothing

Merged ==
  [p \in Paths |-> CASE upper[p] = Nothing -> Lower(p)
                     [] upper[p] = Whiteout -> Nothing
                     [] upper[p] = Opaque -> Dir
                     [] OTHER -> upper[p]]

\* Parents that only the snapshot has are copied up with their first change.
CopiedUp(p) ==
  [q \in Paths |-> IF q \in Above(p) /\ upper[q] = Nothing THEN Dir ELSE upper[q]]

Into(p, node) == upper' = Put(CopiedUp(p), p, node) /\ UNCHANGED <<ignored, snap>>

WriteFile(p) == CanWrite(Merged, p) /\ \E f \in Files : Into(p, f)

MakeLink(p) == CanLink(Merged, p) /\ Into(p, Link)

\* Over a whiteout a new directory is opaque; elsewhere it may be.
MakeDir(p) ==
  /\ CanMake(Merged, p)
  /\ \/ Into(p, Opaque)
     \/ upper[p] # Whiteout /\ Into(p, Dir)

\* What the snapshot would show again needs a whiteout.
Removed(p) == IF Lower(p) = Nothing THEN Nothing ELSE Whiteout

Delete(p) ==
  /\ CanUnlink(Merged, p) \/ CanRmdir(Merged, p)
  /\ upper' = Put(Without(CopiedUp(p), p), p, Removed(p))
  /\ UNCHANGED <<ignored, snap>>

-----------------------------------------------------------------------------
(* How the code looks paths up in the snapshot: through the links in it    *)

At(p) == IF p \in Paths THEN snap[p] ELSE Nothing

\* Where p leads when a parent of it is a link; and when p is one itself.
Real(p) ==
  IF \E q \in Above(p) : snap[q] = Link
  THEN LET q == CHOOSE q \in Above(p) : snap[q] = Link
       IN Target \o SubSeq(p, Len(q) + 1, Len(p))
  ELSE p

Followed(p) == IF At(Real(p)) = Link THEN Target ELSE Real(p)

IsFile(p) == At(Followed(p)).kind = "file"
IsDir(p) == At(Followed(p)) = Dir
IsLink(p) == At(Real(p)) = Link

\* _files_under: what os.walk finds from there, named as if it were below p.
FilesUnder(p) ==
  {p \o SubSeq(r, Len(Followed(p)) + 1, Len(r)) :
     r \in {q \in Paths : /\ IsStrictPrefix(Followed(p), q)
                         /\ snap[q].kind = "file" /\ Last(q) \notin ignored.files
                         /\ \A d \in Above(q) : IsStrictPrefix(Followed(p), d)
                                                => Last(d) \notin ignored.dirs}}

-----------------------------------------------------------------------------
(* harvest                                                                 *)

InOpaque(p) == \E q \in Above(p) : upper[q] = Opaque

UpperFiles ==
  {p \in Paths : upper[p].kind = "file" /\ Walked(p, ignored) /\ Last(p) \notin ignored.files}

CoversNoLinks ==
  {p \in Paths : upper[p] = Whiteout /\ Walked(p, ignored) /\ ~InOpaque(p)}

\* Whiteouts, and links that cover something; opaque scopes see to their own.
Covers ==
  {p \in Paths : upper[p] \in {Whiteout, Link} /\ Walked(p, ignored) /\ ~InOpaque(p)}

Opaques ==
  {p \in Paths : /\ upper[p] = Opaque /\ Walked(p, ignored) /\ ~InOpaque(p)
                /\ Last(p) \notin ignored.dirs}

SameContent(p) ==
  IsFile(p) /\ ~IsLink(p) /\ At(Followed(p)).content = upper[p].content
SameMode(p) == At(Followed(p)) # Nothing /\ At(Followed(p)).mode = upper[p].mode

Writes == {p \in UpperFiles : ~(SameContent(p) /\ SameMode(p))}

\* A file that took a directory's place has consumed its whiteout.
Replaced == UNION {FilesUnder(p) : p \in {q \in Writes : IsDir(q)}}

Covered ==
  (UNION {FilesUnder(p) : p \in {q \in Covers : IsDir(q) /\ ~IsLink(q)}})
  \cup {p \in Covers : IsFile(p) /\ ~IsLink(p) /\ Last(p) \notin ignored.files}

Hidden ==
  ((UNION {FilesUnder(p) : p \in {q \in Opaques : IsDir(q)}}) \ UpperFiles)
  \cup {p \in Opaques : IsFile(p) /\ Last(p) \notin ignored.files}

Deletes == Replaced \cup Covered \cup Hidden

-----------------------------------------------------------------------------
(* replay, entry by entry, parents first                                   *)

\* An upper entry takes the place of what the snapshot has at p; a link there
\* goes first, since what follows would go through it.
ReplayThroughLinks(t, p) ==
  LET q == IF t[p] = Link THEN Target ELSE p
  IN CASE upper[p] = Nothing -> t
       [] upper[p] = Dir -> IF t[q] = Dir THEN t ELSE Put(Without(t, p), p, Dir)
       [] upper[p] = Opaque -> Put(Without(t, p), p, Dir)
       [] upper[p] = Whiteout -> Without(t, p)
       [] OTHER -> Put(Without(t, q), q, upper[p])
ReplayEntry(t, p) ==
  CASE upper[p] = Nothing -> t
    [] upper[p] = Dir -> IF t[p] = Dir THEN t ELSE Put(Without(t, p), p, Dir)
    [] upper[p] = Opaque -> Put(Without(t, p), p, Dir)
    [] upper[p] = Whiteout -> Without(t, p)
    [] OTHER -> Put(Without(t, p), p, upper[p])

\* The orders of a walk in depth: siblings come as the directory lists them.
Walks ==
  {s \in [1..Cardinality(Paths) -> Paths] :
     /\ \A p \in Paths : \E i \in DOMAIN s : s[i] = p
     /\ \A i, j \in DOMAIN s : s[i] \in Above(s[j]) => i < j
     /\ \A i, j, k \in DOMAIN s : i < j /\ j < k /\ s[i] \in Above(s[k]) => s[i] \in Above(s[j])}

Replayed(walk) ==
  LET tree[n \in 0..Cardinality(Paths)] ==
        IF n = 0 THEN snap ELSE ReplayEntry(tree[n - 1], walk[n])
  IN tree[Cardinality(Paths)]

-----------------------------------------------------------------------------
(* The stage's operations                                                  *)

Init ==
  /\ ignored \in Ignoring
  /\ snap = Empty /\ upper = Empty

\* A push forgets both trees first; it is modelled from empty ones.
Push ==
  /\ snap = Empty /\ upper = Empty
  /\ snap' \in PushTrees
  /\ UNCHANGED <<ignored, upper>>

\* diff(rebase=True).  Without the rebase it changes nothing.
Rebase ==
  /\ \E walk \in Walks : snap' = Replayed(walk)
  /\ upper' = Empty
  /\ UNCHANGED ignored

Reset == upper' = Empty /\ UNCHANGED <<ignored, snap>>

\* reset_guest when the tree is not kept.
Clear == snap' = Empty /\ upper' = Empty /\ UNCHANGED ignored

Change(p) == WriteFile(p) \/ MakeLink(p) \/ MakeDir(p) \/ Delete(p)

Next == Push \/ Rebase \/ Reset \/ Clear \/ \E p \in Paths : Change(p)

Spec == Init /\ [][Next]_vars

-----------------------------------------------------------------------------
(* Properties                                                              *)

\* The overlay is a staging like any other: the merged view is the workspace, the
\* snapshot its baseline, after whatever sequence of changes, whiteouts and
\* rebases; a replay gives the baseline exactly what the guest saw.
Scan == INSTANCE ScanStage WITH work <- Merged, baseline <- snap
ImplementsScan == Scan!Spec

\* Two cases in which harvest is known to differ: a link of the snapshot that a
\* file or a directory has replaced, since lookups go through the link; and an
\* ignored name that was a directory and is none, or was a file and is
\* one, since harvest ignores it on one side only.
ReplacesLink ==
  \E p \in Paths : snap[p] = Link /\ Merged[p] \notin {Nothing, Link}
IgnoredChanges ==
  \E p \in Paths : /\ Last(p) \in ignored.dirs /\ snap[p] # Nothing
                 /\ (snap[p] = Dir) # (Merged[p] = Dir)

\* "must match what scan-diff would report": in every state a diff may be asked
\* for, harvest finds in the upper the writes and deletes that a scan of the two
\* trees would (staging.py 108-130).
Parity ==
  ReplacesLink \/ IgnoredChanges
  \/ /\ Writes = ScanWrites(Merged, snap, ignored)
     /\ Deletes = ScanDeletes(Merged, snap, ignored)

\* The same without an exception: no write that a scan would report is left out.
EveryWriteShips == ScanWrites(Merged, snap, ignored) \subseteq Writes
=============================================================================
