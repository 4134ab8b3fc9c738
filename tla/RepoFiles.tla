----------------------------- MODULE RepoFiles -----------------------------
(***************************************************************************)
(* The tools that read and change the files of a run directory              *)
(* (internal/tools/repo_fs.go, path_guard.go), and what an approval is      *)
(* given for (approval_binding.go): the runs of a project share a           *)
(* directory, and each call is several operations of the file system.       *)
(*                                                                         *)
(* A path is a sequence of names below the directory, a name the number of   *)
(* its place in their order; a file holds the number of the call that wrote  *)
(* it, 0 for what was there before. There are no symbolic links, no .git that *)
(* a search leaves out and no glob; a file that is searched has the query      *)
(* once. What is cut to max_bytes, and is said to be, is not modelled.        *)
(* Bounds: two levels, AskedPaths, MaxCalls, and the files at the start,      *)
(* FirstTrees.                                                              *)
(***************************************************************************)
EXTENDS Naturals, Sequences, FiniteSets, Sorted

CONSTANTS Runners, Names, AskedPaths, FirstTrees, MaxCalls, MaxMatches, LineCapacity

Root == <<>>
Paths == {Root} \cup {<<n>> : n \in Names} \cup {<<n, m>> : n, m \in Names}
Parents(p) == {SubSeq(p, 1, n) : n \in 0..(Len(p) - 1)}
Dir == [kind |-> "dir", by |-> 0]
File(n) == [kind |-> "file", by |-> n]

ASSUME RepoFilesAssumption ==
  /\ Names \subseteq Nat /\ IsFiniteSet(Names) /\ AskedPaths \subseteq Paths
  /\ MaxCalls \in Nat /\ MaxMatches \in Nat \ {0} /\ LineCapacity \in Nat
  /\ \A t \in FirstTrees :
       /\ DOMAIN t \subseteq Paths /\ Root \in DOMAIN t
       /\ \A p \in DOMAIN t : t[p] \in [kind : {"dir", "file"}, by : Nat] /\ \A q \in Parents(p) : q \in DOMAIN t /\ t[q] = Dir

VARIABLES
  tree,    \* the directory: what exists, and what it is
  fsCalls, \* per run: the tool call it is in
  answers, \* per run: the answer to its last call
  callsMade,
  panicked \* a goroutine's panic has ended the daemon

repoFilesVars == <<tree, fsCalls, answers, callsMade, panicked>>

NoFsCall == [at |-> "idle"]
NoAnswer == [tool |-> "none"]

RepoFilesInit ==
  /\ tree \in FirstTrees
  /\ fsCalls = [r \in Runners |-> NoFsCall] /\ answers = [r \in Runners |-> NoAnswer]
  /\ callsMade = 0 /\ panicked = FALSE

-----------------------------------------------------------------------------
(* The file system.                                                        *)

Below(p, q) == Len(p) <= Len(q) /\ SubSeq(q, 1, Len(p)) = p
Exists(p) == p \in DOMAIN tree
Entries(p) == {q \in DOMAIN tree : Len(q) = Len(p) + 1 /\ Below(p, q)}
Kind(p) == IF Exists(p) THEN tree[p].kind ELSE "none"

With(t, new) == [q \in DOMAIN t \cup DOMAIN new |-> IF q \in DOMAIN new THEN new[q] ELSE t[q]]
Without(t, gone) == [q \in DOMAIN t \ gone |-> t[q]]

CanMkdirAll(p) == \A q \in Parents(p) : Kind(q) # "file"
MkdirAll(p) == With(tree, [q \in Parents(p) \ DOMAIN tree |-> Dir])

\* What Rename refuses: a directory over what is not an empty directory, a
\* file over a directory, a directory into itself.
CanRename(from, to) ==
  /\ Exists(from) /\ \A q \in Parents(to) : Kind(q) = "dir"
  /\ IF Kind(from) = "dir"
     THEN /\ from = to \/ ~Below(from, to)
          /\ Kind(to) # "file" /\ (Entries(to) = {} \/ from = to)
     ELSE Kind(to) # "dir"

Renamed(from, to) ==
  LET moved == {q \in DOMAIN tree : Below(from, q)}
      new(q) == to \o SubSeq(q, Len(from) + 1, Len(q))
  IN  IF from = to THEN tree
      ELSE With(Without(tree, moved),
                [q \in {new(m) : m \in moved} |-> tree[from \o SubSeq(q, Len(to) + 1, Len(q))]])

FitsBelow(from, to) == \A q \in DOMAIN tree : Below(from, q) => Len(to) + Len(q) - Len(from) <= 2

-----------------------------------------------------------------------------
(* The calls.                                                              *)

FsAt(r, at) == ~panicked /\ fsCalls[r].at = at
Go(r, at) == fsCalls' = [fsCalls EXCEPT ![r].at = at]

\* What a change does to the calls that are on their way: what they found in
\* place is so no longer, and an answer that is being put together is of several
\* moments.
Shaken(t, c) ==
  CASE t # tree /\ "kept" \in DOMAIN c ->
         [c EXCEPT !.kept = {p \in c.kept : p \in DOMAIN t /\ t[p] = tree[p]}]
    [] t # tree /\ "quiet" \in DOMAIN c -> [c EXCEPT !.quiet = FALSE]
    [] OTHER -> c

ChangeTree(t, calls) == tree' = t /\ fsCalls' = [r \in Runners |-> Shaken(t, calls[r])]

Answer(r, t, answer) ==
  /\ answers' = [answers EXCEPT ![r] = answer]
  /\ ChangeTree(t, [fsCalls EXCEPT ![r] = NoFsCall])
Refuse(r) == Answer(r, tree, [tool |-> "error"])

\* The root has to be there, and what leads out of it is refused.
resolveScopedPath(p) == Exists(Root) /\ p \in Paths

\* Mutant: only the target of a move is in the binding.
BindTarget(tool, from, to) == {to}

\* What an approval is asked for: the paths as they are resolved then.
buildApprovalBinding(tool, from, to) ==
  CASE tool = "move" -> {from, to} [] OTHER -> {to}

Ask4Change(r) ==
  /\ FsAt(r, "idle") /\ callsMade < MaxCalls
  /\ callsMade' = callsMade + 1
  /\ \E tool \in {"write", "delete", "move"}, from, to \in AskedPaths :
       /\ tool = "move" \/ from = to
       /\ IF resolveScopedPath(from) /\ resolveScopedPath(to)
          THEN /\ fsCalls' = [fsCalls EXCEPT ![r] =
                    [at |-> "asked", tool |-> tool, from |-> from, to |-> to, by |-> callsMade + 1,
                     ticket |-> buildApprovalBinding(tool, from, to), kept |-> {}]]
               /\ UNCHANGED <<tree, answers>>
          ELSE Refuse(r)
  /\ UNCHANGED panicked

\* The operator's answer, the call and its paths being resolved once more.
Decide(r) ==
  /\ FsAt(r, "asked")
  /\ \/ Refuse(r)
     \/ /\ resolveScopedPath(fsCalls[r].from)
        /\ fsCalls' = [fsCalls EXCEPT ![r].kept = DOMAIN tree,
                                      ![r].at = CASE fsCalls[r].tool = "write" -> "stat"
                                                  [] fsCalls[r].tool = "delete" -> "remove"
                                                  [] OTHER -> "mkdir"]
        /\ UNCHANGED <<tree, answers>>
  /\ UNCHANGED <<callsMade, panicked>>

\* Mutant: the file is written whether it exists or not.
StatNothing(r) ==
  /\ FsAt(r, "stat")
  /\ Go(r, "mkdir") /\ UNCHANGED <<tree, answers, callsMade, panicked>>

\* write_new_file: it looks whether the path is free,
StatNew(r) ==
  /\ FsAt(r, "stat")
  /\ IF Exists(fsCalls[r].to) \/ ~CanMkdirAll(fsCalls[r].to)
     THEN Refuse(r)
     ELSE Go(r, "mkdir") /\ UNCHANGED <<tree, answers>>
  /\ UNCHANGED <<callsMade, panicked>>

\* makes the directories that it is in (as a move does),
MkdirParents(r) ==
  LET to == fsCalls[r].to
  IN  /\ FsAt(r, "mkdir")
      /\ IF ~CanMkdirAll(to) THEN Refuse(r)
         ELSE /\ ChangeTree(MkdirAll(to), [fsCalls EXCEPT ![r].at = fsCalls[r].tool])
              /\ UNCHANGED answers
      /\ UNCHANGED <<callsMade, panicked>>

\* and writes it, over what has come there since.
WriteNewFile(r) ==
  LET to == fsCalls[r].to
  IN  /\ FsAt(r, "write")
      /\ IF Kind(to) = "dir" \/ \E q \in Parents(to) : Kind(q) # "dir" THEN Refuse(r)
         ELSE Answer(r, With(tree, [q \in {to} |-> File(fsCalls[r].by)]), [tool |-> "write"])
      /\ UNCHANGED <<callsMade, panicked>>

\* RemoveAll: one entry after the other, what is below it first.
DeletePath(r) ==
  LET gone == {q \in DOMAIN tree : Below(fsCalls[r].to, q)}
  IN  /\ FsAt(r, "remove")
      /\ IF gone = {} THEN Answer(r, tree, [tool |-> "delete"])
         ELSE \E q \in {q \in gone : Entries(q) = {}} :
                ChangeTree(Without(tree, {q}), fsCalls) /\ UNCHANGED answers
      /\ UNCHANGED <<callsMade, panicked>>

MovePath(r) ==
  LET from == fsCalls[r].from
      to == fsCalls[r].to
  IN  /\ FsAt(r, "move")
      /\ FitsBelow(from, to)
      /\ IF ~CanRename(from, to) THEN Refuse(r)
         ELSE Answer(r, Renamed(from, to), [tool |-> "move"])
      /\ UNCHANGED <<callsMade, panicked>>

-----------------------------------------------------------------------------
(* The tools that only read.                                               *)

AskToRead(r) ==
  /\ FsAt(r, "idle") /\ callsMade < MaxCalls
  /\ callsMade' = callsMade + 1
  /\ \E at \in {"list", "grep"}, p \in AskedPaths :
       IF resolveScopedPath(p)
       THEN /\ fsCalls' = [fsCalls EXCEPT ![r] =
                 [at |-> at, to |-> p, todo |-> <<p>>, found |-> <<>>, quiet |-> TRUE]]
            /\ UNCHANGED <<tree, answers>>
       ELSE Refuse(r)
  /\ UNCHANGED panicked

\* list_dir: the names,
ListDir(r) ==
  /\ FsAt(r, "list")
  /\ IF Kind(fsCalls[r].to) # "dir" THEN Refuse(r)
     ELSE /\ fsCalls' = [fsCalls EXCEPT ![r].at = "info", ![r].todo = Entries(fsCalls[r].to)]
          /\ UNCHANGED <<tree, answers>>
  /\ UNCHANGED <<callsMade, panicked>>

\* and what each of them is: one that has gone is an error for them all.
ListInfo(r) ==
  /\ FsAt(r, "info")
  /\ IF \E q \in fsCalls[r].todo : ~Exists(q) THEN Refuse(r)
     ELSE Answer(r, tree, [tool |-> "list", to |-> fsCalls[r].to, quiet |-> fsCalls[r].quiet,
                             found |-> fsCalls[r].todo, at |-> tree])
  /\ UNCHANGED <<callsMade, panicked>>

\* The order of WalkDir: by name.
Ordered(set) == SortedBy(set, {d \in set \X set : d[1][Len(d[1])] < d[2][Len(d[2])]})

\* The query is found in what was there before and in what calls wrote alike;
\* a file that cannot be read, or has a line over 64 KB, is an error for them all.
GrepSearch(r) ==
  LET c == fsCalls[r]
      p == Head(c.todo)
  IN  /\ FsAt(r, "grep")
      /\ IF c.todo = <<>> \/ Len(c.found) >= MaxMatches
         THEN Answer(r, tree, [tool |-> "grep", to |-> c.to, quiet |-> c.quiet,
                                 found |-> c.found, at |-> tree])
         ELSE IF ~Exists(p) THEN Refuse(r)
         ELSE \/ /\ fsCalls' = [fsCalls EXCEPT
                      ![r].todo = IF Kind(p) = "dir" THEN Ordered(Entries(p)) \o Tail(c.todo) ELSE Tail(c.todo),
                      ![r].found = IF Kind(p) = "dir" THEN c.found ELSE Append(c.found, p)]
                 /\ UNCHANGED <<tree, answers>>
              \/ Kind(p) = "file" /\ Refuse(r)
      /\ UNCHANGED <<callsMade, panicked>>

\* The lines of a file, of which the long-th, if any, has over 64 KB: there the
\* scanner ends, which nobody looks at. At the first, all of the file is one line.
readTextLines(total, long) == CASE long = 0 -> total [] long = 1 -> 1 [] OTHER -> long - 1

\* The lines of a range: nothing above the file's end, but for the capacity of
\* the slice that its lines are in, where slicing panics.
ReadRange(total, start, end) ==
  LET first == IF start = 0 THEN 1 ELSE start
      last == IF end = 0 \/ end > total THEN total ELSE end
      upto == IF last < first THEN first ELSE last
  IN  [lines |-> {n \in first..upto : n <= total},
       panics |-> total > 0 /\ upto > (IF total > LineCapacity THEN 2 * total ELSE LineCapacity)]

\* read_file: the file is read at once.
ReadFile(r) ==
  /\ FsAt(r, "idle") /\ callsMade < MaxCalls
  /\ callsMade' = callsMade + 1
  /\ \E p \in AskedPaths, total, long, start, end \in 0..(LineCapacity + 1) :
       /\ total <= LineCapacity /\ long <= total
       /\ IF ~resolveScopedPath(p) \/ Kind(p) # "file"
          THEN Refuse(r) /\ UNCHANGED panicked
          ELSE IF ReadRange(readTextLines(total, long), start, end).panics
          THEN panicked' = TRUE /\ UNCHANGED <<tree, fsCalls, answers>>
          ELSE Answer(r, tree, [tool |-> "read"]) /\ UNCHANGED panicked

RepoFilesNext ==
  \E r \in Runners :
    \/ Ask4Change(r) \/ Decide(r) \/ StatNew(r) \/ MkdirParents(r) \/ WriteNewFile(r) \/ DeletePath(r)
    \/ MovePath(r) \/ AskToRead(r) \/ ListDir(r) \/ ListInfo(r) \/ GrepSearch(r) \/ ReadFile(r)

RepoFilesSpec == RepoFilesInit /\ [][RepoFilesNext]_repoFilesVars

-----------------------------------------------------------------------------

\* The directory is a tree of directories with files as leaves.
RepoFilesTypeOK ==
  /\ DOMAIN tree \subseteq Paths /\ callsMade \in 0..MaxCalls /\ panicked \in BOOLEAN
  /\ \A p \in DOMAIN tree : \A q \in Parents(p) : Kind(q) = "dir"

\* A listing that no change fell into names exactly what is there, the children
\* of the directory; a search names files that are there, each once, and all of
\* them or as many as it may.
ReadsAreExact ==
  \A r \in Runners :
    LET a == answers[r]
        files == {q \in DOMAIN a.at : Below(a.to, q) /\ a.at[q].kind = "file"}
    IN  /\ a.tool = "list" /\ a.quiet =>
             a.found = {q \in DOMAIN a.at : Len(q) = Len(a.to) + 1 /\ Below(a.to, q)}
        /\ a.tool = "grep" =>
             /\ \A i, j \in DOMAIN a.found : i # j => a.found[i] # a.found[j]
             /\ a.quiet =>
                  /\ {a.found[i] : i \in DOMAIN a.found} \subseteq files
                  /\ Len(a.found) = IF Cardinality(files) < MaxMatches
                                    THEN Cardinality(files) ELSE MaxMatches

\* A range of lines that begins in the file, and ends before a line over 64 KB,
\* is read as it was asked for.
RangesAreExact ==
  \A total, long, start, end \in 0..LineCapacity :
    1 <= start /\ start <= end /\ start <= total /\ long <= total /\ (long = 0 \/ end < long) =>
      ReadRange(readTextLines(total, long), start, end) = [lines |-> (start..end) \cap (1..total), panics |-> FALSE]

\* A file is only lost to what was approved: to a call that removes, moves or
\* replaces what is named in its ticket. A new file never takes the place of one
\* that was there all along.
FilesAreLostAsApproved ==
  [][\A p \in DOMAIN tree : tree[p].kind = "file" /\ (p \notin DOMAIN tree' \/ tree'[p] # tree[p]) =>
       \E r \in Runners :
         LET c == fsCalls[r]
         IN  /\ c.at \in {"remove", "move", "write"}
             /\ \E q \in c.ticket : Below(q, p)
             /\ c.at = "write" => p = c.to /\ p \notin c.kept]_repoFilesVars
=============================================================================
