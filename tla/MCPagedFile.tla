---------------------------- MODULE MCPagedFile -----------------------------
(***************************************************************************)
(* Small instances of PagedFile, with the operations of every file counted *)
(* in a history variable, those of a session a crash cut short excepted,   *)
(* and the files noted on which two sessions have overlapped.              *)
(***************************************************************************)
EXTENDS PagedFile, TLC

CONSTANTS MaxFiles,     \* bound on the files created
          MaxFilePages, \* bound on a file's length
          MaxOps        \* bound on the reads and writes of a file

VARIABLES total,        \* total[f][op]: the operations performed on file f
          shared        \* the files two handles have been open on at once

mcVars == <<pvars, total, shared>>

Symmetry == Permutations(Handles)

FilesBounded ==
  /\ Len(files) <= MaxFiles
  /\ \A f \in DOMAIN files : Len(files[f].pages) <= MaxFilePages
  /\ \A f \in DOMAIN total : total[f]["read"] + total[f]["write"] <= MaxOps

\* The operations a step performs on file f.
Performed(f, op) ==
  IF \E h \in Handles : /\ handles[h].file = f /\ handles'[h].file = f
                        /\ handles'[h].counters[op] # handles[h].counters[op]
  THEN 1 ELSE 0

Record ==
  total' = [f \in DOMAIN files' |->
              IF f \notin DOMAIN files THEN Zero
              ELSE [op \in Ops |-> total[f][op] + Performed(f, op)]]

CutShort == total' = [f \in DOMAIN files |-> IF OpenOn(f) = {} THEN total[f]
                                              ELSE files[f].counters]

\* Two handles are open on file f at once.
Overlap(f) == \E g, h \in OpenOn(f) : g # h

Share == shared' = shared \cup {f \in DOMAIN files' : Overlap(f)'}

MCInit == PInit /\ total = << >> /\ shared = {}
MCNext == ((PNext /\ Record) \/ (Crash /\ CutShort)) /\ Share

\* The layer with its history.
HistorySpec == MCInit /\ [][MCNext]_mcVars

\* getNumberOfPages is the number of pages in the file, which the layers above
\* take the number of the page they have just appended from, as long as no two
\* handles have been open on the file at once: no open, close, destruction or
\* crash leaves a count behind that a later session starts from.
CountExact ==
  \A h \in Handles : IsOpen(h) /\ handles[h].file \notin shared =>
                       handles[h].count = Len(files[handles[h].file].pages)

\* Once a file is closed, the counters in its header are those of all the
\* operations performed on it over its lifetime, in sessions that did not
\* overlap.
CountersTotal ==
  \A f \in DOMAIN files \ shared : OpenOn(f) = {} => files[f].counters = total[f]
=============================================================================
