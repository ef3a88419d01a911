----------------------------- MODULE PagedFile ------------------------------
(***************************************************************************)
(* The paged file layer (pfm.cc): one file name, the files that have had   *)
(* it, and the FileHandles clients open on them.  Block 0 of a file holds  *)
(* three counters of page operations; page n is block n + 1.  A handle has *)
(* counters of its own, loaded by openFile and stored by closeFile, and a  *)
(* page count taken at openFile and moved only by its own appendPage.      *)
(*                                                                         *)
(* A page has the size of the stdio buffer and every call seeks first, so  *)
(* a page written is in the file when the call returns; what a crash of    *)
(* the process loses is in the handles.  createFile is one step here: a    *)
(* file whose header block was never written is not modelled.              *)
(***************************************************************************)
EXTENDS Integers, Sequences

CONSTANTS
  Handles,      \* the FileHandle objects
  Pages         \* page contents

VARIABLES
  name,         \* the file under the name, 0 if there is none
  files,        \* files[f]: the counters in its header block and its pages
  handles       \* handles[h]: the file it has open (0: closed), its counters
                \* and its page count

pvars == <<name, files, handles>>

ASSUME PagedFileAssumption == Handles # {} /\ Pages # {}

Ops      == {"read", "write", "append"}
Counters == [Ops -> Nat]
Zero     == [op \in Ops |-> 0]
Closed   == [file |-> 0, counters |-> Zero, count |-> 0]

Created == [counters |-> Zero, pages |-> << >>]

File == [counters : Counters, pages : Seq(Pages)]

IsOpen(h) == handles[h].file # 0
OpenOn(f) == {h \in Handles : handles[h].file = f}

PInit == name = 0 /\ files = << >> /\ handles = [h \in Handles |-> Closed]

\* createFile, which refuses a name in use.
createFile == /\ name = 0
              /\ files' = Append(files, Created)
              /\ name' = Len(files) + 1
              /\ UNCHANGED handles

destroyFile == name # 0 /\ name' = 0 /\ UNCHANGED <<files, handles>>

\* Mutant: the header block is subtracted twice.
PageCount_HeaderTwice(f) == Len(files[f].pages) - 1

\* Mutant: the header block is counted as a page.
PageCount_WithHeader(f) == Len(files[f].pages) + 1

\* fileSize / PAGE_SIZE - 1: the blocks of the file but the header.
PageCount(f) == Len(files[f].pages)

\* openFile, which refuses a handle in use.
openFile(h) ==
  /\ name # 0
  /\ ~IsOpen(h)
  /\ handles' = [handles EXCEPT ![h] = [file |-> name, counters |-> files[name].counters,
                                        count |-> PageCount(name)]]
  /\ UNCHANGED <<name, files>>

\* Mutant: the counters are not written back.
closeFile_NoCounters(h) ==
  /\ IsOpen(h)
  /\ handles' = [handles EXCEPT ![h] = Closed]
  /\ UNCHANGED <<name, files>>

\* closeFile, and the destructor of an open handle.  What the closed handle
\* keeps of its counters is overwritten when it is opened again.
closeFile(h) ==
  /\ IsOpen(h)
  /\ files' = [files EXCEPT ![handles[h].file].counters = handles[h].counters]
  /\ handles' = [handles EXCEPT ![h] = Closed]
  /\ UNCHANGED name

Counted(h, op) == [handles EXCEPT ![h].counters[op] = @ + 1]

readPage(h, n) ==
  /\ IsOpen(h) /\ n < handles[h].count
  /\ handles' = Counted(h, "read")
  /\ UNCHANGED <<name, files>>

writePage(h, n, page) ==
  /\ IsOpen(h) /\ n < handles[h].count
  /\ files' = [files EXCEPT ![handles[h].file].pages[n + 1] = page]
  /\ handles' = Counted(h, "write")
  /\ UNCHANGED name

\* Mutant: the cached page count is left as it was.
appendPage_NoCount(h, page) ==
  /\ IsOpen(h)
  /\ files' = [files EXCEPT ![handles[h].file].pages = Append(@, page)]
  /\ handles' = Counted(h, "append")
  /\ UNCHANGED name

\* The page goes to the end of the file, wherever that is by now.
appendPage(h, page) ==
  /\ IsOpen(h)
  /\ files' = [files EXCEPT ![handles[h].file].pages = Append(@, page)]
  /\ handles' = [Counted(h, "append") EXCEPT ![h].count = @ + 1]
  /\ UNCHANGED name

\* The process dies between two calls; the operating system closes its files.
Crash == /\ handles' = [h \in Handles |-> Closed]
         /\ UNCHANGED <<name, files>>

-----------------------------------------------------------------------------
Work(h) == \/ \E n \in 0..Len(files[handles[h].file].pages) : readPage(h, n)
           \/ \E n \in 0..Len(files[handles[h].file].pages), page \in Pages :
                 writePage(h, n, page)
           \/ \E page \in Pages : appendPage(h, page)

\* Any number of handles may be open on a file, also on one whose name is
\* gone: nothing in the layer keeps its clients to one.
PNext == \/ createFile \/ destroyFile
         \/ \E h \in Handles : openFile(h) \/ (IsOpen(h) /\ (Work(h) \/ closeFile(h)))

PSpec == PInit /\ [][PNext \/ Crash]_pvars

-----------------------------------------------------------------------------
(* Properties. *)

PTypeOK == /\ name \in 0..Len(files)
           /\ files \in Seq(File)
           /\ handles \in [Handles -> [file : 0..Len(files), counters : Counters,
                                       count : Nat]]

\* Every page number the bounds check of readPage and writePage admits is in
\* the file, whatever other handles do to it: a cached count only lags behind.
AdmittedPagesExist ==
  \A h \in Handles : IsOpen(h) => handles[h].count <= Len(files[handles[h].file].pages)
=============================================================================
