--------------------------- MODULE PagedFileProofs ---------------------------
(***************************************************************************)
(* For any number of handles, files and operations: handles and files stay *)
(* well formed, and no handle's cached page count exceeds its file, so the *)
(* bounds check of readPage and writePage never admits a page that is not  *)
(* there.  The two are inductive together: a count is compared with a file *)
(* the handle has open, which exists by the type invariant.                *)
(*                                                                         *)
(* With the history variables of MCPagedFile: a handle that has never      *)
(* shared its file knows its length, and the header of a closed file adds  *)
(* up the operations of its sessions.  Neither is inductive without what   *)
(* holds within a session (SessionTotal) and the fact that a file with two *)
(* handles on it is noted as shared (OverlapNoted).                        *)
(***************************************************************************)
EXTENDS MCPagedFile, TLAPS

IInv == PTypeOK /\ AdmittedPagesExist

\* createFile only adds a file, and no handle is open on it.
LEMMA CreateStep ==
  ASSUME IInv, createFile
  PROVE  IInv'
<1>1. /\ files' = Append(files, Created)
      /\ name' = Len(files) + 1
      /\ handles' = handles
  BY DEF createFile
<1>2. Created \in File
  BY DEF Created, File, Counters, Zero
<1>3. /\ files' \in Seq(File)
      /\ Len(files') = Len(files) + 1
      /\ \A f \in 1..Len(files) : files'[f] = files[f]
  BY <1>1, <1>2 DEF IInv, PTypeOK
<1>4. PTypeOK'
  BY <1>1, <1>3 DEF IInv, PTypeOK
<1>5. AdmittedPagesExist'
  BY <1>1, <1>3 DEF IInv, PTypeOK, AdmittedPagesExist, IsOpen
<1> QED BY <1>4, <1>5 DEF IInv

\* destroyFile removes the name only.
LEMMA DestroyStep ==
  ASSUME IInv, destroyFile
  PROVE  IInv'
<1>1. name' = 0 /\ files' = files /\ handles' = handles
  BY DEF destroyFile
<1> QED BY <1>1 DEF IInv, PTypeOK, AdmittedPagesExist, IsOpen

\* openFile takes the count from the file.
LEMMA OpenStep ==
  ASSUME IInv, NEW h \in Handles, openFile(h)
  PROVE  IInv'
<1>1. /\ name \in 1..Len(files)
      /\ name' = name
      /\ files' = files
      /\ handles' = [handles EXCEPT ![h] = [file |-> name, counters |-> files[name].counters,
                                            count |-> PageCount(name)]]
  BY DEF openFile, IInv, PTypeOK
<1>2. files[name] \in File
  BY <1>1 DEF IInv, PTypeOK
<1>3. files[name].counters \in Counters /\ Len(files[name].pages) \in Nat
  BY <1>2 DEF File
<1>4. PTypeOK'
  BY <1>1, <1>3 DEF IInv, PTypeOK, PageCount
<1>5. AdmittedPagesExist'
  BY <1>1, <1>3 DEF IInv, PTypeOK, AdmittedPagesExist, IsOpen, PageCount
<1> QED BY <1>4, <1>5 DEF IInv

\* closeFile stores the counters and leaves the pages.
LEMMA CloseStep ==
  ASSUME IInv, NEW h \in Handles, closeFile(h)
  PROVE  IInv'
<1> DEFINE f == handles[h].file
<1>1. /\ f \in 1..Len(files)
      /\ name' = name
      /\ files' = [files EXCEPT ![f].counters = handles[h].counters]
      /\ handles' = [handles EXCEPT ![h] = Closed]
  BY DEF closeFile, IInv, PTypeOK, IsOpen
<1>2. files[f] \in File /\ handles[h].counters \in Counters
  BY <1>1 DEF IInv, PTypeOK
<1>3. [files[f] EXCEPT !.counters = handles[h].counters] \in File
  BY <1>2 DEF File
<1>4. /\ files' \in Seq(File)
      /\ Len(files') = Len(files)
      /\ \A g \in 1..Len(files) : files'[g].pages = files[g].pages
  BY <1>1, <1>2, <1>3 DEF IInv, PTypeOK, File
<1>5. Closed \in [file : 0..Len(files), counters : Counters, count : Nat]
  BY DEF Closed, Counters, Zero, IInv, PTypeOK
<1>6. PTypeOK'
  BY <1>1, <1>4, <1>5 DEF IInv, PTypeOK
<1>7. AdmittedPagesExist'
  BY <1>1, <1>4 DEF IInv, PTypeOK, AdmittedPagesExist, IsOpen, Closed
<1> QED BY <1>6, <1>7 DEF IInv

\* Counting an operation changes neither the file nor the count of a handle.
LEMMA CountedIsTyped ==
  ASSUME IInv, NEW h \in Handles, NEW op \in Ops
  PROVE  /\ Counted(h, op) \in [Handles -> [file : 0..Len(files), counters : Counters,
                                            count : Nat]]
         /\ \A g \in Handles : /\ Counted(h, op)[g].file = handles[g].file
                               /\ Counted(h, op)[g].count = handles[g].count
<1>1. handles[h] \in [file : 0..Len(files), counters : Counters, count : Nat]
  BY DEF IInv, PTypeOK
<1>2. [handles[h].counters EXCEPT ![op] = @ + 1] \in Counters
  BY <1>1 DEF Counters
<1>3. Counted(h, op) = [handles EXCEPT ![h] =
        [handles[h] EXCEPT !.counters = [handles[h].counters EXCEPT ![op] = @ + 1]]]
  BY DEF Counted
<1> QED BY <1>1, <1>2, <1>3, ZenonT(60) DEF IInv, PTypeOK

\* readPage touches the counters only.
LEMMA ReadStep ==
  ASSUME IInv, NEW h \in Handles, NEW n \in Nat, readPage(h, n)
  PROVE  IInv'
<1>1. name' = name /\ files' = files /\ handles' = Counted(h, "read")
  BY DEF readPage
<1> QED BY <1>1, CountedIsTyped DEF IInv, PTypeOK, AdmittedPagesExist, IsOpen, Ops

\* writePage replaces a page that exists: the file keeps its length.
LEMMA WriteStep ==
  ASSUME IInv, NEW h \in Handles, NEW n \in Nat, NEW page \in Pages, writePage(h, n, page)
  PROVE  IInv'
<1> DEFINE f == handles[h].file
<1>1. /\ f \in 1..Len(files)
      /\ n < handles[h].count
      /\ name' = name
      /\ files' = [files EXCEPT ![f].pages[n + 1] = page]
      /\ handles' = Counted(h, "write")
  BY DEF writePage, IInv, PTypeOK, IsOpen
<1>2. files[f] \in File /\ files[f].pages \in Seq(Pages)
  <2>1. files \in Seq(File)
    BY DEF IInv, PTypeOK
  <2>2. files[f] \in File
    BY <1>1, <2>1
  <2> QED BY <2>2 DEF File
<1>3. n + 1 \in 1..Len(files[f].pages)
  <2>1. handles[h].count \in Nat /\ handles[h].count <= Len(files[f].pages)
    BY <1>1 DEF IInv, PTypeOK, AdmittedPagesExist, IsOpen
  <2>2. Len(files[f].pages) \in Nat
    BY <1>2
  <2> QED BY <1>1, <2>1, <2>2
<1>4. /\ [files[f].pages EXCEPT ![n + 1] = page] \in Seq(Pages)
      /\ Len([files[f].pages EXCEPT ![n + 1] = page]) = Len(files[f].pages)
  BY <1>2, <1>3
<1>5. files' = [files EXCEPT ![f] =
        [files[f] EXCEPT !.pages = [files[f].pages EXCEPT ![n + 1] = page]]]
  BY <1>1
<1>6. [files[f] EXCEPT !.pages = [files[f].pages EXCEPT ![n + 1] = page]] \in File
  BY <1>2, <1>4 DEF File
<1>7. /\ files' \in Seq(File)
      /\ Len(files') = Len(files)
      /\ \A g \in 1..Len(files) : Len(files'[g].pages) = Len(files[g].pages)
  BY <1>1, <1>2, <1>4, <1>5, <1>6 DEF IInv, PTypeOK, File
<1> QED BY <1>1, <1>7, CountedIsTyped DEF IInv, PTypeOK, AdmittedPagesExist, IsOpen, Ops

\* appendPage makes the file and the count of its handle one page longer; to
\* other handles on the file the new page stays unknown.
LEMMA AppendStep ==
  ASSUME IInv, NEW h \in Handles, NEW page \in Pages, appendPage(h, page)
  PROVE  IInv'
<1> DEFINE f == handles[h].file
           c == Counted(h, "append")
<1>1. /\ f \in 1..Len(files)
      /\ name' = name
      /\ files' = [files EXCEPT ![f].pages = Append(@, page)]
      /\ handles' = [c EXCEPT ![h].count = @ + 1]
  BY DEF appendPage, IInv, PTypeOK, IsOpen
<1>2. files[f] \in File /\ files[f].pages \in Seq(Pages)
  <2>1. files \in Seq(File)
    BY DEF IInv, PTypeOK
  <2>2. files[f] \in File
    BY <1>1, <2>1
  <2> QED BY <2>2 DEF File
<1>3. /\ Append(files[f].pages, page) \in Seq(Pages)
      /\ Len(Append(files[f].pages, page)) = Len(files[f].pages) + 1
  BY <1>2
<1>4. [files[f] EXCEPT !.pages = Append(files[f].pages, page)] \in File
  BY <1>2, <1>3 DEF File
<1>5. /\ files' \in Seq(File)
      /\ Len(files') = Len(files)
      /\ \A g \in 1..Len(files) : Len(files'[g].pages) = IF g = f THEN Len(files[g].pages) + 1
                                                                 ELSE Len(files[g].pages)
  BY <1>1, <1>2, <1>3, <1>4 DEF IInv, PTypeOK, File
<1>6. /\ c \in [Handles -> [file : 0..Len(files), counters : Counters, count : Nat]]
      /\ \A g \in Handles : c[g].file = handles[g].file /\ c[g].count = handles[g].count
  BY CountedIsTyped DEF Ops
<1>7. /\ handles' \in [Handles -> [file : 0..Len(files), counters : Counters, count : Nat]]
      /\ \A g \in Handles : /\ handles'[g].file = handles[g].file
                            /\ handles'[g].count = IF g = h THEN handles[g].count + 1
                                                            ELSE handles[g].count
  <2>1. /\ c[h] \in [file : 0..Len(files), counters : Counters, count : Nat]
        /\ handles' = [c EXCEPT ![h] = [c[h] EXCEPT !.count = c[h].count + 1]]
    BY <1>1, <1>6
  <2>2. /\ [c[h] EXCEPT !.count = c[h].count + 1]
             \in [file : 0..Len(files), counters : Counters, count : Nat]
        /\ [c[h] EXCEPT !.count = c[h].count + 1].file = c[h].file
        /\ [c[h] EXCEPT !.count = c[h].count + 1].count = c[h].count + 1
    BY <2>1
  <2> HIDE DEF c
  <2> QED BY <1>6, <2>1, <2>2
<1>8. PTypeOK'
  BY <1>1, <1>5, <1>7 DEF IInv, PTypeOK
<1>9. AdmittedPagesExist'
  <2> SUFFICES ASSUME NEW g \in Handles, handles'[g].file # 0
               PROVE  handles'[g].count <= Len(files'[handles'[g].file].pages)
    BY DEF AdmittedPagesExist, IsOpen
  <2>1. /\ handles[g].file \in 1..Len(files)
        /\ handles[g].count <= Len(files[handles[g].file].pages)
        /\ handles[g].count \in Nat
    BY <1>7 DEF IInv, PTypeOK, AdmittedPagesExist, IsOpen
  <2>2. Len(files[handles[g].file].pages) \in Nat
    BY <2>1 DEF IInv, PTypeOK, File
  <2> QED BY <1>5, <1>7, <2>1, <2>2
<1> QED BY <1>8, <1>9 DEF IInv

\* A crash closes every handle.
LEMMA CrashStep ==
  ASSUME IInv, Crash
  PROVE  IInv'
<1>1. Closed \in [file : 0..Len(files), counters : Counters, count : Nat]
  BY DEF Closed, Counters, Zero, IInv, PTypeOK
<1> QED BY <1>1 DEF Crash, Closed, IInv, PTypeOK, AdmittedPagesExist, IsOpen

\* Every step keeps the invariant.
LEMMA InvariantStep ==
  ASSUME IInv, [PNext \/ Crash]_pvars
  PROVE  IInv'
<1>1. CASE createFile BY <1>1, CreateStep
<1>2. CASE destroyFile BY <1>2, DestroyStep
<1>3. ASSUME NEW h \in Handles, openFile(h) PROVE IInv'
  BY <1>3, OpenStep
<1>4. ASSUME NEW h \in Handles, IsOpen(h), Work(h) PROVE IInv'
  <2>1. handles[h].file \in 1..Len(files)
    BY <1>4 DEF IInv, PTypeOK, IsOpen
  <2>2. 0..Len(files[handles[h].file].pages) \subseteq Nat
    OBVIOUS
  <2> QED BY <1>4, <2>2, ReadStep, WriteStep, AppendStep DEF Work
<1>5. ASSUME NEW h \in Handles, closeFile(h) PROVE IInv'
  BY <1>5, CloseStep
<1>6. CASE Crash BY <1>6, CrashStep
<1>7. CASE UNCHANGED pvars
  BY <1>7 DEF pvars, IInv, PTypeOK, AdmittedPagesExist, IsOpen
<1> QED BY <1>1, <1>2, <1>3, <1>4, <1>5, <1>6, <1>7 DEF PNext

\* The inductive invariant of the layer.
THEOREM PagesInvariant == PSpec => []IInv
<1>1. PInit => IInv
  BY DEF PInit, Closed, Counters, Zero, IInv, PTypeOK, AdmittedPagesExist, IsOpen, File
<1>2. IInv /\ [PNext \/ Crash]_pvars => IInv'
  BY InvariantStep
<1> QED BY <1>1, <1>2, PTL DEF PSpec

\* Handles and files stay well formed.
THEOREM TypeCorrect == PSpec => []PTypeOK
<1>1. IInv => PTypeOK
  BY DEF IInv
<1> QED BY <1>1, PagesInvariant, PTL

\* readPage and writePage reach no page behind the end of a file, whichever
\* handles are open on it.
THEOREM BoundsCheckIsSafe == PSpec => []AdmittedPagesExist
<1>1. IInv => AdmittedPagesExist
  BY DEF IInv
<1> QED BY <1>1, PagesInvariant, PTL

-----------------------------------------------------------------------------
(* The history of sessions.                                                *)

TotalTyped == total \in [DOMAIN files -> Counters]

OverlapNoted == \A f \in DOMAIN files : Overlap(f) => f \in shared

\* The counters of a handle that has never shared its file are those of all
\* the operations on the file so far: between sessions they are in the header
\* (CountersTotal), within one in the handle.
SessionTotal ==
  \A h \in Handles : IsOpen(h) /\ handles[h].file \notin shared =>
                       handles[h].counters = total[handles[h].file]

HistoryInv == /\ IInv /\ TotalTyped /\ OverlapNoted
              /\ CountExact /\ SessionTotal /\ CountersTotal

\* The files, and what is in them and in the handles, one by one.
LEMMA Parts ==
  ASSUME IInv
  PROVE  /\ DOMAIN files = 1..Len(files) /\ Len(files) \in Nat
         /\ \A f \in DOMAIN files : files[f] \in File /\ Len(files[f].pages) \in Nat
         /\ \A h \in Handles : /\ handles[h].counters \in Counters
                               /\ handles[h].count \in Nat
                               /\ handles[h].file \in 0..Len(files)
                               /\ IsOpen(h) => handles[h].file \in DOMAIN files
<1>1. files \in Seq(File)
  BY DEF IInv, PTypeOK
<1>2. \A f \in DOMAIN files : files[f] \in File
  BY <1>1
<1>3. \A f \in DOMAIN files : Len(files[f].pages) \in Nat
  BY <1>2 DEF File
<1>4. \A h \in Handles : handles[h] \in [file : 0..Len(files), counters : Counters, count : Nat]
  BY DEF IInv, PTypeOK
<1> QED BY <1>1, <1>2, <1>3, <1>4 DEF IsOpen

\* A file two handles have open on is noted, and stays so.
LEMMA SharedNoted ==
  ASSUME Share
  PROVE  OverlapNoted' /\ shared \subseteq shared'
BY DEF Share, OverlapNoted

\* A handle that does not share its file is the only one on it.
LEMMA OnlyHandle ==
  ASSUME IInv, OverlapNoted, NEW g \in Handles, NEW h \in Handles, IsOpen(g),
         handles[g].file = handles[h].file, handles[g].file \notin shared
  PROVE  g = h
BY Parts DEF OverlapNoted, Overlap, OpenOn

\* The totals stay counters of the files there are.
LEMMA TotalStays ==
  ASSUME IInv, TotalTyped, Record, DOMAIN files \subseteq DOMAIN files'
  PROVE  TotalTyped'
<1>1. \A f : \A op \in Ops : Performed(f, op) \in Nat
  BY DEF Performed
<1>2. Zero \in Counters
  BY DEF Zero, Counters
<1>3. \A f \in DOMAIN files : [op \in Ops |-> total[f][op] + Performed(f, op)] \in Counters
  BY <1>1 DEF TotalTyped, Counters
<1> QED BY <1>2, <1>3 DEF Record, TotalTyped

\* A file none of whose handles counts an operation keeps its total.
LEMMA NonePerformed ==
  ASSUME IInv, TotalTyped, Record, NEW f \in DOMAIN files, f \in DOMAIN files',
         \A g \in Handles : handles[g].file = f /\ handles'[g].file = f =>
                              handles'[g].counters = handles[g].counters
  PROVE  total'[f] = total[f]
<1>1. \A op \in Ops : Performed(f, op) = 0
  BY DEF Performed
<1>2. total'[f] = [op \in Ops |-> total[f][op] + Performed(f, op)]
  BY DEF Record
<1>3. total[f] \in [Ops -> Nat]
  BY DEF TotalTyped, Counters
<1>4. \A op \in Ops : total[f][op] + Performed(f, op) = total[f][op]
  BY <1>1, <1>3
<1> QED BY <1>2, <1>3, <1>4

\* A file one of whose handles counts one operation adds it to the total.
LEMMA OnePerformed ==
  ASSUME IInv, TotalTyped, Record, NEW h \in Handles, NEW op \in Ops, IsOpen(h),
         DOMAIN files' = DOMAIN files,
         handles'[h].file = handles[h].file,
         handles'[h].counters = [handles[h].counters EXCEPT ![op] = @ + 1],
         \A g \in Handles \ {h} : handles'[g] = handles[g]
  PROVE  total'[handles[h].file] = [total[handles[h].file] EXCEPT ![op] = @ + 1]
<1> DEFINE f == handles[h].file
<1>1. f \in DOMAIN files /\ handles[h].counters \in [Ops -> Nat]
  BY Parts DEF Counters
<1>2. /\ handles'[h].counters[op] # handles[h].counters[op]
      /\ \A o \in Ops \ {op} : handles'[h].counters[o] = handles[h].counters[o]
  BY <1>1
<1>3. Performed(f, op) = 1
  BY <1>2 DEF Performed
<1>4. \A o \in Ops \ {op} : Performed(f, o) = 0
  BY <1>2 DEF Performed
<1>5. total'[f] = [o \in Ops |-> total[f][o] + Performed(f, o)]
  BY <1>1 DEF Record
<1>6. total[f] \in [Ops -> Nat]
  BY <1>1 DEF TotalTyped, Counters
<1>7. total'[f] = [o \in Ops |-> IF o = op THEN total[f][o] + 1 ELSE total[f][o]]
  BY <1>3, <1>4, <1>5, <1>6
<1> QED BY <1>6, <1>7

-----------------------------------------------------------------------------
\* What the three page operations have in common: they count themselves in the
\* handle, and change the number of its pages in the file and the handle alike.
LEMMA WorkKeepsHistory ==
  ASSUME HistoryInv, Record, Share, IInv', NEW h \in Handles, NEW op \in Ops,
         NEW more \in Nat, IsOpen(h),
         DOMAIN files' = DOMAIN files,
         \A f \in DOMAIN files :
            /\ files'[f].counters = files[f].counters
            /\ Len(files'[f].pages) =
                 IF f = handles[h].file THEN Len(files[f].pages) + more
                                        ELSE Len(files[f].pages),
         handles'[h].file = handles[h].file,
         handles'[h].counters = [handles[h].counters EXCEPT ![op] = @ + 1],
         handles'[h].count = handles[h].count + more,
         \A g \in Handles \ {h} : handles'[g] = handles[g]
  PROVE  HistoryInv'
<1> USE DEF HistoryInv
<1>1. OverlapNoted' /\ shared \subseteq shared' /\ TotalTyped'
  BY SharedNoted, TotalStays
<1>2. \A g \in Handles : handles'[g].file = handles[g].file
  OBVIOUS
<1>3. \A f \in DOMAIN files : f # handles[h].file => total'[f] = total[f]
  BY <1>2, NonePerformed
<1>4. total'[handles[h].file] = [total[handles[h].file] EXCEPT ![op] = @ + 1]
  BY OnePerformed
<1>5. CountExact'
  <2> SUFFICES ASSUME NEW g \in Handles, handles'[g].file # 0,
                      handles'[g].file \notin shared'
               PROVE  handles'[g].count = Len(files'[handles'[g].file].pages)
    BY DEF CountExact, IsOpen
  <2>1. /\ IsOpen(g) /\ handles[g].file \notin shared
        /\ handles[g].file \in DOMAIN files
        /\ handles[g].count = Len(files[handles[g].file].pages)
    BY <1>1, <1>2, Parts DEF CountExact, IsOpen
  <2>2. CASE g = h
    BY <2>1, <2>2
  <2>3. CASE g # h
    BY <2>1, <2>3, OnlyHandle
  <2> QED BY <2>2, <2>3
<1>6. SessionTotal'
  <2> SUFFICES ASSUME NEW g \in Handles, handles'[g].file # 0,
                      handles'[g].file \notin shared'
               PROVE  handles'[g].counters = total'[handles'[g].file]
    BY DEF SessionTotal, IsOpen
  <2>1. /\ IsOpen(g) /\ handles[g].file \notin shared
        /\ handles[g].file \in DOMAIN files
        /\ handles[g].counters = total[handles[g].file]
    BY <1>1, <1>2, Parts DEF SessionTotal, IsOpen
  <2>2. CASE g = h
    BY <1>4, <2>1, <2>2
  <2>3. CASE g # h
    BY <1>3, <2>1, <2>3, OnlyHandle
  <2> QED BY <2>2, <2>3
<1>7. CountersTotal'
  <2> SUFFICES ASSUME NEW f \in DOMAIN files', f \notin shared',
                      \A g \in Handles : handles'[g].file # f
               PROVE  files'[f].counters = total'[f]
    BY DEF CountersTotal, OpenOn
  <2>1. files[f].counters = total[f]
    BY <1>1, <1>2 DEF CountersTotal, OpenOn
  <2> QED BY <1>3, <2>1
<1> QED BY <1>1, <1>5, <1>6, <1>7

\* Counting an operation in a handle.
LEMMA CountedEffect ==
  ASSUME IInv, NEW h \in Handles, NEW op \in Ops
  PROVE  /\ Counted(h, op)[h].file = handles[h].file
         /\ Counted(h, op)[h].count = handles[h].count
         /\ Counted(h, op)[h].counters = [handles[h].counters EXCEPT ![op] = @ + 1]
         /\ \A g \in Handles \ {h} : Counted(h, op)[g] = handles[g]
<1>1. handles[h] \in [file : 0..Len(files), counters : Counters, count : Nat]
  BY DEF IInv, PTypeOK
<1>2. Counted(h, op) = [handles EXCEPT ![h] =
        [handles[h] EXCEPT !.counters = [handles[h].counters EXCEPT ![op] = @ + 1]]]
  BY DEF Counted
<1> QED BY <1>1, <1>2 DEF IInv, PTypeOK

LEMMA ReadHistory ==
  ASSUME HistoryInv, Record, Share, IInv', NEW h \in Handles, NEW n \in Nat, readPage(h, n)
  PROVE  HistoryInv'
<1>1. IsOpen(h) /\ files' = files /\ handles' = Counted(h, "read") /\ "read" \in Ops
  BY DEF readPage, Ops
<1>2. \A f \in DOMAIN files : Len(files[f].pages) \in Nat
  BY Parts DEF HistoryInv
<1>3. handles[h].count \in Nat
  BY Parts DEF HistoryInv
<1>4. \A f \in DOMAIN files :
        /\ files'[f].counters = files[f].counters
        /\ Len(files'[f].pages) = IF f = handles[h].file THEN Len(files[f].pages) + 0
                                                         ELSE Len(files[f].pages)
  BY <1>1, <1>2
<1>5. /\ handles'[h].file = handles[h].file
      /\ handles'[h].count = handles[h].count
      /\ handles'[h].counters = [handles[h].counters EXCEPT !["read"] = @ + 1]
      /\ \A g \in Handles \ {h} : handles'[g] = handles[g]
  <2>1. IInv /\ handles' = Counted(h, "read") /\ "read" \in Ops
    BY <1>1 DEF HistoryInv
  <2> QED BY <2>1, CountedEffect
<1>6. handles'[h].count = handles[h].count + 0
  BY <1>1, <1>3, <1>5
<1> QED BY <1>1, <1>4, <1>5, <1>6, WorkKeepsHistory

LEMMA WriteHistory ==
  ASSUME HistoryInv, Record, Share, IInv', NEW h \in Handles, NEW n \in Nat,
         NEW page \in Pages, writePage(h, n, page)
  PROVE  HistoryInv'
<1> DEFINE f == handles[h].file
<1>1. /\ IsOpen(h) /\ "write" \in Ops /\ f \in DOMAIN files
      /\ files' = [files EXCEPT ![f].pages[n + 1] = page]
      /\ handles' = Counted(h, "write")
  BY Parts DEF writePage, Ops, HistoryInv
<1>2. /\ \A g \in DOMAIN files : files[g] \in File /\ Len(files[g].pages) \in Nat
      /\ handles[h].count \in Nat
  BY Parts DEF HistoryInv
<1>3. files' = [files EXCEPT ![f] =
        [files[f] EXCEPT !.pages = [files[f].pages EXCEPT ![n + 1] = page]]]
  BY <1>1
<1>4. Len([files[f].pages EXCEPT ![n + 1] = page]) = Len(files[f].pages)
  <2>1. files[f].pages \in Seq(Pages)
    BY <1>1, <1>2 DEF File
  <2> QED BY <2>1
<1>5. /\ DOMAIN files' = DOMAIN files
      /\ \A g \in DOMAIN files :
           /\ files'[g].counters = files[g].counters
           /\ Len(files'[g].pages) = IF g = handles[h].file THEN Len(files[g].pages) + 0
                                                            ELSE Len(files[g].pages)
  BY <1>1, <1>2, <1>3, <1>4 DEF File
<1>6. /\ handles'[h].file = handles[h].file
      /\ handles'[h].count = handles[h].count
      /\ handles'[h].counters = [handles[h].counters EXCEPT !["write"] = @ + 1]
      /\ \A g \in Handles \ {h} : handles'[g] = handles[g]
  <2>1. IInv /\ handles' = Counted(h, "write") /\ "write" \in Ops
    BY <1>1 DEF HistoryInv
  <2> QED BY <2>1, CountedEffect
<1>7. handles'[h].count = handles[h].count + 0
  BY <1>1, <1>2, <1>6
<1> QED BY <1>1, <1>5, <1>6, <1>7, WorkKeepsHistory

LEMMA AppendHistory ==
  ASSUME HistoryInv, Record, Share, IInv', NEW h \in Handles, NEW page \in Pages,
         appendPage(h, page)
  PROVE  HistoryInv'
<1> DEFINE f == handles[h].file
           c == Counted(h, "append")
<1>1. /\ IsOpen(h) /\ "append" \in Ops /\ f \in DOMAIN files
      /\ files' = [files EXCEPT ![f].pages = Append(@, page)]
      /\ handles' = [c EXCEPT ![h].count = @ + 1]
  BY Parts DEF appendPage, Ops, HistoryInv
<1>2. \A g \in DOMAIN files : files[g] \in File /\ Len(files[g].pages) \in Nat
  BY Parts DEF HistoryInv
<1>3. Len(Append(files[f].pages, page)) = Len(files[f].pages) + 1
  <2>1. files[f].pages \in Seq(Pages)
    BY <1>1, <1>2 DEF File
  <2> QED BY <2>1
<1>4. files' = [files EXCEPT ![f] =
        [files[f] EXCEPT !.pages = Append(files[f].pages, page)]]
  BY <1>1
<1>5. /\ DOMAIN files' = DOMAIN files
      /\ \A g \in DOMAIN files :
           /\ files'[g].counters = files[g].counters
           /\ Len(files'[g].pages) = IF g = handles[h].file THEN Len(files[g].pages) + 1
                                                            ELSE Len(files[g].pages)
  BY <1>1, <1>2, <1>3, <1>4 DEF File
<1>6. c \in [Handles -> [file : 0..Len(files), counters : Counters, count : Nat]]
  BY CountedIsTyped, <1>1 DEF HistoryInv
<1>7. /\ handles' = [c EXCEPT ![h] = [c[h] EXCEPT !.count = c[h].count + 1]]
      /\ c[h] \in [file : 0..Len(files), counters : Counters, count : Nat]
  <2> HIDE DEF c
  <2> QED BY <1>1, <1>6
<1>8. /\ handles'[h].file = c[h].file
      /\ handles'[h].counters = c[h].counters
      /\ handles'[h].count = c[h].count + 1
      /\ \A g \in Handles \ {h} : handles'[g] = c[g]
  <2> HIDE DEF c
  <2> QED BY <1>6, <1>7
<1>9. /\ c[h].file = handles[h].file
      /\ c[h].count = handles[h].count
      /\ c[h].counters = [handles[h].counters EXCEPT !["append"] = @ + 1]
      /\ \A g \in Handles \ {h} : c[g] = handles[g]
  BY CountedEffect, <1>1 DEF HistoryInv
<1>10. /\ handles'[h].file = handles[h].file
       /\ handles'[h].count = handles[h].count + 1
       /\ handles'[h].counters = [handles[h].counters EXCEPT !["append"] = @ + 1]
       /\ \A g \in Handles \ {h} : handles'[g] = handles[g]
  <2> HIDE DEF c
  <2> QED BY <1>8, <1>9
<1> HIDE DEF c
<1> QED BY <1>1, <1>5, <1>10, WorkKeepsHistory

-----------------------------------------------------------------------------
\* A new file has no operations and no handles.
LEMMA CreateHistory ==
  ASSUME HistoryInv, Record, Share, IInv', createFile
  PROVE  HistoryInv'
<1> USE DEF HistoryInv
<1>1. /\ files' = Append(files, Created) /\ handles' = handles
      /\ files \in Seq(File) /\ Created \in File
  BY DEF createFile, IInv, PTypeOK, Created, File, Counters, Zero
<1>2. /\ DOMAIN files' = DOMAIN files \cup {Len(files) + 1}
      /\ DOMAIN files \subseteq DOMAIN files'
      /\ Len(files) + 1 \notin DOMAIN files
      /\ files'[Len(files) + 1] = Created
      /\ \A f \in DOMAIN files : files'[f] = files[f]
  BY <1>1
<1>3. OverlapNoted' /\ shared \subseteq shared' /\ TotalTyped'
  BY <1>2, SharedNoted, TotalStays
<1>4. \A f \in DOMAIN files : total'[f] = total[f]
  BY <1>1, <1>2, NonePerformed
<1>5. total'[Len(files) + 1] = Zero
  BY <1>2 DEF Record
<1>6. CountExact'
  BY <1>1, <1>2, <1>3, Parts DEF CountExact, IsOpen
<1>7. SessionTotal'
  BY <1>1, <1>3, <1>4, Parts DEF SessionTotal, IsOpen
<1>8. CountersTotal'
  <2> SUFFICES ASSUME NEW f \in DOMAIN files', f \notin shared',
                      \A g \in Handles : handles'[g].file # f
               PROVE  files'[f].counters = total'[f]
    BY DEF CountersTotal, OpenOn
  <2>1. CASE f \in DOMAIN files
    BY <1>1, <1>2, <1>3, <1>4, <2>1 DEF CountersTotal, OpenOn
  <2>2. CASE f = Len(files) + 1
    BY <1>2, <1>5, <2>2 DEF Created
  <2> QED BY <1>2, <2>1, <2>2
<1> QED BY <1>3, <1>6, <1>7, <1>8

\* destroyFile leaves the file itself to the handles it is open in.
LEMMA DestroyHistory ==
  ASSUME HistoryInv, Record, Share, IInv', destroyFile
  PROVE  HistoryInv'
<1> USE DEF HistoryInv
<1>1. files' = files /\ handles' = handles
  BY DEF destroyFile
<1>2. OverlapNoted' /\ shared \subseteq shared' /\ TotalTyped'
  BY <1>1, SharedNoted, TotalStays
<1>3. \A f \in DOMAIN files : total'[f] = total[f]
  BY <1>1, NonePerformed
<1>4. CountExact'
  BY <1>1, <1>2 DEF CountExact, IsOpen
<1>5. SessionTotal'
  BY <1>1, <1>2, <1>3, Parts DEF SessionTotal, IsOpen
<1>6. CountersTotal'
  BY <1>1, <1>2, <1>3 DEF CountersTotal, OpenOn
<1> QED BY <1>2, <1>4, <1>5, <1>6

\* openFile starts the session of a handle alone on its file from the totals
\* and the length of the file.
LEMMA OpenHistory ==
  ASSUME HistoryInv, Record, Share, IInv', NEW h \in Handles, openFile(h)
  PROVE  HistoryInv'
<1> USE DEF HistoryInv
<1>1. /\ files' = files /\ name \in DOMAIN files /\ ~IsOpen(h)
      /\ handles' = [handles EXCEPT ![h] = [file |-> name, counters |-> files[name].counters,
                                            count |-> PageCount(name)]]
      /\ handles \in [Handles -> [file : 0..Len(files), counters : Counters, count : Nat]]
  BY DEF openFile, IInv, PTypeOK
<1>2. /\ handles'[h].file = name
      /\ handles'[h].counters = files[name].counters
      /\ handles'[h].count = Len(files[name].pages)
      /\ \A g \in Handles \ {h} : handles'[g] = handles[g]
  BY <1>1 DEF PageCount
<1>3. OverlapNoted' /\ shared \subseteq shared' /\ TotalTyped'
  BY <1>1, SharedNoted, TotalStays
<1>4. \A f \in DOMAIN files : total'[f] = total[f]
  <2> SUFFICES ASSUME NEW f \in DOMAIN files PROVE total'[f] = total[f]
    OBVIOUS
  <2>1. \A g \in Handles : handles[g].file = f /\ handles'[g].file = f =>
                             handles'[g].counters = handles[g].counters
    BY <1>1, <1>2, Parts DEF IsOpen
  <2> QED BY <1>1, <2>1, NonePerformed
<1>5. CountExact'
  BY <1>1, <1>2, <1>3 DEF CountExact, IsOpen
<1>6. name \notin shared' => files[name].counters = total[name]
  <2> SUFFICES ASSUME name \notin shared' PROVE files[name].counters = total[name]
    OBVIOUS
  <2>1. \A g \in Handles \ {h} : handles[g].file # name
    BY <1>1, <1>2, <1>3 DEF OverlapNoted, Overlap, OpenOn
  <2>2. handles[h].file # name
    BY <1>1, Parts DEF IsOpen
  <2> QED BY <1>1, <1>3, <2>1, <2>2 DEF CountersTotal, OpenOn
<1>7. SessionTotal'
  <2> SUFFICES ASSUME NEW g \in Handles, handles'[g].file # 0,
                      handles'[g].file \notin shared'
               PROVE  handles'[g].counters = total'[handles'[g].file]
    BY DEF SessionTotal, IsOpen
  <2>1. CASE g = h
    BY <1>1, <1>2, <1>4, <1>6, <2>1
  <2>2. CASE g # h
    BY <1>2, <1>3, <1>4, <2>2, Parts DEF SessionTotal, IsOpen
  <2> QED BY <2>1, <2>2
<1>8. CountersTotal'
  BY <1>1, <1>2, <1>3, <1>4, Parts DEF CountersTotal, OpenOn, IsOpen
<1> QED BY <1>3, <1>5, <1>7, <1>8

\* closeFile puts the totals of a session that was alone into the header.
LEMMA CloseHistory ==
  ASSUME HistoryInv, Record, Share, IInv', NEW h \in Handles, closeFile(h)
  PROVE  HistoryInv'
<1> USE DEF HistoryInv
<1> DEFINE f == handles[h].file
<1>1. /\ IsOpen(h) /\ f \in DOMAIN files /\ f # 0
      /\ files' = [files EXCEPT ![f].counters = handles[h].counters]
      /\ handles' = [handles EXCEPT ![h] = Closed]
      /\ handles \in [Handles -> [file : 0..Len(files), counters : Counters, count : Nat]]
  BY Parts DEF closeFile, IInv, PTypeOK, IsOpen
<1>2. /\ handles'[h] = Closed
      /\ \A g \in Handles \ {h} : handles'[g] = handles[g]
  BY <1>1
<1>3. \A g \in DOMAIN files : files[g] \in File
  BY Parts
<1>4. /\ DOMAIN files' = DOMAIN files
      /\ \A g \in DOMAIN files : files'[g].pages = files[g].pages
      /\ \A g \in DOMAIN files \ {f} : files'[g] = files[g]
      /\ files'[f].counters = handles[h].counters
  BY <1>1, <1>3 DEF File
<1>5. OverlapNoted' /\ shared \subseteq shared' /\ TotalTyped'
  BY <1>4, SharedNoted, TotalStays
<1>6. \A g \in DOMAIN files : total'[g] = total[g]
  <2> SUFFICES ASSUME NEW g \in DOMAIN files PROVE total'[g] = total[g]
    OBVIOUS
  <2>1. \A i \in Handles : handles[i].file = g /\ handles'[i].file = g =>
                             handles'[i].counters = handles[i].counters
    BY <1>1, <1>2 DEF Closed
  <2> QED BY <1>4, <2>1, NonePerformed
<1>7. CountExact'
  BY <1>2, <1>4, <1>5, Parts DEF CountExact, IsOpen, Closed
<1>8. SessionTotal'
  BY <1>2, <1>5, <1>6, Parts DEF SessionTotal, IsOpen, Closed
<1>9. CountersTotal'
  <2> SUFFICES ASSUME NEW g \in DOMAIN files', g \notin shared',
                      \A i \in Handles : handles'[i].file # g
               PROVE  files'[g].counters = total'[g]
    BY DEF CountersTotal, OpenOn
  <2>1. CASE g = f
    BY <1>1, <1>4, <1>5, <1>6, <2>1 DEF SessionTotal
  <2>2. CASE g # f
    BY <1>2, <1>4, <1>5, <1>6, <2>2 DEF CountersTotal, OpenOn
  <2> QED BY <2>1, <2>2
<1> QED BY <1>5, <1>7, <1>8, <1>9

\* A crash takes back what the sessions it cuts short have not stored.
LEMMA CrashHistory ==
  ASSUME HistoryInv, CutShort, Share, IInv', Crash
  PROVE  HistoryInv'
<1> USE DEF HistoryInv
<1>1. files' = files /\ \A h \in Handles : handles'[h] = Closed
  BY DEF Crash
<1>2. OverlapNoted' /\ shared \subseteq shared'
  BY SharedNoted
<1>3. \A f \in DOMAIN files : files[f].counters \in Counters
  BY Parts DEF File
<1>4. TotalTyped'
  BY <1>1, <1>3 DEF CutShort, TotalTyped
<1>5. CountExact' /\ SessionTotal'
  BY <1>1 DEF CountExact, SessionTotal, IsOpen, Closed
<1>6. CountersTotal'
  BY <1>1, <1>2 DEF CutShort, CountersTotal
<1> QED BY <1>2, <1>4, <1>5, <1>6

\* The inductive invariant of the layer with its history, whatever bounds a
\* run puts on it.
THEOREM HistoryInvariant == HistorySpec => []HistoryInv
<1>1. MCInit => HistoryInv
  <2> SUFFICES ASSUME MCInit PROVE HistoryInv
    OBVIOUS
  <2>1. IInv
    BY DEF MCInit, PInit, Closed, Counters, Zero, IInv, PTypeOK, AdmittedPagesExist,
           IsOpen, File
  <2>2. files = << >> /\ total = << >> /\ DOMAIN files = {} /\ DOMAIN total = {}
    BY DEF MCInit, PInit
  <2>3. TotalTyped /\ OverlapNoted /\ CountersTotal
    BY <2>2 DEF TotalTyped, OverlapNoted, CountersTotal
  <2>4. CountExact /\ SessionTotal
    BY DEF MCInit, PInit, Closed, CountExact, SessionTotal, IsOpen
  <2> QED BY <2>1, <2>3, <2>4 DEF HistoryInv
<1>2. HistoryInv /\ [MCNext]_mcVars => HistoryInv'
  <2> SUFFICES ASSUME HistoryInv, [MCNext]_mcVars PROVE HistoryInv'
    OBVIOUS
  <2>1. CASE UNCHANGED mcVars
    BY <2>1 DEF mcVars, pvars, HistoryInv, IInv, PTypeOK, AdmittedPagesExist, IsOpen,
                TotalTyped, OverlapNoted, Overlap, OpenOn, CountExact, SessionTotal,
                CountersTotal
  <2>2. CASE MCNext
    <3>1. IInv'
      <4>1. [PNext \/ Crash]_pvars
        BY <2>2 DEF MCNext
      <4> QED BY <4>1, InvariantStep DEF HistoryInv
    <3>2. Share
      BY <2>2 DEF MCNext
    <3>3. CASE Crash /\ CutShort
      BY <3>1, <3>2, <3>3, CrashHistory
    <3>4. CASE PNext /\ Record
      <4>1. CASE createFile BY <3>1, <3>2, <3>4, <4>1, CreateHistory
      <4>2. CASE destroyFile BY <3>1, <3>2, <3>4, <4>2, DestroyHistory
      <4>3. ASSUME NEW h \in Handles, openFile(h) PROVE HistoryInv'
        BY <3>1, <3>2, <3>4, <4>3, OpenHistory
      <4>4. ASSUME NEW h \in Handles, Work(h) PROVE HistoryInv'
        <5>1. 0..Len(files[handles[h].file].pages) \subseteq Nat
          OBVIOUS
        <5> QED BY <3>1, <3>2, <3>4, <4>4, <5>1, ReadHistory, WriteHistory, AppendHistory
                DEF Work
      <4>5. ASSUME NEW h \in Handles, closeFile(h) PROVE HistoryInv'
        BY <3>1, <3>2, <3>4, <4>5, CloseHistory
      <4> QED BY <3>4, <4>1, <4>2, <4>3, <4>4, <4>5 DEF PNext
    <3> QED BY <2>2, <3>3, <3>4 DEF MCNext
  <2> QED BY <2>1, <2>2
<1> QED BY <1>1, <1>2, PTL DEF HistorySpec

\* No open, close, destruction or crash leaves a count behind that a later
\* session starts from: a handle that has not shared its file knows the number
\* of its pages.
THEOREM CountStaysExact == HistorySpec => []CountExact
<1>1. HistoryInv => CountExact
  BY DEF HistoryInv
<1> QED BY <1>1, HistoryInvariant, PTL

\* The header of a closed file counts all the operations of its sessions that
\* did not overlap and were not cut short.
THEOREM CountersAddUp == HistorySpec => []CountersTotal
<1>1. HistoryInv => CountersTotal
  BY DEF HistoryInv
<1> QED BY <1>1, HistoryInvariant, PTL
=============================================================================
