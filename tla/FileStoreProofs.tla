--------------------------- MODULE FileStoreProofs --------------------------
(***************************************************************************)
(* An append that returned stays in the log, at its number, once and       *)
(* complete, for any number of writers, events, retries and failures.  The *)
(* invariant says where a frame can be: waiting in one queue, or in one    *)
(* file, or in both only between the publication of the file and the       *)
(* return of the append that made it.                                      *)
(*                                                                         *)
(* A follower of the log reads every entry once and in order: the numbers  *)
(* of the files have no gap, because a writer never tries one beyond the   *)
(* first free number.                                                      *)
(*                                                                         *)
(* The cascading cache: what a lookup has seen of a tier is no newer than  *)
(* the tier, and strictly older where someone else has written since, so   *)
(* that a promotion which still matches has not been overtaken.            *)
(***************************************************************************)
EXTENDS FileStore, CascadingCache, FiniteSetTheorems, WellFoundedInduction, TLAPS

Frame == Writers \X Nat
Entry == [frame : Frame, whole : BOOLEAN]
Pc == {"idle", "more", "put", "writing", "publish", "returned", "truncating"}
Writer == [pc : Pc, seq : Nat, attempts : Nat, pending : Seq(Frame), temp : {"none", "partial", "whole"}]

Files == DOMAIN visible
Appending == {"put", "writing", "publish"}

FileTypeOK ==
    /\ store \in {"single", "multi"}
    /\ Files \subseteq Nat /\ visible \in [Files -> Entry]
    /\ writer \in [Writers -> Writer]
    /\ spent \in [events : Nat, faults : Nat, truncates : Nat]

\* There is a last file, unless there is none at all.
LastFile == Files = {} \/ \E m \in Files : \A s \in Files : s <= m

\* A queue holds events of its own writer, in the order it observed them.
Queue(w) ==
    LET q == writer[w].pending IN
        /\ \A i \in 1..Len(q) : q[i][1] = w /\ q[i][2] <= spent.events
        /\ \A i, j \in 1..Len(q) : i < j => q[i][2] < q[j][2]
        /\ writer[w].pc \in Appending \cup {"returned"} => q # <<>>

\* A frame is in a queue and in a file only after its publication and before the append returns.
OnePlace(w) ==
    /\ \A i \in 1..Len(writer[w].pending) : \A s \in Files :
         visible[s].frame = writer[w].pending[i] => i = 1 /\ writer[w].pc = "returned" /\ s = writer[w].seq
    /\ writer[w].pc = "returned" => writer[w].seq \in Files /\ visible[writer[w].seq].frame = writer[w].pending[1]

\* A file is published whole, and in the single-writer log, which has one writer, never over another.
Safely(w) ==
    /\ writer[w].pc = "publish" => writer[w].temp = "whole"
    /\ store = "single" /\ writer[w].pc \in Appending => writer[w].seq \notin Files
    /\ store = "single" /\ w \notin Active => writer[w].pc = "idle"

\* Only the single-writer log is truncated, after a file it has and nothing acknowledged is beyond.
Cutting(w) ==
    writer[w].pc = "truncating" =>
        store = "single" /\ writer[w].seq \in Files /\ \A a \in acked : a[1] <= writer[w].seq

WriterOK(w) == Queue(w) /\ OnePlace(w) /\ Safely(w) /\ Cutting(w)

\* A file is complete and holds an event that was observed; no event is in two files.
FilesSound ==
    /\ \A s \in Files : visible[s].whole /\ visible[s].frame[2] <= spent.events
    /\ \A s, t \in Files : visible[s].frame = visible[t].frame => s = t

\* What was acknowledged is in the log.
AckedKept == \A a \in acked : a[1] \in Files /\ visible[a[1]].frame = a[2]

FileInv == FileTypeOK /\ LastFile /\ FilesSound /\ AckedKept /\ \A w \in Writers : WriterOK(w)

-----------------------------------------------------------------------------
(* What the type invariant says of single values.                          *)
LEMMA FileTypes ==
    ASSUME FileTypeOK
    PROVE  /\ Active \subseteq Writers /\ Files \subseteq Nat
           /\ spent.events \in Nat
           /\ \A w \in Writers : /\ writer[w] \in Writer /\ writer[w].pc \in Pc /\ writer[w].seq \in Nat
                                 /\ writer[w].attempts \in Nat /\ writer[w].pending \in Seq(Frame)
           /\ \A w \in Writers : /\ Len(writer[w].pending) \in Nat
                                 /\ \A i \in 1..Len(writer[w].pending) : writer[w].pending[i] \in Frame
           /\ \A s \in Files : visible[s] \in Entry /\ visible[s].frame \in Frame
           /\ \A f \in Frame : f = <<f[1], f[2]>> /\ f[1] \in Writers /\ f[2] \in Nat
<1>1. Active \subseteq Writers
  BY FileAssumption DEF Active
<1>2. \A w \in Writers : writer[w] \in Writer
  BY DEF FileTypeOK
<1>3. \A w \in Writers : writer[w].pc \in Pc /\ writer[w].seq \in Nat /\ writer[w].attempts \in Nat
                          /\ writer[w].pending \in Seq(Frame)
  BY <1>2 DEF Writer
<1>4. \A w \in Writers : /\ Len(writer[w].pending) \in Nat
                         /\ \A i \in 1..Len(writer[w].pending) : writer[w].pending[i] \in Frame
  BY <1>3
<1>5. \A s \in Files : visible[s] \in Entry
  BY DEF FileTypeOK
<1>6. \A s \in Files : visible[s].frame \in Frame
  BY <1>5 DEF Entry
<1>7. \A f \in Frame : f = <<f[1], f[2]>> /\ f[1] \in Writers /\ f[2] \in Nat
  BY DEF Frame
<1>8. QED
  BY <1>1, <1>2, <1>3, <1>4, <1>5, <1>6, <1>7 DEF FileTypeOK

(* The number after the last file is free.                                 *)
LEMMA NextSeqFree ==
    ASSUME FileTypeOK, LastFile
    PROVE  NextSeq \in Nat /\ NextSeq \notin Files /\ \A s \in Files : s < NextSeq
<1>1. CASE Files = {}
  BY <1>1 DEF NextSeq, Files
<1>2. CASE Files # {}
  <2>1. \E m \in Files : \A s \in Files : m >= s
    BY <1>2, FileTypes DEF LastFile
  <2>2. Max(Files) \in Files /\ \A s \in Files : Max(Files) >= s
    BY <2>1 DEF Max
  <2>3. NextSeq = Max(Files) + 1
    BY <1>2 DEF NextSeq, Files
  <2> HIDE DEF Files
  <2>4. QED
    BY <2>2, <2>3, FileTypes
<1>3. QED
  BY <1>1, <1>2

(* The maximum of two numbers is one of them.                              *)
LEMMA MaxOfTwo == ASSUME NEW a \in Nat, NEW b \in Nat PROVE Max({a, b}) \in {a, b}
<1>1. \E x \in {a, b} : \A y \in {a, b} : x >= y
  <2>1. CASE a >= b
    BY <2>1
  <2>2. CASE b >= a
    BY <2>2
  <2>3. QED
    BY <2>1, <2>2
<1>2. QED
  BY <1>1 DEF Max

(* A set of numbers has a least element.                                   *)
LEMMA MinOfSet == ASSUME NEW S, S \subseteq Nat, S # {} PROVE Min(S) \in S /\ \A y \in S : Min(S) <= y
<1>1. \E x \in S : \A y \in S : ~(<<y, x>> \in OpToRel(<, Nat))
  BY NatLessThanWellFounded, WFMin
<1>2. \A x, y \in Nat : <<y, x>> \in OpToRel(<, Nat) <=> y < x
  BY DEF OpToRel
<1>3. \E x \in S : \A y \in S : x <= y
  <2>1. PICK x \in S : \A y \in S : ~(<<y, x>> \in OpToRel(<, Nat))
    BY <1>1
  <2>2. \A y \in S : ~(y < x)
    BY <2>1, <1>2, Zenon
  <2>3. \A y \in S : x <= y
    BY <2>2
  <2>4. QED
    BY <2>3
<1>4. QED
  BY <1>3 DEF Min

(* An empty directory and idle writers.                                    *)
LEMMA FileInitInv == FileInit => FileInv
<1> SUFFICES ASSUME FileInit PROVE FileInv
  OBVIOUS
<1>1. Files = {}
  BY DEF FileInit, Files
<1>2. FileTypeOK
  <2>1. Idle \in Writer
    BY DEF Idle, Writer, Pc
  <2>2. visible \in [Files -> Entry]
    BY <1>1 DEF FileInit, Files
  <2>3. QED
    BY <2>1, <2>2, <1>1 DEF FileInit, FileTypeOK
<1>3. LastFile /\ FilesSound /\ AckedKept
  BY <1>1 DEF FileInit, LastFile, FilesSound, AckedKept
<1>4. ASSUME NEW w \in Writers PROVE WriterOK(w)
  <2>1. writer[w].pc = "idle" /\ writer[w].pending = <<>>
    BY DEF FileInit, Idle
  <2>2. QED
    BY <2>1, <1>1 DEF WriterOK, Queue, OnePlace, Safely, Cutting, Appending
<1>5. QED
  BY <1>2, <1>3, <1>4 DEF FileInv

(* A step of one writer that leaves files and acknowledgements alone.      *)
LEMMA WriterStep ==
    ASSUME FileInv, NEW w \in Writers, UNCHANGED <<store, visible, acked>>,
           writer' \in [Writers -> Writer], \A x \in Writers : x # w => writer'[x] = writer[x],
           spent' \in [events : Nat, faults : Nat, truncates : Nat], spent.events <= spent'.events,
           WriterOK(w)'
    PROVE  FileInv'
<1>t. FileTypeOK /\ Files' = Files /\ Files \subseteq Nat /\ spent.events \in Nat /\ spent'.events \in Nat
  BY FileTypes DEF FileInv, Files
<1>1. FileTypeOK'
  BY <1>t DEF FileTypeOK
<1>2. LastFile' /\ AckedKept'
  BY <1>t DEF FileInv, LastFile, AckedKept
<1>3. FilesSound'
  <2>1. \A s \in Files : visible[s].whole /\ visible[s].frame[2] <= spent'.events
    <3>1. \A s \in Files : visible[s].whole /\ visible[s].frame[2] <= spent.events /\ visible[s].frame[2] \in Nat
      BY <1>t, FileTypes DEF FileInv, FilesSound
    <3>2. \A n \in Nat : n <= spent.events => n <= spent'.events
      BY <1>t
    <3>3. QED
      BY <3>1, <3>2
  <2>2. QED
    BY <2>1, <1>t DEF FileInv, FilesSound
<1>4. ASSUME NEW x \in Writers, x # w PROVE WriterOK(x)'
  <2>1. WriterOK(x) /\ writer'[x] = writer[x]
    BY <1>4 DEF FileInv
  <2>2. Queue(x)'
    <3>1. \A i \in 1..Len(writer[x].pending) : writer[x].pending[i][2] \in Nat
      BY <1>t, FileTypes
    <3>2. \A i \in 1..Len(writer[x].pending) : writer[x].pending[i][2] <= spent'.events
      BY <2>1, <3>1, <1>t DEF WriterOK, Queue
    <3>3. QED
      BY <2>1, <3>2 DEF WriterOK, Queue
  <2>3. OnePlace(x)' /\ Safely(x)' /\ Cutting(x)'
    BY <2>1, <1>t DEF WriterOK, OnePlace, Safely, Cutting, Active
  <2>4. QED
    BY <2>2, <2>3 DEF WriterOK
<1>5. QED
  BY <1>1, <1>2, <1>3, <1>4 DEF FileInv

(* A step that leaves the queue of a writer as it is, of an append that    *)
(* has not published.                                                      *)
LEMMA QueueStays ==
    ASSUME FileInv, NEW w \in Active, UNCHANGED <<store, visible, acked>>,
           writer' \in [Writers -> Writer], \A x \in Writers : x # w => writer'[x] = writer[x],
           spent' \in [events : Nat, faults : Nat, truncates : Nat], spent'.events = spent.events,
           writer[w].pc # "returned", writer'[w].pc \in Appending \cup {"idle"},
           writer'[w].pending = writer[w].pending,
           writer'[w].pc \in Appending => writer[w].pending # <<>>,
           writer'[w].pc = "publish" => writer'[w].temp = "whole",
           store = "single" /\ writer'[w].pc \in Appending => writer'[w].seq \notin Files
    PROVE  FileInv'
<1>t. FileTypeOK /\ Files' = Files /\ w \in Writers /\ spent.events \in Nat /\ Active' = Active
  BY FileTypes DEF FileInv, Files, Active
<1>1. WriterOK(w)
  BY <1>t DEF FileInv
<1>2. Queue(w)'
  BY <1>1 DEF WriterOK, Queue, Appending
<1>3. OnePlace(w)'
  BY <1>1, <1>t DEF WriterOK, OnePlace, Appending
<1>4. Safely(w)' /\ Cutting(w)'
  BY <1>t DEF Safely, Cutting, Appending
<1>5. WriterOK(w)'
  BY <1>2, <1>3, <1>4 DEF WriterOK
<1>6. spent.events <= spent'.events
  BY <1>t
<1>7. QED
  BY <1>5, <1>6, <1>t, WriterStep

(* A step that empties the queue of a writer.                              *)
LEMMA QueueGone ==
    ASSUME FileInv, NEW w \in Active, UNCHANGED <<store, visible, acked>>,
           writer' \in [Writers -> Writer], \A x \in Writers : x # w => writer'[x] = writer[x],
           spent' \in [events : Nat, faults : Nat, truncates : Nat], spent'.events = spent.events,
           writer'[w].pc = "idle", writer'[w].pending = <<>>
    PROVE  FileInv'
<1>t. FileTypeOK /\ w \in Writers /\ spent.events \in Nat
  BY FileTypes DEF FileInv
<1>1. WriterOK(w)'
  BY DEF WriterOK, Queue, OnePlace, Safely, Cutting, Appending
<1>2. spent.events <= spent'.events
  BY <1>t
<1>3. QED
  BY <1>1, <1>2, <1>t, WriterStep

-----------------------------------------------------------------------------
(* The steps                                                               *)

(* A writer observes an event.                                             *)
LEMMA ObserveEventInv == ASSUME FileInv, NEW w \in Active, ObserveEvent(w) PROVE FileInv'
<1> DEFINE q == writer[w].pending
           f == <<w, spent.events + 1>>
<1>t. FileTypeOK /\ w \in Writers /\ spent.events \in Nat /\ WriterOK(w)
  BY FileTypes DEF FileInv
<1>q. q \in Seq(Frame) /\ Len(q) \in Nat /\ f \in Frame /\ f[1] = w /\ f[2] = spent.events + 1
  BY <1>t, FileTypes DEF Frame
<1>s. spent' \in [events : Nat, faults : Nat, truncates : Nat] /\ spent'.events = spent.events + 1
  BY <1>t DEF ObserveEvent, FileTypeOK
<1>u. UNCHANGED <<store, visible, acked>> /\ writer[w].pc = "idle" /\ Files' = Files
  BY DEF ObserveEvent, Quiet, Files
<1>w. /\ writer' \in [Writers -> Writer] /\ \A x \in Writers : x # w => writer'[x] = writer[x]
      /\ writer'[w].pc = "idle" /\ writer'[w].pending = Append(q, f)
  <2>1. Append(q, f) \in Seq(Frame) /\ writer[w] \in Writer
    BY <1>q, <1>t, FileTypes
  <2>2. [writer[w] EXCEPT !.pending = Append(q, f)] \in Writer
    BY <2>1 DEF Writer
  <2>3. writer' = [writer EXCEPT ![w] = [writer[w] EXCEPT !.pending = Append(q, f)]]
    BY <1>t DEF ObserveEvent, FileTypeOK
  <2>4. QED
    BY <2>1, <2>2, <2>3, <1>t, <1>u DEF FileTypeOK, Writer
<1>a. /\ Len(Append(q, f)) = Len(q) + 1 /\ Append(q, f)[Len(q) + 1] = f
      /\ \A i \in 1..Len(q) : Append(q, f)[i] = q[i] /\ q[i][2] \in Nat /\ q[i][1] = w
      /\ \A i \in 1..Len(q) : q[i][2] <= spent.events
      /\ \A i, j \in 1..Len(q) : i < j => q[i][2] < q[j][2]
  <2>1. \A i \in 1..Len(q) : q[i][2] \in Nat
    BY <1>t, FileTypes
  <2>2. QED
    BY SMTT(30), <2>1, <1>q, <1>t DEF WriterOK, Queue
<1> HIDE DEF q, f
<1>1. Queue(w)'
  <2>1. \A i \in 1..(Len(q) + 1) : Append(q, f)[i][1] = w /\ Append(q, f)[i][2] <= spent.events + 1
    BY <1>a, <1>q, <1>t
  <2>2. \A i, j \in 1..(Len(q) + 1) : i < j => Append(q, f)[i][2] < Append(q, f)[j][2]
    BY <1>a, <1>q, <1>t
  <2>3. QED
    BY <2>1, <2>2, <1>a, <1>w, <1>s DEF Queue, Appending
<1>2. OnePlace(w)'
  <2>1. \A s \in Files : visible[s].frame[2] <= spent.events /\ visible[s].frame[2] \in Nat
    BY <1>t, FileTypes DEF FileInv, FilesSound
  <2>2. \A s \in Files : visible[s].frame # f
    BY <2>1, <1>q, <1>t
  <2>3. \A i \in 1..Len(q) : \A s \in Files : visible[s].frame # q[i]
    BY <1>t, <1>u DEF WriterOK, OnePlace, q
  <2>4. \A i \in 1..(Len(q) + 1) : \A s \in Files : visible[s].frame # Append(q, f)[i]
    BY <2>2, <2>3, <1>a, <1>q
  <2>5. QED
    BY <2>4, <1>a, <1>w, <1>u DEF OnePlace
<1>3. Safely(w)' /\ Cutting(w)'
  BY <1>w DEF Safely, Cutting, Appending
<1>4. WriterOK(w)'
  BY <1>1, <1>2, <1>3 DEF WriterOK
<1>5. spent.events <= spent'.events
  BY <1>s, <1>t
<1>6. QED
  BY <1>4, <1>5, <1>t, <1>u, <1>w, <1>s, WriterStep

(* The record of one writer is replaced.                                   *)
LEMMA PutWriter ==
    ASSUME FileTypeOK, NEW w \in Writers, NEW r \in Writer, writer' = [writer EXCEPT ![w] = r]
    PROVE  /\ writer' \in [Writers -> Writer] /\ writer'[w] = r
           /\ \A x \in Writers : x # w => writer'[x] = writer[x]
BY DEF FileTypeOK

(* Steps that use up none of the budgets.                                  *)
LEMMA SameSpent ==
    ASSUME FileTypeOK, UNCHANGED spent
    PROVE  spent' \in [events : Nat, faults : Nat, truncates : Nat] /\ spent'.events = spent.events
BY DEF FileTypeOK

(* Steps that use up a failure.                                            *)
LEMMA FaultSpent ==
    ASSUME FileTypeOK, Fault
    PROVE  spent' \in [events : Nat, faults : Nat, truncates : Nat] /\ spent'.events = spent.events
BY DEF FileTypeOK, Fault

(* flush lists the directory for the number after the last.                *)
LEMMA FlushHeadInv == ASSUME FileInv, NEW w \in Active, FlushHead(w) PROVE FileInv'
<1> DEFINE r == [writer[w] EXCEPT !.pc = "put", !.seq = NextSeq, !.attempts = 0]
<1>t. FileTypeOK /\ LastFile /\ w \in Writers /\ writer[w] \in Writer
  BY FileTypes DEF FileInv
<1>n. NextSeq \in Nat /\ NextSeq \notin Files
  BY <1>t, NextSeqFree
<1>r. r \in Writer /\ r.pc = "put" /\ r.seq = NextSeq /\ r.pending = writer[w].pending
  BY <1>t, <1>n DEF Writer, Pc
<1>1. writer' = [writer EXCEPT ![w] = r]
  BY <1>t DEF FlushHead, FileTypeOK
<1> HIDE DEF r
<1>2. /\ writer' \in [Writers -> Writer] /\ writer'[w] = r
      /\ \A x \in Writers : x # w => writer'[x] = writer[x]
  BY <1>1, <1>r, <1>t, PutWriter
<1>3. UNCHANGED <<store, visible, acked, spent>> /\ writer[w].pending # <<>> /\ writer[w].pc # "returned"
  BY DEF FlushHead
<1>4. spent' \in [events : Nat, faults : Nat, truncates : Nat] /\ spent'.events = spent.events
  BY <1>t, <1>3, SameSpent
<1>5. QED
  BY <1>2, <1>3, <1>4, <1>n, <1>r, QueueStays DEF Appending

(* flush is over.                                                          *)
LEMMA FlushDoneInv == ASSUME FileInv, NEW w \in Active, FlushDone(w) PROVE FileInv'
<1> DEFINE r == [writer[w] EXCEPT !.pc = "idle"]
<1>t. FileTypeOK /\ w \in Writers /\ writer[w] \in Writer
  BY FileTypes DEF FileInv
<1>r. r \in Writer /\ r.pc = "idle" /\ r.pending = writer[w].pending
  BY <1>t DEF Writer, Pc
<1>1. writer' = [writer EXCEPT ![w] = r]
  BY <1>t DEF FlushDone, FileTypeOK
<1> HIDE DEF r
<1>2. /\ writer' \in [Writers -> Writer] /\ writer'[w] = r
      /\ \A x \in Writers : x # w => writer'[x] = writer[x]
  BY <1>1, <1>r, <1>t, PutWriter
<1>3. UNCHANGED <<store, visible, acked, spent>> /\ writer[w].pending = <<>>
  BY DEF FlushDone
<1>4. spent' \in [events : Nat, faults : Nat, truncates : Nat] /\ spent'.events = spent.events
  BY <1>t, <1>3, SameSpent
<1>5. QED
  BY <1>2, <1>3, <1>4, <1>r, QueueGone

(* The steps of an append before its file has a name.                      *)
LEMMA AttemptInv ==
    ASSUME FileInv, NEW w \in Active, Refresh(w) \/ WriteTemp(w) \/ SyncTemp(w) \/ Refused(w)
    PROVE  FileInv'
<1>t. FileTypeOK /\ LastFile /\ w \in Writers /\ writer[w] \in Writer /\ WriterOK(w)
  BY FileTypes DEF FileInv
<1>n. NextSeq \in Nat /\ NextSeq \notin Files /\ writer[w].seq \in Nat /\ writer[w].attempts \in Nat
  BY <1>t, NextSeqFree, FileTypes
<1>u. /\ UNCHANGED <<store, visible, acked, spent>>
      /\ writer[w].pc \in Appending /\ writer[w].pending # <<>> /\ writer[w].pc # "returned"
  BY <1>t DEF Refresh, WriteTemp, SyncTemp, Refused, Appending, WriterOK, Queue
<1>s. spent' \in [events : Nat, faults : Nat, truncates : Nat] /\ spent'.events = spent.events
  BY <1>t, <1>u, SameSpent
<1>f. store = "single" => writer[w].seq \notin Files
  BY <1>t, <1>u DEF WriterOK, Safely
<1>1. SUFFICES \E r \in Writer :
          /\ writer' = [writer EXCEPT ![w] = r]
          /\ r.pc \in Appending /\ r.pending = writer[w].pending
          /\ r.pc = "publish" => r.temp = "whole"
          /\ store = "single" => r.seq \notin Files
  <2>1. PICK r \in Writer :
          /\ writer' = [writer EXCEPT ![w] = r]
          /\ r.pc \in Appending /\ r.pending = writer[w].pending
          /\ r.pc = "publish" => r.temp = "whole"
          /\ store = "single" => r.seq \notin Files
    BY <1>1
  <2>2. /\ writer' \in [Writers -> Writer] /\ writer'[w] = r
        /\ \A x \in Writers : x # w => writer'[x] = writer[x]
    BY <2>1, <1>t, PutWriter
  <2>3. QED
    BY <2>1, <2>2, <1>u, <1>s, QueueStays
<1>2. CASE Refresh(w)
  <2> DEFINE m == Max({writer[w].seq, NextSeq})
             r == [writer[w] EXCEPT !.seq = m, !.attempts = 0]
  <2>1. m \in {writer[w].seq, NextSeq}
    BY <1>n, MaxOfTwo
  <2>2. writer' = [writer EXCEPT ![w] = r]
    BY <1>2, <1>t DEF Refresh, FileTypeOK
  <2> HIDE DEF m
  <2>3. m \in Nat
    BY <2>1, <1>n
  <2>4. r \in Writer /\ r.pc = "put" /\ r.pending = writer[w].pending /\ r.seq = m
    BY <2>3, <1>2, <1>t DEF Writer, Refresh
  <2> HIDE DEF r
  <2>5. QED
    BY <2>1, <2>2, <2>4, <1>n, <1>f DEF Appending
<1>3. CASE WriteTemp(w)
  <2> DEFINE r == [writer[w] EXCEPT !.pc = "writing", !.attempts = writer[w].attempts + 1, !.temp = "partial"]
  <2>1. writer' = [writer EXCEPT ![w] = r]
    BY <1>3, <1>t DEF WriteTemp, FileTypeOK
  <2> DEFINE n == writer[w].attempts + 1
  <2>n. n \in Nat
    BY <1>n
  <2> HIDE DEF n
  <2>2. r \in Writer /\ r.pc = "writing" /\ r.pending = writer[w].pending /\ r.seq = writer[w].seq
    BY <2>n, <1>t DEF Writer, Pc, n
  <2> HIDE DEF r
  <2>3. QED
    BY <2>1, <2>2, <1>f DEF Appending
<1>4. CASE SyncTemp(w)
  <2> DEFINE r == [writer[w] EXCEPT !.pc = "publish", !.temp = "whole"]
  <2>1. writer' = [writer EXCEPT ![w] = r]
    BY <1>4, <1>t DEF SyncTemp, FileTypeOK
  <2>2. r \in Writer /\ r.pc = "publish" /\ r.pending = writer[w].pending /\ r.seq = writer[w].seq /\ r.temp = "whole"
    BY <1>t DEF Writer, Pc
  <2> HIDE DEF r
  <2>3. QED
    BY <2>1, <2>2, <1>f DEF Appending
<1>5. CASE Refused(w)
  <2> DEFINE r == [writer[w] EXCEPT !.pc = "put", !.seq = writer[w].seq + 1, !.temp = "none"]
  <2>1. writer' = [writer EXCEPT ![w] = r] /\ store = "multi"
    BY <1>5, <1>t DEF Refused, FileTypeOK
  <2> DEFINE n == writer[w].seq + 1
  <2>n. n \in Nat
    BY <1>n
  <2> HIDE DEF n
  <2>2. r \in Writer /\ r.pc = "put" /\ r.pending = writer[w].pending
    BY <2>n, <1>t DEF Writer, Pc, n
  <2> HIDE DEF r
  <2>3. QED
    BY <2>1, <2>2 DEF Appending
<1>6. QED
  BY <1>2, <1>3, <1>4, <1>5

(* A failed append keeps its frame queued.                                 *)
LEMMA AppendFailsInv == ASSUME FileInv, NEW w \in Active, AppendFails(w) PROVE FileInv'
<1> DEFINE r == [writer[w] EXCEPT !.pc = "idle", !.temp = "none"]
<1>t. FileTypeOK /\ w \in Writers /\ writer[w] \in Writer
  BY FileTypes DEF FileInv
<1>r. r \in Writer /\ r.pc = "idle" /\ r.pending = writer[w].pending
  BY <1>t DEF Writer, Pc
<1>1. writer' = [writer EXCEPT ![w] = r]
  BY <1>t DEF AppendFails, FileTypeOK
<1> HIDE DEF r
<1>2. /\ writer' \in [Writers -> Writer] /\ writer'[w] = r
      /\ \A x \in Writers : x # w => writer'[x] = writer[x]
  BY <1>1, <1>r, <1>t, PutWriter
<1>3. UNCHANGED <<store, visible, acked>> /\ Fault /\ writer[w].pc # "returned"
  BY DEF AppendFails
<1>4. spent' \in [events : Nat, faults : Nat, truncates : Nat] /\ spent'.events = spent.events
  BY <1>t, <1>3, FaultSpent
<1>5. QED
  BY <1>2, <1>3, <1>4, <1>r, QueueStays DEF Appending

(* A writer dies, or gives its queue up.                                   *)
LEMMA QueueLostInv == ASSUME FileInv, NEW w \in Active, WriterDies(w) \/ Rollback(w) PROVE FileInv'
<1>t. FileTypeOK /\ w \in Writers /\ writer[w] \in Writer
  BY FileTypes DEF FileInv
<1>u. UNCHANGED <<store, visible, acked>>
  BY DEF WriterDies, Rollback
<1>s. spent' \in [events : Nat, faults : Nat, truncates : Nat] /\ spent'.events = spent.events
  BY <1>t, SameSpent, FaultSpent DEF WriterDies, Rollback
<1>1. \E r \in Writer : r.pc = "idle" /\ r.pending = <<>> /\ writer' = [writer EXCEPT ![w] = r]
  <2>1. CASE WriterDies(w)
    <3>1. Idle \in Writer /\ Idle.pc = "idle" /\ Idle.pending = <<>>
      BY DEF Idle, Writer, Pc
    <3>2. QED
      BY <3>1, <2>1 DEF WriterDies
  <2>2. CASE Rollback(w)
    <3> DEFINE r == [writer[w] EXCEPT !.pending = <<>>]
    <3>0. writer[w].pc = "idle" /\ <<>> \in Seq(Frame)
      BY <2>2 DEF Rollback, Quiet
    <3>1. r \in Writer /\ r.pc = "idle" /\ r.pending = <<>>
      BY <3>0, <1>t DEF Writer
    <3>2. writer' = [writer EXCEPT ![w] = r]
      BY <2>2, <1>t DEF Rollback, FileTypeOK
    <3> HIDE DEF r
    <3>3. QED
      BY <3>1, <3>2
  <2>3. QED
    BY <2>1, <2>2
<1>2. PICK r \in Writer : r.pc = "idle" /\ r.pending = <<>> /\ writer' = [writer EXCEPT ![w] = r]
  BY <1>1
<1>3. /\ writer' \in [Writers -> Writer] /\ writer'[w] = r
      /\ \A x \in Writers : x # w => writer'[x] = writer[x]
  BY <1>2, <1>t, PutWriter
<1>4. QED
  BY <1>2, <1>3, <1>u, <1>s, QueueGone
(* In the single-writer log a writer other than the one is idle.           *)
LEMMA OneWriter ==
    ASSUME FileInv, NEW w \in Active, store = "single", NEW x \in Writers, x # w
    PROVE  writer[x].pc = "idle"
<1>1. x \notin Active
  BY DEF Active
<1>2. QED
  BY <1>1 DEF FileInv, WriterOK, Safely

(* The frames of one queue differ, and no other queue has them.            *)
LEMMA FramesDiffer ==
    ASSUME FileInv, NEW w \in Writers
    PROVE  /\ \A i, j \in 1..Len(writer[w].pending) : writer[w].pending[i] = writer[w].pending[j] => i = j
           /\ \A x \in Writers : \A i \in 1..Len(writer[w].pending) : \A j \in 1..Len(writer[x].pending) :
                writer[w].pending[i] = writer[x].pending[j] => x = w
<1>t. FileTypeOK /\ \A x \in Writers : Queue(x) /\ Len(writer[x].pending) \in Nat
  BY FileTypes DEF FileInv, WriterOK
<1>1. \A x \in Writers : \A i \in 1..Len(writer[x].pending) : writer[x].pending[i][1] = x /\ writer[x].pending[i][2] \in Nat
  BY <1>t, FileTypes DEF Queue
<1>2. ASSUME NEW i \in 1..Len(writer[w].pending), NEW j \in 1..Len(writer[w].pending), writer[w].pending[i] = writer[w].pending[j]
      PROVE  i = j
  <2>1. i < j => writer[w].pending[i][2] < writer[w].pending[j][2]
    BY <1>t DEF Queue
  <2>2. j < i => writer[w].pending[j][2] < writer[w].pending[i][2]
    BY <1>t DEF Queue
  <2>3. QED
    BY <2>1, <2>2, <1>1, <1>2, <1>t
<1>3. ASSUME NEW x \in Writers, NEW i \in 1..Len(writer[w].pending), NEW j \in 1..Len(writer[x].pending),
             writer[w].pending[i] = writer[x].pending[j]
      PROVE  x = w
  <2>1. writer[w].pending[i][1] = w
    BY <1>1
  <2>2. writer[x].pending[j][1] = x
    BY <1>1
  <2>3. QED
    BY <1>3, <2>1, <2>2
<1>4. QED
  BY <1>2, <1>3

(* What a publication does to the log and to its writer.                   *)
LEMMA PublishIs ==
  ASSUME FileInv, NEW w \in Active, Publish(w), NEW k, k = writer[w].seq, NEW q, q = writer[w].pending
  PROVE  /\ writer[w].pc = "publish" /\ UNCHANGED <<store, acked, follower, spent>>
         /\ q \in Seq(Frame) /\ Len(q) \in Nat /\ 1 \in 1..Len(q) /\ q[1] \in Frame /\ q[1][2] <= spent.events
         /\ k \in Nat /\ k \notin Files
         /\ Contents(w) \in Entry /\ Contents(w).frame = q[1] /\ Contents(w).whole
         /\ Files' = Files \cup {k} /\ visible'[k] = Contents(w) /\ \A s \in Files : visible'[s] = visible[s]
         /\ visible' \in [Files' -> Entry]
         /\ writer' \in [Writers -> Writer] /\ \A x \in Writers : x # w => writer'[x] = writer[x]
         /\ writer'[w].pc = "returned" /\ writer'[w].seq = k /\ writer'[w].pending = q
         /\ \A i \in 1..Len(q) : \A s \in Files : visible[s].frame # q[i]
  <1> DEFINE r == [writer[w] EXCEPT !.pc = "returned", !.temp = "none"]
             c == Contents(w)
  <1>t. FileTypeOK /\ w \in Writers /\ writer[w] \in Writer /\ WriterOK(w)
    BY FileTypes DEF FileInv
  <1>p. /\ writer[w].pc = "publish" /\ (store = "multi" => k \notin Files) /\ visible' = Placed(w)
        /\ UNCHANGED <<store, acked, follower, spent>> /\ writer' = [writer EXCEPT ![w] = r]
    BY <1>t DEF Publish, Absent, Files, FileTypeOK
  <1>q. q \in Seq(Frame) /\ q # <<>> /\ Len(q) \in Nat /\ 1 \in 1..Len(q) /\ q[1] \in Frame
        /\ q[1][2] <= spent.events /\ k \in Nat
    <2>1. q \in Seq(Frame) /\ q # <<>> /\ k \in Nat
      BY <1>t, <1>p, FileTypes DEF WriterOK, Queue, Appending
    <2>2. Len(q) \in Nat /\ 1 \in 1..Len(q) /\ q[1] \in Frame
      BY <2>1
    <2>3. q[1][2] <= spent.events
      BY <1>t, <2>2 DEF WriterOK, Queue
    <2> QED BY <2>1, <2>2, <2>3
  <1>k. k \notin Files
    <2>1. store \in {"single", "multi"}
      BY <1>t DEF FileTypeOK
    <2>2. store = "single" => k \notin Files
      BY <1>t, <1>p DEF WriterOK, Safely, Appending
    <2> QED BY <1>p, <2>1, <2>2
  <1>c. c \in Entry /\ c.frame = q[1] /\ c.whole
    BY <1>t, <1>p, <1>q DEF WriterOK, Safely, Contents, Head1, Entry
  <1>v. /\ Files' = Files \cup {k} /\ visible'[k] = c /\ \A s \in Files : visible'[s] = visible[s]
        /\ visible' \in [Files' -> Entry]
    <2>1. visible' = [s \in Files \cup {k} |-> IF s = k THEN c ELSE visible[s]]
      BY <1>p DEF Placed, Files
    <2>2. \A s \in Files : visible[s] \in Entry
      BY <1>t, FileTypes
    <2> HIDE DEF c
    <2>3. Files' = Files \cup {k}
      BY <2>1 DEF Files
    <2> HIDE DEF Files
    <2> QED BY <2>1, <2>2, <2>3, <1>c, <1>k
  <1>r. /\ writer' \in [Writers -> Writer] /\ \A x \in Writers : x # w => writer'[x] = writer[x]
        /\ writer'[w].pc = "returned" /\ writer'[w].seq = k /\ writer'[w].pending = q
    <2>1. r \in Writer /\ r.pc = "returned" /\ r.seq = k /\ r.pending = q
      BY <1>t DEF Writer, Pc
    <2> HIDE DEF r
    <2> QED BY <2>1, <1>p, <1>t, PutWriter
  <1>n. \A i \in 1..Len(q) : \A s \in Files : visible[s].frame # q[i]
    BY <1>t, <1>p DEF WriterOK, OnePlace
  <1> HIDE DEF c, r
  <1> QED BY <1>p, <1>q, <1>k, <1>c, <1>v, <1>r, <1>n DEF c

(* The file gets its name: the frame is now in the log and, until the      *)
(* append returns, still in the queue.                                     *)
LEMMA PublishInv == ASSUME FileInv, NEW w \in Active, Publish(w) PROVE FileInv'
<1> DEFINE c == Contents(w)
<1>0. PICK k, q : k = writer[w].seq /\ q = writer[w].pending
  OBVIOUS
<1>t. FileTypeOK /\ LastFile /\ FilesSound /\ AckedKept /\ w \in Writers /\ writer[w] \in Writer /\ WriterOK(w)
  BY FileTypes DEF FileInv
<1>p. writer[w].pc = "publish" /\ UNCHANGED <<store, acked, spent>>
  BY <1>0, PublishIs
<1>q. q \in Seq(Frame) /\ Len(q) \in Nat /\ 1 \in 1..Len(q) /\ q[1] \in Frame
      /\ q[1][2] <= spent.events /\ k \in Nat
  BY <1>0, PublishIs
<1>c. c \in Entry /\ c.frame = q[1] /\ c.whole /\ k \notin Files
  BY <1>0, PublishIs
<1>v. /\ Files' = Files \cup {k} /\ visible'[k] = c /\ \A s \in Files : visible'[s] = visible[s]
      /\ visible' \in [Files' -> Entry]
  BY <1>0, PublishIs
<1>r. /\ writer' \in [Writers -> Writer] /\ \A x \in Writers : x # w => writer'[x] = writer[x]
      /\ writer'[w].pc = "returned" /\ writer'[w].seq = k /\ writer'[w].pending = q
  BY <1>0, PublishIs
<1>n. \A i \in 1..Len(q) : \A s \in Files : visible[s].frame # q[i]
  BY <1>0, PublishIs
<1> HIDE DEF c
<1>1. FileTypeOK'
  <2>1. Files' \subseteq Nat
    BY <1>v, <1>q, <1>t DEF FileTypeOK
  <2>2. QED
    BY <2>1, <1>v, <1>r, <1>p, <1>t DEF FileTypeOK
<1>2. LastFile'
  <2>1. Files \subseteq Nat
    BY <1>t DEF FileTypeOK
  <2>2. CASE Files = {}
    BY <2>2, <1>v, <1>q DEF LastFile
  <2>3. CASE Files # {}
    <3>1. PICK m \in Files : \A s \in Files : s <= m
      BY <2>3, <1>t DEF LastFile
    <3>2. CASE k <= m
      BY <3>1, <3>2, <1>v DEF LastFile
    <3>3. CASE m <= k
      <4>1. \A s \in Files : s <= k
        BY <3>1, <3>3, <2>1, <1>q
      <4>2. k <= k
        BY <1>q
      <4>3. QED
        BY <4>1, <4>2, <1>v DEF LastFile
    <3>4. QED
      BY <3>2, <3>3, <2>1, <1>q
  <2>4. QED
    BY <2>2, <2>3
<1>3. FilesSound'
  <2>1. \A s \in Files' : visible'[s].whole /\ visible'[s].frame[2] <= spent'.events
    BY <1>v, <1>c, <1>q, <1>p, <1>t DEF FilesSound
  <2>2. \A s, t \in Files' : visible'[s].frame = visible'[t].frame => s = t
    BY <1>v, <1>c, <1>n, <1>q, <1>t DEF FilesSound
  <2>3. QED
    BY <2>1, <2>2 DEF FilesSound
<1>4. AckedKept'
  BY <1>v, <1>p, <1>t DEF AckedKept
<1>5. WriterOK(w)'
  <2>1. Queue(w)'
    BY SMTT(30), <1>0, <1>r, <1>p, <1>t, <1>q DEF WriterOK, Queue
  <2>2. \A i \in 1..Len(q) : q[i] = q[1] => i = 1
    BY <1>0, <1>q, FramesDiffer, <1>t
  <2>3. \A i \in 1..Len(q) : \A s \in Files' : visible'[s].frame = q[i] => i = 1 /\ s = k
    BY <2>2, <1>v, <1>c, <1>n
  <2>4. OnePlace(w)'
    BY <2>3, <1>r, <1>v, <1>c DEF OnePlace
  <2>5. Safely(w)' /\ Cutting(w)'
    BY <1>r, <1>p DEF Safely, Cutting, Appending, Active
  <2>6. QED
    BY <2>1, <2>4, <2>5 DEF WriterOK
<1>6. ASSUME NEW x \in Writers, x # w PROVE WriterOK(x)'
  <2>1. WriterOK(x) /\ writer'[x] = writer[x] /\ (store = "single" => writer[x].pc = "idle")
    BY <1>6, <1>r, OneWriter DEF FileInv
  <2>2. Queue(x)'
    BY <2>1, <1>p DEF WriterOK, Queue
  <2>3. \A i \in 1..Len(writer[x].pending) : writer[x].pending[i] # q[1]
    BY <1>0, <1>6, <1>q, <1>t, FramesDiffer
  <2>4. OnePlace(x)'
    BY <2>1, <2>3, <1>v, <1>c DEF WriterOK, OnePlace
  <2>5. Safely(x)'
    BY <2>1, <1>p DEF WriterOK, Safely, Appending
  <2>6. Cutting(x)'
    BY <2>1, <1>p, <1>v DEF WriterOK, Cutting
  <2>7. QED
    BY <2>2, <2>4, <2>5, <2>6 DEF WriterOK
<1>7. QED
  BY <1>1, <1>2, <1>3, <1>4, <1>5, <1>6 DEF FileInv

(* The append returns: the frame leaves the queue and is acknowledged.     *)
LEMMA AppendReturnsInv == ASSUME FileInv, NEW w \in Active, AppendReturns(w) PROVE FileInv'
<1> DEFINE q == writer[w].pending
           r == [writer[w] EXCEPT !.pc = "more", !.pending = Tail(q)]
<1>t. FileTypeOK /\ LastFile /\ FilesSound /\ AckedKept /\ w \in Writers /\ writer[w] \in Writer /\ WriterOK(w)
  BY FileTypes DEF FileInv
<1>p. /\ writer[w].pc = "returned" /\ acked' = acked \union {<<writer[w].seq, q[1]>>}
      /\ UNCHANGED <<store, visible, spent>> /\ writer' = [writer EXCEPT ![w] = r] /\ Files' = Files
  <2>1. writer' = [writer EXCEPT ![w] = r]
    BY <1>t DEF AppendReturns, FileTypeOK
  <2> HIDE DEF r
  <2>2. QED
    BY <2>1 DEF AppendReturns, Head1, Files
<1>q. q \in Seq(Frame) /\ q # <<>> /\ Len(q) \in Nat
  BY <1>t, <1>p, FileTypes DEF WriterOK, Queue
<1>x. /\ Tail(q) \in Seq(Frame) /\ Len(Tail(q)) = Len(q) - 1
      /\ \A i \in 1..Len(Tail(q)) : Tail(q)[i] = q[i + 1] /\ i + 1 \in 1..Len(q) /\ i + 1 # 1
  BY <1>q
<1>r. /\ writer' \in [Writers -> Writer] /\ \A x \in Writers : x # w => writer'[x] = writer[x]
      /\ writer'[w].pc = "more" /\ writer'[w].pending = Tail(q)
  <2> DEFINE z == Tail(q)
  <2>0. z \in Seq(Frame)
    BY <1>x
  <2> HIDE DEF z
  <2>1. r \in Writer /\ r.pc = "more" /\ r.pending = z
    BY <2>0, <1>t DEF Writer, Pc, z
  <2> HIDE DEF r
  <2>2. QED
    BY <2>1, <1>p, <1>t, PutWriter DEF z
<1>n. /\ \A i \in 1..Len(q) : \A s \in Files : visible[s].frame = q[i] => i = 1
      /\ writer[w].seq \in Files /\ visible[writer[w].seq].frame = q[1]
  BY <1>t, <1>p DEF WriterOK, OnePlace
<1>m. /\ \A i \in 1..Len(q) : q[i][1] = w /\ q[i][2] <= spent.events
      /\ \A i, j \in 1..Len(q) : i < j => q[i][2] < q[j][2]
  BY <1>t DEF WriterOK, Queue
<1> HIDE DEF r, q
<1>1. FileTypeOK' /\ LastFile' /\ FilesSound'
  BY <1>t, <1>p, <1>r DEF FileTypeOK, LastFile, FilesSound
<1>2. AckedKept'
  BY <1>t, <1>p, <1>n DEF AckedKept
<1>3. WriterOK(w)'
  <2>1. \A i \in 1..Len(Tail(q)) : Tail(q)[i][1] = w /\ Tail(q)[i][2] <= spent'.events
    BY <1>x, <1>m, <1>p
  <2>2. \A i, j \in 1..Len(Tail(q)) : i < j => Tail(q)[i][2] < Tail(q)[j][2]
    <3>1. \A i, j \in 1..Len(Tail(q)) : i < j => i + 1 < j + 1
      BY <1>x, <1>q
    <3>2. QED
      BY <3>1, <1>x, <1>m
  <2>3. Queue(w)'
    BY <2>1, <2>2, <1>r DEF Queue, Appending
  <2>4. OnePlace(w)'
    BY <1>x, <1>n, <1>r, <1>p DEF OnePlace
  <2>5. Safely(w)' /\ Cutting(w)'
    BY <1>r, <1>p DEF Safely, Cutting, Appending, Active
  <2>6. QED
    BY <2>3, <2>4, <2>5 DEF WriterOK
<1>4. ASSUME NEW x \in Writers, x # w PROVE WriterOK(x)'
  <2>1. WriterOK(x) /\ writer'[x] = writer[x] /\ (store = "single" => writer[x].pc = "idle")
    BY <1>4, <1>r, OneWriter DEF FileInv
  <2>2. Queue(x)' /\ OnePlace(x)' /\ Safely(x)'
    BY <2>1, <1>p DEF WriterOK, Queue, OnePlace, Safely, Active
  <2>3. Cutting(x)'
    BY <2>1, <1>p DEF WriterOK, Cutting
  <2>4. QED
    BY <2>2, <2>3 DEF WriterOK
<1>5. QED
  BY <1>1, <1>2, <1>3, <1>4 DEF FileInv
(* truncate_after(keep) forgets what was acknowledged beyond keep.         *)
LEMMA TruncateAfterInv == ASSUME FileInv, NEW w \in Active, TruncateAfter(w) PROVE FileInv'
<1>t. FileTypeOK /\ LastFile /\ FilesSound /\ AckedKept /\ w \in Writers /\ writer[w] \in Writer /\ WriterOK(w)
  BY FileTypes DEF FileInv
<1>1. PICK keep \in Files :
        /\ writer' = [writer EXCEPT ![w] = [@ EXCEPT !.pc = "truncating", !.seq = keep]]
        /\ acked' = {a \in acked : a[1] <= keep}
  BY DEF TruncateAfter, Files
<1> DEFINE r == [writer[w] EXCEPT !.pc = "truncating", !.seq = keep]
<1>k. keep \in Nat
  BY <1>t DEF FileTypeOK
<1>p. /\ store = "single" /\ writer[w].pc = "idle" /\ UNCHANGED <<store, visible>> /\ Files' = Files
      /\ spent' \in [events : Nat, faults : Nat, truncates : Nat] /\ spent'.events = spent.events
  BY <1>t DEF TruncateAfter, Quiet, FileTypeOK, Files
<1>w. writer' = [writer EXCEPT ![w] = r]
  BY <1>1, <1>t DEF FileTypeOK
<1>r. /\ writer' \in [Writers -> Writer] /\ \A x \in Writers : x # w => writer'[x] = writer[x]
      /\ writer'[w].pc = "truncating" /\ writer'[w].seq = keep /\ writer'[w].pending = writer[w].pending
  <2>1. r \in Writer /\ r.pc = "truncating" /\ r.seq = keep /\ r.pending = writer[w].pending
    BY <1>t, <1>k DEF Writer, Pc
  <2> HIDE DEF r
  <2>2. QED
    BY <2>1, <1>w, <1>t, PutWriter
<1> HIDE DEF r
<1>2. FileTypeOK' /\ LastFile' /\ FilesSound'
  BY <1>t, <1>p, <1>r DEF FileTypeOK, LastFile, FilesSound
<1>3. AckedKept'
  BY <1>t, <1>1, <1>p DEF AckedKept
<1>4. WriterOK(w)'
  <2>1. Queue(w)' /\ OnePlace(w)'
    BY <1>t, <1>p, <1>r DEF WriterOK, Queue, OnePlace, Appending
  <2>2. Safely(w)' /\ Cutting(w)'
    BY <1>r, <1>p, <1>1 DEF Safely, Cutting, Appending, Active
  <2>3. QED
    BY <2>1, <2>2 DEF WriterOK
<1>5. ASSUME NEW x \in Writers, x # w PROVE WriterOK(x)'
  <2>1. WriterOK(x) /\ writer'[x] = writer[x] /\ writer[x].pc = "idle"
    BY <1>5, <1>r, <1>p, OneWriter DEF FileInv
  <2>2. QED
    BY <2>1, <1>p DEF WriterOK, Queue, OnePlace, Safely, Cutting, Active, Appending
<1>6. QED
  BY <1>2, <1>3, <1>4, <1>5 DEF FileInv

(* One of the files beyond the kept number is deleted.                     *)
LEMMA DeleteNextInv == ASSUME FileInv, NEW w \in Active, DeleteNext(w) PROVE FileInv'
<1> DEFINE k == writer[w].seq
           d == Min(Above(k))
<1>t. FileTypeOK /\ LastFile /\ FilesSound /\ AckedKept /\ w \in Writers /\ WriterOK(w) /\ Files \subseteq Nat
  BY FileTypes DEF FileInv
<1>p. /\ writer[w].pc = "truncating" /\ Above(k) # {} /\ visible' = Restrict(visible, Files \ {d})
      /\ UNCHANGED <<store, writer, acked, spent>>
  BY DEF DeleteNext, Files
<1>c. store = "single" /\ k \in Files /\ \A a \in acked : a[1] <= k
  BY <1>t, <1>p DEF WriterOK, Cutting
<1>d. d \in Files /\ k < d
  <2>1. Above(k) \subseteq Nat
    BY <1>t DEF Above, Files
  <2>2. d \in Above(k)
    BY <2>1, <1>p, MinOfSet
  <2>3. QED
    BY <2>2 DEF Above, Files
<1> HIDE DEF d
<1>v. /\ Files' = Files \ {d} /\ \A s \in Files' : visible'[s] = visible[s]
      /\ visible' \in [Files' -> Entry]
  <2>1. visible' = [s \in Files \ {d} |-> visible[s]]
    BY <1>p DEF Restrict
  <2>2. \A s \in Files : visible[s] \in Entry
    BY <1>t, FileTypes
  <2>3. Files' = Files \ {d}
    BY <2>1 DEF Files
  <2> HIDE DEF Files
  <2>4. QED
    BY <2>1, <2>2, <2>3
<1>k. k \in Files' /\ k \in Nat /\ d \in Nat
  <2>1. k \in Files /\ d \in Files /\ k < d /\ Files' = Files \ {d}
    BY <1>c, <1>d, <1>v
  <2>2. k \in Nat /\ d \in Nat
    BY <1>t, <2>1
  <2> HIDE DEF k
  <2>3. k # d
    BY <2>1, <2>2
  <2>4. QED
    BY <2>1, <2>2, <2>3
<1>1. FileTypeOK'
  BY <1>v, <1>p, <1>t DEF FileTypeOK
<1>2. LastFile'
  <2>1. PICK m \in Files : \A s \in Files : s <= m
    BY <1>c, <1>t DEF LastFile
  <2>2. CASE m # d
    BY <2>1, <2>2, <1>v DEF LastFile
  <2>3. CASE m = d
    <3>1. \A s \in Above(k) : d <= s
      <4>1. Above(k) \subseteq Nat
        BY <1>t DEF Above, Files
      <4>2. QED
        BY <4>1, <1>p, MinOfSet DEF d
    <3>2. \A s \in Files : s > k => d <= s
      BY <3>1 DEF Above, Files
    <3>3. \A s \in Files' : s <= k
      <4>1. ASSUME NEW s \in Files' PROVE s <= k
        <5>1. s \in Nat /\ s # d /\ s <= d /\ (s > k => d <= s)
          BY <4>1, <3>2, <2>1, <2>3, <1>v, <1>t
        <5> HIDE DEF k
        <5>2. QED
          BY <5>1, <1>k
      <4>2. QED
        BY <4>1
    <3>4. QED
      BY <3>3, <1>k DEF LastFile
  <2>4. QED
    BY <2>2, <2>3
<1>3. FilesSound'
  <2>1. \A s \in Files' : s \in Files /\ visible'[s] = visible[s]
    BY <1>v
  <2>2. \A s \in Files' : visible'[s].whole /\ visible'[s].frame[2] <= spent'.events
    BY <2>1, <1>p, <1>t DEF FilesSound
  <2>3. \A s, t \in Files' : visible'[s].frame = visible'[t].frame => s = t
    BY <2>1, <1>t DEF FilesSound
  <2>4. QED
    BY <2>2, <2>3 DEF FilesSound
<1>4. AckedKept'
  <2>1. ASSUME NEW a \in acked PROVE a[1] \in Files' /\ visible'[a[1]].frame = a[2]
    <3>1. a[1] \in Files /\ a[1] <= k /\ visible[a[1]].frame = a[2]
      BY <1>c, <1>t DEF AckedKept
    <3>2. a[1] # d
      BY <3>1, <1>d, <1>k, <1>t
    <3>3. QED
      BY <3>1, <3>2, <1>v
  <2>2. QED
    BY <2>1, <1>p DEF AckedKept
<1>5. WriterOK(w)'
  <2>1. Queue(w)'
    BY <1>t, <1>p DEF WriterOK, Queue
  <2>2. OnePlace(w)'
    <3>1. \A i \in 1..Len(writer[w].pending) : \A s \in Files : visible[s].frame # writer[w].pending[i]
      BY <1>t, <1>p DEF WriterOK, OnePlace
    <3>2. \A i \in 1..Len(writer[w].pending) : \A s \in Files' : visible'[s].frame # writer[w].pending[i]
      BY <3>1, <1>v
    <3>3. QED
      BY <3>2, <1>p DEF OnePlace
  <2>3. Safely(w)'
    BY <1>t, <1>p DEF WriterOK, Safely, Appending, Active
  <2>4. Cutting(w)'
    BY <1>c, <1>p, <1>k DEF Cutting
  <2>5. QED
    BY <2>1, <2>2, <2>3, <2>4 DEF WriterOK
<1>6. ASSUME NEW x \in Writers, x # w PROVE WriterOK(x)'
  <2>1. WriterOK(x) /\ writer'[x] = writer[x] /\ writer[x].pc = "idle"
    BY <1>6, <1>p, <1>c, OneWriter DEF FileInv
  <2>2. Queue(x)' /\ Safely(x)' /\ Cutting(x)'
    BY <2>1, <1>p DEF WriterOK, Queue, Safely, Cutting, Active, Appending
  <2>3. OnePlace(x)'
    BY <2>1, <1>v DEF WriterOK, OnePlace
  <2>4. QED
    BY <2>2, <2>3 DEF WriterOK
<1>7. QED
  BY <1>1, <1>2, <1>3, <1>4, <1>5, <1>6 DEF FileInv

(* Nothing is left beyond the kept number.                                 *)
LEMMA TruncatedInv == ASSUME FileInv, NEW w \in Active, Truncated(w) PROVE FileInv'
<1> DEFINE r == [writer[w] EXCEPT !.pc = "idle"]
<1>t. FileTypeOK /\ w \in Writers /\ writer[w] \in Writer
  BY FileTypes DEF FileInv
<1>r. r \in Writer /\ r.pc = "idle" /\ r.pending = writer[w].pending
  BY <1>t DEF Writer, Pc
<1>1. writer' = [writer EXCEPT ![w] = r]
  BY <1>t DEF Truncated, FileTypeOK
<1> HIDE DEF r
<1>2. /\ writer' \in [Writers -> Writer] /\ writer'[w] = r
      /\ \A x \in Writers : x # w => writer'[x] = writer[x]
  BY <1>1, <1>r, <1>t, PutWriter
<1>3. UNCHANGED <<store, visible, acked, spent>> /\ writer[w].pc # "returned"
  BY DEF Truncated
<1>4. spent' \in [events : Nat, faults : Nat, truncates : Nat] /\ spent'.events = spent.events
  BY <1>t, <1>3, SameSpent
<1>5. QED
  BY <1>2, <1>3, <1>4, <1>r, QueueStays DEF Appending

(* Reading a page, and any step that leaves the log alone.                 *)
LEMMA LogUnchanged == ASSUME FileInv, UNCHANGED <<store, visible, writer, acked, spent>> PROVE FileInv'
<1>1. Files' = Files /\ Active' = Active
  BY DEF Files, Active
<1>2. FileTypeOK' /\ LastFile' /\ FilesSound' /\ AckedKept'
  BY <1>1 DEF FileInv, FileTypeOK, LastFile, FilesSound, AckedKept
<1>3. ASSUME NEW w \in Writers PROVE WriterOK(w)'
  <2>1. WriterOK(w)
    BY DEF FileInv
  <2>2. QED
    BY <1>1, <2>1 DEF WriterOK, Queue, OnePlace, Safely, Cutting
<1>4. QED
  BY <1>2, <1>3 DEF FileInv

(* Every step of the log keeps the invariant.                              *)
LEMMA FileNextInv == FileInv /\ [FileNext]_fileVars => FileInv'
<1> SUFFICES ASSUME FileInv, [FileNext]_fileVars PROVE FileInv'
  OBVIOUS
<1>1. ASSUME NEW w \in Active,
             \/ ObserveEvent(w) \/ Append1(w) \/ AppendReturns(w) \/ AppendFails(w) \/ WriterDies(w)
             \/ Rollback(w) \/ TruncateAfter(w) \/ DeleteNext(w) \/ Truncated(w)
      PROVE  FileInv'
  <2>1. CASE Append1(w)
    BY <2>1, FlushHeadInv, FlushDoneInv, AttemptInv, PublishInv DEF Append1
  <2>2. QED
    BY <1>1, <2>1, ObserveEventInv, AppendReturnsInv, AppendFailsInv, QueueLostInv, TruncateAfterInv,
       DeleteNextInv, TruncatedInv
<1>2. CASE ReadPage
  BY <1>2, LogUnchanged DEF ReadPage
<1>3. CASE UNCHANGED fileVars
  BY <1>3, LogUnchanged DEF fileVars
<1>4. QED
  BY <1>1, <1>2, <1>3 DEF FileNext

-----------------------------------------------------------------------------
(* The invariant holds: what is waiting, what is in the log and what was   *)
(* acknowledged fit together in every state of both logs (FileBackend,     *)
(* AppendLogStorage and MultiWriterAppendLogStorage, the observe adapter). *)
THEOREM FileInvariant == FileSpec => []FileInv
BY FileInitInv, FileNextInv, PTL DEF FileSpec

(* An append that returned is in the log for good, once and complete, for  *)
(* any number of writers, attempts, events, failures and truncations       *)
(* (FileBackend::put_if_absent, MultiWriterAppendLogStorage::append).      *)
THEOREM AppendsAlwaysKept == FileSpec => []AppendsKept
<1>1. FileInv => AppendsKept
  BY DEF FileInv, FilesSound, AckedKept, AppendsKept, Files
<1>2. QED
  BY <1>1, FileInvariant, PTL

-----------------------------------------------------------------------------
(* A follower of the log.  As long as nothing was truncated, the numbers   *)
(* of the files have no gap, a writer tries no number beyond the first     *)
(* free one, and what it still has to append is newer than what it has     *)
(* appended.                                                               *)
Below(n) == \A t \in Nat : t < n => t \in Files
Gapless == \A s \in Files : Below(s)
Reached(v) == v.pc \in Appending => Below(v.seq)
Behind(w, v) == \A i \in 1..Len(v.pending) : \A s \in Files :
                    visible[s].frame[1] = w => visible[s].frame[2] <= v.pending[i][2]
InOrder == \A s, t \in Files : visible[s].frame[1] = visible[t].frame[1] /\ s < t
                                 => visible[s].frame[2] < visible[t].frame[2]

\* The follower has read the first so many files.
HasRead ==
    /\ follower.after \in Nat /\ follower.read \in Seq(Frame) /\ Len(follower.read) = follower.after
    /\ \A i \in 1..Len(follower.read) : i - 1 \in Files /\ follower.read[i] = visible[i - 1].frame

LogOK == Gapless /\ InOrder /\ HasRead /\ \A w \in Writers : Reached(writer[w]) /\ Behind(w, writer[w])

FollowInv ==
    /\ \A w \in Writers : writer[w].pc = "truncating" => spent.truncates # 0
    /\ spent.truncates = 0 => LogOK

(* Without a gap, the first free number is the number of files.            *)
LEMMA FirstFree ==
  ASSUME FileTypeOK, LastFile, Gapless
  PROVE  /\ NextSeq \in Nat /\ Below(NextSeq) /\ \A s \in Files : s < NextSeq
         /\ \A n \in Nat : Below(n) => n <= NextSeq
         /\ Files = 0..(NextSeq - 1)
  <1>1. NextSeq \in Nat /\ NextSeq \notin Files /\ \A s \in Files : s < NextSeq
    BY NextSeqFree
  <1>2. Below(NextSeq)
    <2>1. CASE Files = {}
      <3>1. NextSeq = 0
        BY <2>1 DEF NextSeq, Files
      <3> QED BY <3>1 DEF Below
    <2>2. CASE Files # {}
      <3>1. \E m \in Files : \A s \in Files : m >= s
        BY <2>2, FileTypes DEF LastFile
      <3>2. Max(Files) \in Files
        BY <3>1 DEF Max
      <3>3. NextSeq = Max(Files) + 1
        BY <2>2 DEF NextSeq, Files
      <3>4. PICK m \in Files : m = Max(Files) /\ m \in Nat
        BY <3>2, FileTypes
      <3>5. \A t \in Nat : t < m + 1 => t = m \/ t < m
        BY <3>4
      <3> QED BY <3>3, <3>4, <3>5 DEF Gapless, Below
    <2> QED BY <2>1, <2>2
  <1>3. \A n \in Nat : Below(n) => n <= NextSeq
    BY <1>1 DEF Below
  <1>4. Files = 0..(NextSeq - 1)
    <2>1. Files \subseteq Nat
      BY FileTypes
    <2>2. \A s \in Files : s \in 0..(NextSeq - 1)
      BY <1>1, <2>1
    <2>3. \A s \in 0..(NextSeq - 1) : s \in Files
      BY <1>1, <1>2 DEF Below
    <2> QED BY <2>2, <2>3
  <1> QED BY <1>1, <1>2, <1>3, <1>4

(* A step of one writer that leaves the files alone.                       *)
LEMMA WriterGoesOn ==
  ASSUME FollowInv, NEW w \in Writers, UNCHANGED <<visible, follower>>,
         spent'.truncates = spent.truncates,
         \A x \in Writers : x # w => writer'[x] = writer[x],
         writer'[w].pc # "truncating",
         spent.truncates = 0 => Reached(writer'[w]) /\ Behind(w, writer'[w])
  PROVE  FollowInv'
  <1>1. Files' = Files /\ \A n : Below(n)' <=> Below(n)
    BY DEF Files, Below
  <1>2. \A x \in Writers : writer'[x].pc = "truncating" => spent'.truncates # 0
    BY DEF FollowInv
  <1>3. ASSUME spent.truncates = 0 PROVE LogOK'
    <2>1. LogOK /\ Reached(writer'[w]) /\ Behind(w, writer'[w])
      BY <1>3 DEF FollowInv
    <2>2. Gapless' /\ InOrder' /\ HasRead'
      BY <1>1, <2>1 DEF LogOK, Gapless, InOrder, HasRead, Below
    <2>3. \A x \in Writers : Reached(writer'[x]) /\ Behind(x, writer'[x])
      BY <2>1 DEF LogOK
    <2>4. \A x \in Writers : Reached(writer[x])' /\ Behind(x, writer[x])'
      BY <1>1, <2>3 DEF Reached, Behind, Below
    <2> QED BY <2>2, <2>4 DEF LogOK
  <1> QED BY <1>2, <1>3 DEF FollowInv

(* The steps that leave the queue of their writer as it is.                *)
LEMMA QueueKept ==
  ASSUME FileInv, FollowInv, NEW w \in Active, NEW r \in Writer, writer' = [writer EXCEPT ![w] = r],
         UNCHANGED <<visible, follower>>, spent'.truncates = spent.truncates,
         r.pc # "truncating", r.pending = writer[w].pending,
         spent.truncates = 0 => Reached(r)
  PROVE  FollowInv'
  <1>1. FileTypeOK /\ w \in Writers
    BY FileTypes DEF FileInv
  <1>2. writer'[w] = r /\ \A x \in Writers : x # w => writer'[x] = writer[x]
    BY <1>1, PutWriter
  <1>3. spent.truncates = 0 => Behind(w, r)
    BY <1>1 DEF FollowInv, LogOK, Behind
  <1> QED BY <1>1, <1>2, <1>3, WriterGoesOn

LEMMA AttemptFollows ==
  ASSUME FileInv, FollowInv, NEW w \in Active,
         \/ FlushHead(w) \/ Refresh(w) \/ WriteTemp(w) \/ SyncTemp(w) \/ Refused(w)
  PROVE  FollowInv'
  <1>1. FileTypeOK /\ LastFile /\ w \in Writers /\ writer[w] \in Writer /\ writer[w].seq \in Nat
        /\ writer[w].attempts \in Nat
    BY FileTypes DEF FileInv
  <1>2. UNCHANGED <<visible, follower, spent>>
    BY DEF FlushHead, Refresh, WriteTemp, SyncTemp, Refused
  <1>3. NextSeq \in Nat
    BY <1>1, NextSeqFree
  <1>4. spent.truncates = 0 => Gapless /\ Below(NextSeq) /\ Reached(writer[w])
    BY <1>1, FirstFree DEF FollowInv, LogOK
  <1>5. SUFFICES \E r \in Writer :
            /\ writer' = [writer EXCEPT ![w] = r] /\ r.pc \in Appending /\ r.pending = writer[w].pending
            /\ spent.truncates = 0 => Below(r.seq)
    <2>1. PICK r \in Writer :
            /\ writer' = [writer EXCEPT ![w] = r] /\ r.pc \in Appending /\ r.pending = writer[w].pending
            /\ spent.truncates = 0 => Below(r.seq)
      BY <1>5
    <2>2. r.pc # "truncating" /\ (spent.truncates = 0 => Reached(r))
      BY <2>1 DEF Appending, Reached
    <2> QED BY <1>2, <2>1, <2>2, QueueKept
  <1>6. CASE FlushHead(w)
    <2> DEFINE r == [writer[w] EXCEPT !.pc = "put", !.seq = NextSeq, !.attempts = 0]
    <2>1. writer' = [writer EXCEPT ![w] = r]
      BY <1>1, <1>6 DEF FlushHead, FileTypeOK
    <2>2. r \in Writer /\ r.pc = "put" /\ r.seq = NextSeq /\ r.pending = writer[w].pending
      BY <1>1, <1>3 DEF Writer, Pc
    <2> HIDE DEF r
    <2> QED BY <1>4, <2>1, <2>2 DEF Appending
  <1>7. CASE Refresh(w)
    <2> DEFINE m == Max({writer[w].seq, NextSeq})
               r == [writer[w] EXCEPT !.seq = m, !.attempts = 0]
    <2>1. m \in {writer[w].seq, NextSeq} /\ writer[w].pc = "put"
      BY <1>1, <1>3, <1>7, MaxOfTwo DEF Refresh
    <2>2. writer' = [writer EXCEPT ![w] = r]
      BY <1>1, <1>7 DEF Refresh, FileTypeOK
    <2> HIDE DEF m
    <2>3. r \in Writer /\ r.pc = "put" /\ r.seq = m /\ r.pending = writer[w].pending
      <3>1. m \in Nat
        BY <1>1, <1>3, <2>1
      <3> QED BY <1>1, <2>1, <3>1 DEF Writer, Pc
    <2>4. spent.truncates = 0 => Below(m)
      BY <1>4, <2>1 DEF Reached, Appending
    <2> HIDE DEF r
    <2> QED BY <2>2, <2>3, <2>4 DEF Appending
  <1>8. CASE WriteTemp(w)
    <2> DEFINE n == writer[w].attempts + 1
               r == [writer[w] EXCEPT !.pc = "writing", !.attempts = n, !.temp = "partial"]
    <2>1. writer' = [writer EXCEPT ![w] = r] /\ writer[w].pc = "put"
      BY <1>1, <1>8 DEF WriteTemp, FileTypeOK
    <2>2. n \in Nat
      BY <1>1
    <2> HIDE DEF n
    <2>3. r \in Writer /\ r.pc = "writing" /\ r.seq = writer[w].seq /\ r.pending = writer[w].pending
      BY <1>1, <2>2 DEF Writer, Pc
    <2> HIDE DEF r
    <2> QED BY <1>4, <2>1, <2>3 DEF Appending, Reached
  <1>9. CASE SyncTemp(w)
    <2> DEFINE r == [writer[w] EXCEPT !.pc = "publish", !.temp = "whole"]
    <2>1. writer' = [writer EXCEPT ![w] = r] /\ writer[w].pc = "writing"
      BY <1>1, <1>9 DEF SyncTemp, FileTypeOK
    <2>2. r \in Writer /\ r.pc = "publish" /\ r.seq = writer[w].seq /\ r.pending = writer[w].pending
      BY <1>1 DEF Writer, Pc
    <2> HIDE DEF r
    <2> QED BY <1>4, <2>1, <2>2 DEF Appending, Reached
  <1>10. CASE Refused(w)
    <2> DEFINE n == writer[w].seq + 1
               r == [writer[w] EXCEPT !.pc = "put", !.seq = n, !.temp = "none"]
    <2>1. writer' = [writer EXCEPT ![w] = r] /\ writer[w].pc = "publish" /\ writer[w].seq \in Files
      BY <1>1, <1>10 DEF Refused, Absent, FileTypeOK, Files
    <2>2. n \in Nat /\ \A t \in Nat : t < n => t = writer[w].seq \/ t < writer[w].seq
      BY <1>1
    <2> HIDE DEF n
    <2>3. r \in Writer /\ r.pc = "put" /\ r.seq = n /\ r.pending = writer[w].pending
      BY <1>1, <2>2 DEF Writer, Pc
    <2>4. spent.truncates = 0 => Below(n)
      <3>1. spent.truncates = 0 => Below(writer[w].seq)
        BY <1>4, <2>1 DEF Reached, Appending
      <3> QED BY <2>1, <2>2, <3>1 DEF Below
    <2> HIDE DEF r
    <2> QED BY <2>1, <2>3, <2>4 DEF Appending
  <1> QED BY <1>6, <1>7, <1>8, <1>9, <1>10

LEMMA EndFollows ==
  ASSUME FileInv, FollowInv, NEW w \in Active,
         \/ FlushDone(w) \/ Truncated(w) \/ AppendFails(w)
  PROVE  FollowInv'
  <1>1. FileTypeOK /\ w \in Writers /\ writer[w] \in Writer
    BY FileTypes DEF FileInv
  <1>2. UNCHANGED <<visible, follower>>
    BY DEF FlushDone, Truncated, AppendFails
  <1>3. spent'.truncates = spent.truncates
    BY <1>1 DEF FlushDone, Truncated, AppendFails, Fault, FileTypeOK
  <1>4. SUFFICES \E r \in Writer :
            writer' = [writer EXCEPT ![w] = r] /\ r.pc = "idle" /\ r.pending = writer[w].pending
    <2>1. PICK r \in Writer :
            writer' = [writer EXCEPT ![w] = r] /\ r.pc = "idle" /\ r.pending = writer[w].pending
      BY <1>4
    <2>2. r.pc # "truncating" /\ Reached(r)
      BY <2>1 DEF Reached, Appending
    <2> QED BY <1>2, <1>3, <2>1, <2>2, QueueKept
  <1>5. CASE FlushDone(w) \/ Truncated(w)
    <2> DEFINE r == [writer[w] EXCEPT !.pc = "idle"]
    <2>1. writer' = [writer EXCEPT ![w] = r]
      BY <1>1, <1>5 DEF FlushDone, Truncated, FileTypeOK
    <2>2. r \in Writer /\ r.pc = "idle" /\ r.pending = writer[w].pending
      BY <1>1 DEF Writer, Pc
    <2> HIDE DEF r
    <2> QED BY <2>1, <2>2
  <1>6. CASE AppendFails(w)
    <2> DEFINE r == [writer[w] EXCEPT !.pc = "idle", !.temp = "none"]
    <2>1. writer' = [writer EXCEPT ![w] = r]
      BY <1>1, <1>6 DEF AppendFails, FileTypeOK
    <2>2. r \in Writer /\ r.pc = "idle" /\ r.pending = writer[w].pending
      BY <1>1 DEF Writer, Pc
    <2> HIDE DEF r
    <2> QED BY <2>1, <2>2
  <1> QED BY <1>5, <1>6

LEMMA LostFollows ==
  ASSUME FileInv, FollowInv, NEW w \in Active, WriterDies(w) \/ Rollback(w)
  PROVE  FollowInv'
  <1>1. FileTypeOK /\ w \in Writers /\ writer[w] \in Writer
    BY FileTypes DEF FileInv
  <1>2. UNCHANGED <<visible, follower>> /\ spent'.truncates = spent.truncates
    BY <1>1 DEF WriterDies, Rollback, Fault, FileTypeOK
  <1>3. /\ \A x \in Writers : x # w => writer'[x] = writer[x]
        /\ writer'[w].pending = <<>> /\ writer'[w].pc = "idle"
    BY <1>1 DEF WriterDies, Rollback, FileTypeOK, Idle, Quiet, Writer
  <1>4. Reached(writer'[w]) /\ Behind(w, writer'[w]) /\ writer'[w].pc # "truncating"
    BY <1>3 DEF Reached, Behind, Appending
  <1> QED BY <1>1, <1>2, <1>3, <1>4, WriterGoesOn

LEMMA ReturnFollows ==
  ASSUME FileInv, FollowInv, NEW w \in Active, AppendReturns(w)
  PROVE  FollowInv'
  <1> DEFINE q == writer[w].pending
             tl == Tail(q)
             r == [writer[w] EXCEPT !.pc = "more", !.pending = tl]
  <1>1. FileTypeOK /\ w \in Writers /\ writer[w] \in Writer /\ q \in Seq(Frame) /\ q # <<>>
    BY FileTypes DEF FileInv, WriterOK, Queue, AppendReturns
  <1>2. UNCHANGED <<visible, follower, spent>> /\ writer' = [writer EXCEPT ![w] = r]
    BY <1>1 DEF AppendReturns, FileTypeOK
  <1>3. Len(tl) = Len(q) - 1 /\ Len(q) \in Nat /\ tl \in Seq(Frame) /\ \A i \in 1..Len(tl) : tl[i] = q[i + 1]
    BY <1>1
  <1> HIDE DEF tl
  <1>4. r.pc = "more" /\ r.pending = tl /\ r \in Writer
    BY <1>1, <1>3 DEF Writer, Pc
  <1> HIDE DEF r
  <1>5. writer'[w] = r /\ \A x \in Writers : x # w => writer'[x] = writer[x]
    BY <1>1, <1>2, <1>4, PutWriter
  <1>6. spent.truncates = 0 => Behind(w, r)
    <2>1. \A i \in 1..Len(tl) : i + 1 \in 1..Len(q)
      BY <1>3
    <2> QED BY <1>1, <1>3, <1>4, <2>1 DEF FollowInv, LogOK, Behind
  <1>7. Reached(r) /\ r.pc # "truncating"
    BY <1>4 DEF Reached, Appending
  <1> QED BY <1>1, <1>2, <1>5, <1>6, <1>7, WriterGoesOn

LEMMA ObserveFollows ==
  ASSUME FileInv, FollowInv, NEW w \in Active, ObserveEvent(w)
  PROVE  FollowInv'
  <1> DEFINE q == writer[w].pending
             f == <<w, spent.events + 1>>
             more == Append(q, f)
             r == [writer[w] EXCEPT !.pending = more]
  <1>1. /\ FileTypeOK /\ w \in Writers /\ writer[w] \in Writer /\ q \in Seq(Frame) /\ spent.events \in Nat
        /\ writer[w].pc = "idle"
    BY FileTypes DEF FileInv, ObserveEvent, Quiet
  <1>2. UNCHANGED <<visible, follower>> /\ spent'.truncates = spent.truncates
    BY <1>1 DEF ObserveEvent, FileTypeOK
  <1>3. writer' = [writer EXCEPT ![w] = r]
    BY <1>1 DEF ObserveEvent, FileTypeOK
  <1>4. f \in Frame /\ f[2] = spent.events + 1
    BY <1>1 DEF Frame
  <1> HIDE DEF f
  <1>5. /\ more \in Seq(Frame) /\ Len(more) = Len(q) + 1 /\ Len(q) \in Nat /\ more[Len(q) + 1] = f
        /\ \A i \in 1..Len(q) : more[i] = q[i]
    BY <1>1, <1>4
  <1> HIDE DEF more
  <1>6. r.pc = "idle" /\ r.pending = more /\ r \in Writer
    BY <1>1, <1>5 DEF Writer, Pc
  <1> HIDE DEF r
  <1>7. writer'[w] = r /\ \A x \in Writers : x # w => writer'[x] = writer[x]
    BY <1>1, <1>3, <1>6, PutWriter
  <1>8. ASSUME spent.truncates = 0 PROVE Behind(w, r)
    <2>1. \A s \in Files : visible[s].frame[2] <= spent.events /\ visible[s].frame[2] \in Nat
      BY <1>1, FileTypes DEF FileInv, FilesSound
    <2>2. \A s \in Files : visible[s].frame[2] <= f[2]
      BY <1>1, <1>4, <2>1
    <2>3. Behind(w, writer[w])
      BY <1>1, <1>8 DEF FollowInv, LogOK
    <2>4. \A i \in 1..Len(more) : i \in 1..Len(q) \/ i = Len(q) + 1
      BY <1>5
    <2> QED BY <1>5, <1>6, <2>2, <2>3, <2>4 DEF Behind
  <1>9. Reached(r) /\ r.pc # "truncating"
    BY <1>6 DEF Reached, Appending
  <1> QED BY <1>1, <1>2, <1>7, <1>8, <1>9, WriterGoesOn

(* A truncation is what the properties of a follower do not cover.         *)
LEMMA CutFollows ==
  ASSUME FileInv, FollowInv, NEW w \in Active, TruncateAfter(w) \/ DeleteNext(w)
  PROVE  FollowInv'
  <1>1. FileTypeOK /\ w \in Writers
    BY FileTypes DEF FileInv
  <1>2. spent'.truncates # 0
    <2>1. CASE TruncateAfter(w)
      <3>1. spent.truncates \in Nat
        BY <1>1 DEF FileTypeOK
      <3>2. spent'.truncates = spent.truncates + 1
        BY <1>1, <2>1 DEF TruncateAfter, FileTypeOK
      <3> QED BY <3>1, <3>2
    <2>2. CASE DeleteNext(w)
      BY <1>1, <2>2 DEF DeleteNext, FollowInv
    <2> QED BY <2>1, <2>2
  <1> QED BY <1>2 DEF FollowInv

(* A file is published at the first free number, after all that its writer *)
(* has published before.                                                   *)
LEMMA PublishFollows ==
  ASSUME FileInv, FollowInv, NEW w \in Active, Publish(w)
  PROVE  FollowInv'
  <1>1. PICK k, q : k = writer[w].seq /\ q = writer[w].pending
    OBVIOUS
  <1>2. /\ writer[w].pc = "publish" /\ UNCHANGED <<follower, spent>>
        /\ q \in Seq(Frame) /\ Len(q) \in Nat /\ 1 \in 1..Len(q) /\ q[1] \in Frame
        /\ k \in Nat /\ k \notin Files
        /\ Files' = Files \cup {k} /\ visible'[k].frame = q[1] /\ \A s \in Files : visible'[s] = visible[s]
        /\ \A x \in Writers : x # w => writer'[x] = writer[x]
        /\ writer'[w].pc = "returned" /\ writer'[w].pending = q
        /\ \A i \in 1..Len(q) : \A s \in Files : visible[s].frame # q[i]
    BY <1>1, PublishIs
  <1>3. FileTypeOK /\ LastFile /\ w \in Writers /\ Queue(w)
    BY FileTypes DEF FileInv, WriterOK
  <1>4. \A x \in Writers : writer'[x].pc = "truncating" => spent'.truncates # 0
    BY <1>2 DEF FollowInv
  <1>5. ASSUME spent.truncates = 0 PROVE LogOK'
    <2>1. /\ Gapless /\ InOrder /\ HasRead /\ Below(k)
          /\ \A x \in Writers : Reached(writer[x]) /\ Behind(x, writer[x])
      BY <1>1, <1>2, <1>3, <1>5 DEF FollowInv, LogOK, Reached, Appending
    <2>2. \A n : Below(n) => Below(n)'
      BY <1>2 DEF Below
    <2>3. Gapless'
      <3>1. \A s \in Files : Below(s)'
        BY <2>1, <2>2 DEF Gapless
      <3>2. Below(k)'
        BY <2>1, <2>2
      <3> QED BY <1>2, <3>1, <3>2 DEF Gapless
    <2>4. \A s \in Files : s < k /\ s \in Nat
      <3>1. Files \subseteq Nat
        BY <1>3, FileTypes
      <3>2. \A s \in Files : ~(k < s)
        BY <1>2, <2>1 DEF Gapless, Below
      <3> QED BY <1>2, <3>1, <3>2
    <2>5. /\ q[1][1] = w /\ q[1][2] \in Nat
          /\ \A s \in Files : visible[s].frame = <<visible[s].frame[1], visible[s].frame[2]>>
                                /\ visible[s].frame[2] \in Nat
          /\ q[1] = <<q[1][1], q[1][2]>>
      BY <1>1, <1>2, <1>3, FileTypes DEF Queue
    <2>6. \A s \in Files : visible[s].frame[1] = w => visible[s].frame[2] < q[1][2]
      <3>1. \A s \in Files : visible[s].frame[1] = w => visible[s].frame[2] <= q[1][2]
        BY <1>1, <1>2, <1>3, <2>1 DEF Behind
      <3>2. \A s \in Files : visible[s].frame # q[1]
        BY <1>2
      <3>3. \A s \in Files : visible[s].frame[1] = w => visible[s].frame[2] # q[1][2]
        BY <2>5, <3>2
      <3> QED BY <2>5, <3>1, <3>3
    <2>7. InOrder'
      <3>1. ASSUME NEW s \in Files', NEW t \in Files', visible'[s].frame[1] = visible'[t].frame[1], s < t
            PROVE  visible'[s].frame[2] < visible'[t].frame[2]
        <4>1. s \in Files
          <5>1. k \in Nat /\ ~(k < k) /\ \A x \in Files : ~(k < x)
            BY <1>2, <2>4
          <5> QED BY <1>2, <3>1, <5>1
        <4>2. CASE t \in Files
          BY <1>2, <2>1, <3>1, <4>1, <4>2 DEF InOrder
        <4>3. CASE t = k
          <5>1. visible'[s].frame = visible[s].frame /\ visible'[t].frame = q[1]
            BY <1>2, <4>1, <4>3
          <5>2. visible[s].frame[1] = w
            BY <2>5, <3>1, <5>1
          <5> QED BY <2>6, <4>1, <5>1, <5>2
        <4> QED BY <1>2, <4>2, <4>3
      <3> QED BY <3>1 DEF InOrder
    <2>8. HasRead'
      BY <1>2, <2>1 DEF HasRead
    <2>9. ASSUME NEW x \in Writers PROVE Reached(writer[x])' /\ Behind(x, writer[x])'
      <3>1. Reached(writer[x])'
        <4>1. CASE x = w
          BY <1>2, <4>1 DEF Reached, Appending
        <4>2. CASE x # w
          BY <1>2, <2>1, <2>2, <4>2 DEF Reached
        <4> QED BY <4>1, <4>2
      <3>2. writer'[x].pending = writer[x].pending
        BY <1>1, <1>2
      <3>3. ASSUME NEW i \in 1..Len(writer[x].pending), NEW s \in Files', visible'[s].frame[1] = x
            PROVE  visible'[s].frame[2] <= writer[x].pending[i][2]
        <4>1. CASE s \in Files
          BY <1>2, <2>1, <3>3, <4>1 DEF Behind
        <4>2. CASE s = k
          <5>1. x = w
            BY <1>2, <2>5, <3>3, <4>2
          <5>2. i \in 1..Len(q) /\ q[i][2] \in Nat
            <6>1. i \in 1..Len(q)
              BY <1>1, <5>1
            <6>2. q[i] \in Frame
              BY <1>2, <6>1
            <6> QED BY <6>1, <6>2, <1>3, FileTypes
          <5>3. i = 1 \/ 1 < i
            BY <1>2, <5>2
          <5>4. 1 < i => q[1][2] < q[i][2]
            BY <1>1, <1>2, <1>3, <5>2 DEF Queue
          <5>5. q[1][2] <= q[i][2]
            BY <2>5, <5>2, <5>3, <5>4
          <5> QED BY <1>1, <1>2, <4>2, <5>1, <5>5
        <4> QED BY <1>2, <4>1, <4>2
      <3> QED BY <3>1, <3>2, <3>3 DEF Behind
    <2> QED BY <2>3, <2>7, <2>8, <2>9 DEF LogOK
  <1> QED BY <1>2, <1>4, <1>5 DEF FollowInv

(* A page holds the files after what was read, and no other.               *)
LEMMA ListedIs ==
  ASSUME FileTypeOK, LastFile, Gapless, follower.after \in Nat, NEW a, a = follower.after,
         NEW n, n = NextSeq, a <= n
  PROVE  Listed = [i \in 1..(n - a) |-> a + i - 1]
  <1> DEFINE after == {s \in Files : s + 1 > a}
  <1>1. n \in Nat /\ a \in Nat /\ Files = 0..(n - 1)
    BY FirstFree
  <1>2. after = a..(n - 1)
    BY <1>1
  <1>3. Listed = [i \in 1..Cardinality(after) |-> CHOOSE s \in after : Cardinality({t \in after : t < s}) = i - 1]
    BY DEF Listed, Files
  <1> HIDE DEF after
  <1>4. Cardinality(after) = n - a
    <2>1. a \in Int /\ n - 1 \in Int
      BY <1>1
    <2>2. Cardinality(a..(n - 1)) = IF a > n - 1 THEN 0 ELSE (n - 1) - a + 1
      BY <2>1, FS_Interval
    <2> QED BY <1>1, <1>2, <2>2
  <1>5. \A s \in after : Cardinality({t \in after : t < s}) = s - a
    <2> TAKE s \in after
    <2>1. s \in Int /\ a \in Int /\ s - 1 \in Int /\ s >= a
      BY <1>1, <1>2
    <2>2. {t \in after : t < s} = a..(s - 1)
      BY <1>1, <1>2, <2>1
    <2>3. Cardinality(a..(s - 1)) = IF a > s - 1 THEN 0 ELSE (s - 1) - a + 1
      BY <2>1, FS_Interval
    <2>4. Cardinality(a..(s - 1)) = s - a
      BY <2>1, <2>3
    <2> QED BY <2>2, <2>4
  <1>6. \A i \in 1..(n - a) : (CHOOSE s \in after : Cardinality({t \in after : t < s}) = i - 1) = a + i - 1
    <2> TAKE i \in 1..(n - a)
    <2>1. a + i - 1 \in after
      BY <1>1, <1>2
    <2>2. \A s \in after : Cardinality({t \in after : t < s}) = i - 1 <=> s = a + i - 1
      BY <1>1, <1>2, <1>5
    <2> QED BY <2>1, <2>2
  <1> QED BY <1>3, <1>4, <1>6

LEMMA ReadFollows ==
  ASSUME FileInv, FollowInv, ReadPage
  PROVE  FollowInv'
  <1>1. UNCHANGED <<visible, writer, spent>> /\ Files' = Files
    BY DEF ReadPage, Files
  <1>2. \A x \in Writers : writer'[x].pc = "truncating" => spent'.truncates # 0
    BY <1>1 DEF FollowInv
  <1>3. ASSUME spent.truncates = 0 PROVE LogOK'
    <2>1. FileTypeOK /\ LastFile /\ LogOK
      BY <1>3 DEF FileInv, FollowInv
    <2>2. PICK a, n, read : a = follower.after /\ n = NextSeq /\ read = follower.read
      OBVIOUS
    <2>3. /\ n \in Nat /\ a \in Nat /\ Files = 0..(n - 1) /\ Gapless
          /\ read \in Seq(Frame) /\ Len(read) = a
          /\ \A i \in 1..a : i - 1 \in Files /\ read[i] = visible[i - 1].frame
      BY <2>1, <2>2, FirstFree DEF LogOK, HasRead
    <2>4. a <= n
      <3>1. a = 0 \/ a \in 1..a
        BY <2>3
      <3>2. CASE a \in 1..a
        <4>1. a - 1 \in 0..(n - 1)
          BY <2>3, <3>2
        <4> QED BY <2>3, <4>1
      <3> QED BY <2>3, <3>1, <3>2
    <2>5. Listed = [i \in 1..(n - a) |-> a + i - 1]
      BY <2>1, <2>2, <2>3, <2>4, ListedIs
    <2> DEFINE m == Min({PageLimit, Len(Listed)})
               page == SubSeq(Listed, 1, m)
               new == [i \in DOMAIN page |-> visible[page[i]].frame]
    <2>6. Listed # <<>> /\ follower' = [after |-> NextAfter(page), read |-> read \o new]
      BY <2>2 DEF ReadPage
    <2>7. PICK L : L = Listed
      OBVIOUS
    <2>8. n - a \in Nat /\ L \in Seq(Nat) /\ Len(L) = n - a /\ \A i \in 1..(n - a) : L[i] = a + i - 1
      BY <2>3, <2>4, <2>5, <2>7
    <2>9. n - a > 0
      BY <2>6, <2>7, <2>8
    <2>10. m \in 1..(n - a)
      <3>1. Len(Listed) \in Nat /\ Len(Listed) = n - a /\ PageLimit \in Nat \ {0}
        BY <2>7, <2>8, FileAssumption
      <3>2. {PageLimit, Len(Listed)} \subseteq Nat /\ {PageLimit, Len(Listed)} # {}
        BY <3>1
      <3>3. m \in {PageLimit, Len(Listed)} /\ \A y \in {PageLimit, Len(Listed)} : m <= y
        BY <3>2, MinOfSet
      <3> HIDE DEF m
      <3> QED BY <2>9, <3>1, <3>3
    <2> HIDE DEF m
    <2>11. page \in Seq(Nat) /\ Len(page) = m /\ DOMAIN page = 1..m /\ \A i \in 1..m : page[i] = a + i - 1
      <3>1. page = SubSeq(L, 1, m)
        BY <2>7
      <3>2. /\ page \in Seq(Nat) /\ Len(page) = m /\ \A i \in 1..m : page[i] = L[i]
        BY <2>8, <2>10, <3>1
      <3>3. \A i \in 1..m : i \in 1..(n - a)
        BY <2>8, <2>10
      <3> HIDE DEF page
      <3> QED BY <2>8, <2>10, <3>2, <3>3
    <2> HIDE DEF page
    <2>12. NextAfter(page) = a + m
      BY <2>3, <2>10, <2>11 DEF NextAfter
    <2>13. \A i \in 1..m : a + i - 1 \in Files
      BY <2>3, <2>4, <2>10
    <2>14. new \in Seq(Frame) /\ Len(new) = m /\ \A i \in 1..m : new[i] = visible[a + i - 1].frame
      <3>1. \A s \in Files : visible[s].frame \in Frame
        BY <2>1, FileTypes
      <3>2. new = [i \in 1..m |-> visible[a + i - 1].frame]
        BY <2>11
      <3>3. new \in [1..m -> Frame]
        BY <2>13, <3>1, <3>2
      <3> QED BY <2>10, <3>2, <3>3
    <2> HIDE DEF new
    <2>15. HasRead'
      <3>1. PICK all : all = read \o new
        OBVIOUS
      <3>2. /\ all \in Seq(Frame) /\ Len(all) = a + m
            /\ \A i \in 1..a : all[i] = read[i]
            /\ \A i \in 1..m : all[a + i] = new[i]
        <4>1. PICK V, u : V = Frame /\ u = new
          OBVIOUS
        <4>2. read \in Seq(V) /\ u \in Seq(V) /\ Len(read) = a /\ Len(u) = m
          BY <2>3, <2>14, <4>1
        <4>3. /\ read \o u \in Seq(V) /\ Len(read \o u) = Len(read) + Len(u)
              /\ \A k \in 1..Len(read) : (read \o u)[k] = read[k]
              /\ \A k \in 1..Len(u) : (read \o u)[Len(read) + k] = u[k]
          BY <4>2
        <4> QED BY <3>1, <4>1, <4>2, <4>3, Zenon
      <3>3. follower'.after = a + m /\ follower'.read = all
        BY <2>6, <2>12, <3>1
      <3>4. ASSUME NEW i \in 1..(a + m) PROVE i - 1 \in Files /\ all[i] = visible[i - 1].frame
        <4>1. CASE i \in 1..a
          BY <2>3, <3>2, <4>1
        <4>2. CASE i - a \in 1..m
          <5>1. PICK j \in 1..m : i = a + j
            BY <2>3, <2>10, <4>2
          <5>2. i - 1 = a + j - 1
            BY <2>3, <2>10, <5>1
          <5>3. i - 1 \in Files /\ new[j] = visible[i - 1].frame
            BY <2>13, <2>14, <5>2
          <5> QED BY <3>2, <5>1, <5>3
        <4> QED BY <2>3, <2>10, <4>1, <4>2
      <3>5. a + m \in Nat
        BY <2>3, <2>10
      <3> QED BY <1>1, <3>2, <3>3, <3>4, <3>5 DEF HasRead
    <2>16. \A k : Below(k)' <=> Below(k)
      BY <1>1 DEF Below
    <2>17. Gapless' /\ InOrder' /\ \A x \in Writers : Reached(writer[x])' /\ Behind(x, writer[x])'
      BY <1>1, <2>1, <2>16 DEF LogOK, Gapless, InOrder, Reached, Behind
    <2> QED BY <2>15, <2>17 DEF LogOK
  <1> QED BY <1>1, <1>2, <1>3 DEF FollowInv

LEMMA FollowInvHolds == FileSpec => []FollowInv
  <1>1. FileInit => FollowInv
    <2> SUFFICES ASSUME FileInit PROVE FollowInv
      OBVIOUS
    <2>1. Files = {} /\ \A w \in Writers : writer[w] = Idle
      BY DEF FileInit, Files
    <2>2. \A w \in Writers : writer[w].pc = "idle" /\ writer[w].pending = <<>>
      BY <2>1 DEF Idle
    <2>3. HasRead
      BY DEF FileInit, HasRead
    <2> QED BY <2>1, <2>2, <2>3 DEF FollowInv, LogOK, Gapless, InOrder, Reached, Behind, Appending
  <1>2. FileInv /\ FollowInv /\ [FileNext]_fileVars => FollowInv'
    <2> SUFFICES ASSUME FileInv, FollowInv, [FileNext]_fileVars PROVE FollowInv'
      OBVIOUS
    <2>1. ASSUME NEW w \in Active,
                 \/ ObserveEvent(w) \/ Append1(w) \/ AppendReturns(w) \/ AppendFails(w) \/ WriterDies(w)
                 \/ Rollback(w) \/ TruncateAfter(w) \/ DeleteNext(w) \/ Truncated(w)
          PROVE  FollowInv'
      <3>1. CASE Append1(w)
        BY <3>1, AttemptFollows, EndFollows, PublishFollows DEF Append1
      <3> QED BY <2>1, <3>1, ObserveFollows, ReturnFollows, EndFollows, LostFollows, CutFollows
    <2>2. CASE ReadPage
      BY <2>2, ReadFollows
    <2>3. CASE UNCHANGED fileVars
      <3>1. UNCHANGED <<visible, writer, spent, follower>> /\ Files' = Files
        BY <2>3 DEF fileVars, Files
      <3>2. \A k : Below(k)' <=> Below(k)
        BY <3>1 DEF Below
      <3> QED BY <3>1, <3>2 DEF FollowInv, LogOK, Gapless, InOrder, HasRead, Reached, Behind
    <2> QED BY <2>1, <2>2, <2>3 DEF FileNext
  <1> QED BY <1>1, <1>2, FileInvariant, PTL DEF FileSpec

(* A follower that resumes each page at next_after reads every entry once, *)
(* in the order of the log, and the events of one writer in the order it   *)
(* observed them: no number is skipped for a later writer to fill in, for  *)
(* any number of writers, failures and deaths and any size of page, as     *)
(* long as nothing is truncated (read_append_log_page,                     *)
(* MultiWriterAppendLogStorage::append, the adapter's retry of its queue). *)
THEOREM FollowerMissesNothing == FileSpec => []FollowerComplete
  <1>1. FileInv /\ FollowInv => FollowerComplete
    <2> SUFFICES ASSUME FileInv, FollowInv, spent.truncates = 0
                 PROVE  /\ \A i \in DOMAIN follower.read : i - 1 \in Files /\ follower.read[i] = visible[i - 1].frame
                        /\ InOrder
      BY DEF FollowerComplete, Files, InOrder
    <2>1. InOrder /\ HasRead
      BY DEF FollowInv, LogOK
    <2>2. DOMAIN follower.read = 1..Len(follower.read)
      BY <2>1 DEF HasRead
    <2> QED BY <2>1, <2>2 DEF HasRead
  <1> QED BY <1>1, FileInvariant, FollowInvHolds, PTL

-----------------------------------------------------------------------------
(* The cascading cache.                                                    *)

(* A tier whose versions are below the next one to be given.               *)
TierOK(m) ==
    /\ m = [entries |-> m.entries, tombs |-> m.tombs, epoch |-> m.epoch, next |-> m.next]
    /\ m.epoch \in Nat /\ m.next \in Nat \ {0}
    /\ \A k \in DOMAIN m.entries : m.entries[k].version \in Nat /\ m.entries[k].version < m.next
    /\ \A k \in DOMAIN m.tombs : m.tombs[k] \in Nat /\ m.tombs[k] < m.next

LEMMA VersionBelow ==
  ASSUME NEW m, TierOK(m), NEW k
  PROVE  CurrentVersion(m, k) \in Nat /\ CurrentVersion(m, k) < m.next
  BY DEF TierOK, CurrentVersion

LEMMA SetTier ==
  ASSUME NEW m, TierOK(m), NEW k, NEW v
  PROVE  /\ TierOK(KvSet(m, k, v)) /\ KvSet(m, k, v).epoch = m.epoch
         /\ CurrentVersion(KvSet(m, k, v), k) = m.next
         /\ \A j : j # k => CurrentVersion(KvSet(m, k, v), j) = CurrentVersion(m, j)
  <1> DEFINE e == Written(m.entries, k, [value |-> v, version |-> m.next])
             d == Restrict(m.tombs, DOMAIN m.tombs \ {k})
             n == m.next + 1
             r == [entries |-> e, tombs |-> d, epoch |-> m.epoch, next |-> n]
  <1>1. KvSet(m, k, v) = r
    <2>1. m = [entries |-> m.entries, tombs |-> m.tombs, epoch |-> m.epoch, next |-> m.next]
      BY DEF TierOK
    <2> HIDE DEF e, d, n
    <2>2. KvSet(m, k, v) = [m EXCEPT !.entries = e, !.tombs = d, !.next = n]
      BY DEF KvSet, e, d, n
    <2> QED BY <2>1, <2>2
  <1>2. /\ DOMAIN e = {k} \cup DOMAIN m.entries
        /\ e[k] = [value |-> v, version |-> m.next]
        /\ \A j \in DOMAIN m.entries : j # k => e[j] = m.entries[j]
    BY DEF Written
  <1>3. DOMAIN d = DOMAIN m.tombs \ {k} /\ \A j \in DOMAIN d : d[j] = m.tombs[j]
    BY DEF Restrict
  <1> HIDE DEF e, d, n
  <1>4. r.entries = e /\ r.tombs = d /\ r.epoch = m.epoch /\ r.next = n
    OBVIOUS
  <1>5. m.epoch \in Nat /\ m.next \in Nat /\ n = m.next + 1
    BY DEF TierOK, n
  <1>6. TierOK(r)
    <2>1. \A j \in DOMAIN e : e[j].version \in Nat /\ e[j].version < n
      BY <1>2, <1>5 DEF TierOK
    <2>2. \A j \in DOMAIN d : d[j] \in Nat /\ d[j] < n
      BY <1>3, <1>5 DEF TierOK
    <2>3. n \in Nat \ {0}
      BY <1>5
    <2> QED BY <1>4, <1>5, <2>1, <2>2, <2>3 DEF TierOK
  <1>7. CurrentVersion(r, k) = m.next
    BY <1>2, <1>4 DEF CurrentVersion
  <1>8. \A j : j # k => CurrentVersion(r, j) = CurrentVersion(m, j)
    BY <1>2, <1>3, <1>4 DEF CurrentVersion
  <1> QED BY <1>1, <1>4, <1>6, <1>7, <1>8

LEMMA DeleteTier ==
  ASSUME NEW m, TierOK(m), NEW k, k \in DOMAIN m.entries
  PROVE  /\ TierOK(KvDelete(m, k)) /\ KvDelete(m, k).epoch = m.epoch
         /\ CurrentVersion(KvDelete(m, k), k) = m.next
         /\ \A j : j # k => CurrentVersion(KvDelete(m, k), j) = CurrentVersion(m, j)
  <1> DEFINE e == Restrict(m.entries, DOMAIN m.entries \ {k})
             d == Written(m.tombs, k, m.next)
             n == m.next + 1
             r == [entries |-> e, tombs |-> d, epoch |-> m.epoch, next |-> n]
  <1>1. KvDelete(m, k) = r
    <2>1. m = [entries |-> m.entries, tombs |-> m.tombs, epoch |-> m.epoch, next |-> m.next]
      BY DEF TierOK
    <2> HIDE DEF e, d, n
    <2>2. KvDelete(m, k) = [m EXCEPT !.entries = e, !.tombs = d, !.next = n]
      BY DEF KvDelete, e, d, n
    <2> QED BY <2>1, <2>2
  <1>2. /\ DOMAIN d = {k} \cup DOMAIN m.tombs /\ d[k] = m.next
        /\ \A j \in DOMAIN m.tombs : j # k => d[j] = m.tombs[j]
    BY DEF Written
  <1>3. DOMAIN e = DOMAIN m.entries \ {k} /\ \A j \in DOMAIN e : e[j] = m.entries[j]
    BY DEF Restrict
  <1> HIDE DEF e, d, n
  <1>4. r.entries = e /\ r.tombs = d /\ r.epoch = m.epoch /\ r.next = n
    OBVIOUS
  <1>5. m.epoch \in Nat /\ m.next \in Nat /\ n = m.next + 1
    BY DEF TierOK, n
  <1>6. TierOK(r)
    <2>1. \A j \in DOMAIN e : e[j].version \in Nat /\ e[j].version < n
      BY <1>3, <1>5 DEF TierOK
    <2>2. \A j \in DOMAIN d : d[j] \in Nat /\ d[j] < n
      BY <1>2, <1>5 DEF TierOK
    <2>3. n \in Nat \ {0}
      BY <1>5
    <2> QED BY <1>4, <1>5, <2>1, <2>2, <2>3 DEF TierOK
  <1>7. CurrentVersion(r, k) = m.next
    BY <1>2, <1>3, <1>4 DEF CurrentVersion
  <1>8. \A j : j # k => CurrentVersion(r, j) = CurrentVersion(m, j)
    BY <1>2, <1>3, <1>4 DEF CurrentVersion
  <1> QED BY <1>1, <1>4, <1>6, <1>7, <1>8

LEMMA ClearTier ==
  ASSUME NEW m, TierOK(m)
  PROVE  TierOK(KvClear(m)) /\ KvClear(m).epoch = m.epoch + 1
  <1>1. KvClear(m) = [entries |-> [k \in {} |-> Nothing], tombs |-> [k \in {} |-> 0],
                      epoch |-> m.epoch + 1, next |-> 1]
    BY DEF KvClear, EmptyTier
  <1> QED BY <1>1 DEF TierOK

-----------------------------------------------------------------------------
(* Generations in the order they come: clear() starts the versions again,  *)
(* but in a later epoch.                                                   *)
Older(g, h) == g.epoch < h.epoch \/ (g.epoch = h.epoch /\ g.version < h.version)
NotNewer(g, h) == g.epoch < h.epoch \/ (g.epoch = h.epoch /\ g.version <= h.version)
IsGeneration(g) == g.epoch \in Nat /\ g.version \in Nat

LEMMA OlderIsOther ==
  ASSUME NEW g, IsGeneration(g), NEW h, Older(g, h)
  PROVE  g # h
  BY DEF IsGeneration, Older

LEMMA OlderThan ==
  ASSUME NEW g, IsGeneration(g), NEW h, IsGeneration(h), NEW i, IsGeneration(i)
  PROVE  /\ Older(g, h) /\ NotNewer(h, i) => Older(g, i)
         /\ NotNewer(g, h) /\ Older(h, i) => Older(g, i)
         /\ NotNewer(g, h) /\ NotNewer(h, i) => NotNewer(g, i)
         /\ NotNewer(g, g)
         /\ Older(g, h) => NotNewer(g, h)
  BY DEF IsGeneration, Older, NotNewer

LEMMA GenerationOK ==
  ASSUME NEW m, TierOK(m), NEW k
  PROVE  IsGeneration(Generation(m, k))
  <1>1. Generation(m, k).epoch = m.epoch /\ Generation(m, k).version = CurrentVersion(m, k)
    BY DEF Generation
  <1> QED BY <1>1, VersionBelow DEF TierOK, IsGeneration

\* A change of a tier never makes a generation older, and makes that of the
\* key it is about newer.
Advances(m, n) == TierOK(n) /\ \A j : NotNewer(Generation(m, j), Generation(n, j))

LEMMA ByVersion ==
  ASSUME NEW m, TierOK(m), NEW n, TierOK(n), n.epoch = m.epoch, NEW k, CurrentVersion(n, k) = m.next,
         \A j : j # k => CurrentVersion(n, j) = CurrentVersion(m, j)
  PROVE  Advances(m, n) /\ Older(Generation(m, k), Generation(n, k))
  <1>1. \A j : /\ Generation(m, j).epoch = m.epoch /\ Generation(m, j).version = CurrentVersion(m, j)
               /\ Generation(n, j).epoch = m.epoch /\ Generation(n, j).version = CurrentVersion(n, j)
    BY DEF Generation
  <1>2. \A j : CurrentVersion(m, j) \in Nat /\ CurrentVersion(m, j) < m.next
    BY VersionBelow
  <1>3. m.epoch \in Nat /\ m.next \in Nat
    BY DEF TierOK
  <1>4. Older(Generation(m, k), Generation(n, k))
    BY <1>1, <1>2, <1>3 DEF Older
  <1>5. \A j : NotNewer(Generation(m, j), Generation(n, j))
    <2> TAKE j
    <2>1. CASE j = k
      BY <1>1, <1>2, <1>3, <2>1 DEF NotNewer
    <2>2. CASE j # k
      BY <1>1, <1>2, <1>3, <2>2 DEF NotNewer
    <2> QED BY <2>1, <2>2
  <1> QED BY <1>4, <1>5 DEF Advances

LEMMA SetAdvances ==
  ASSUME NEW m, TierOK(m), NEW k, NEW v
  PROVE  Advances(m, KvSet(m, k, v)) /\ Older(Generation(m, k), Generation(KvSet(m, k, v), k))
  <1>1. PICK n : n = KvSet(m, k, v)
    OBVIOUS
  <1>2. /\ TierOK(n) /\ n.epoch = m.epoch /\ CurrentVersion(n, k) = m.next
        /\ \A j : j # k => CurrentVersion(n, j) = CurrentVersion(m, j)
    BY <1>1, SetTier
  <1>3. Advances(m, n) /\ Older(Generation(m, k), Generation(n, k))
    BY <1>2, ByVersion
  <1> QED BY <1>1, <1>3

LEMMA DeleteAdvances ==
  ASSUME NEW m, TierOK(m), NEW k
  PROVE  /\ Advances(m, KvDelete(m, k))
         /\ KvDelete(m, k) # m => Older(Generation(m, k), Generation(KvDelete(m, k), k))
  <1>1. CASE k \in DOMAIN m.entries
    <2>1. PICK n : n = KvDelete(m, k)
      OBVIOUS
    <2>2. /\ TierOK(n) /\ n.epoch = m.epoch /\ CurrentVersion(n, k) = m.next
          /\ \A j : j # k => CurrentVersion(n, j) = CurrentVersion(m, j)
      BY <1>1, <2>1, DeleteTier
    <2>3. Advances(m, n) /\ Older(Generation(m, k), Generation(n, k))
      BY <2>2, ByVersion
    <2> QED BY <2>1, <2>3
  <1>2. CASE k \notin DOMAIN m.entries
    <2>1. KvDelete(m, k) = m
      BY <1>2 DEF KvDelete
    <2>2. \A j : NotNewer(Generation(m, j), Generation(m, j))
      BY GenerationOK, OlderThan
    <2> QED BY <2>1, <2>2 DEF Advances
  <1> QED BY <1>1, <1>2

LEMMA ClearAdvances ==
  ASSUME NEW m, TierOK(m), NEW k
  PROVE  Advances(m, KvClear(m)) /\ Older(Generation(m, k), Generation(KvClear(m), k))
  <1>1. TierOK(KvClear(m)) /\ KvClear(m).epoch = m.epoch + 1 /\ m.epoch \in Nat
    BY ClearTier DEF TierOK
  <1>2. \A j : Generation(m, j).epoch = m.epoch /\ Generation(KvClear(m), j).epoch = m.epoch + 1
    BY <1>1 DEF Generation
  <1>3. \A j : Older(Generation(m, j), Generation(KvClear(m), j))
    BY <1>1, <1>2 DEF Older
  <1>4. \A j : NotNewer(Generation(m, j), Generation(KvClear(m), j))
    BY <1>1, <1>2 DEF NotNewer
  <1> QED BY <1>1, <1>3, <1>4 DEF Advances

-----------------------------------------------------------------------------
(* The lookup under way.                                                   *)
IsLookup(l) ==
    l = [pc |-> l.pc, key |-> l.key, seq |-> l.seq, tier |-> l.tier, failed |-> l.failed,
         found |-> l.found, from |-> l.from, seen |-> l.seen, targets |-> l.targets]

\* What it saw of a tier is no newer than the tier, and older where someone
\* else has written since; a tier it has not come to yet it has not seen.
SeenAt(l, m, t, tc) ==
    /\ l.seen[t] # NoGeneration => /\ IsGeneration(l.seen[t])
                                   /\ NotNewer(l.seen[t], Generation(m, l.key))
    /\ t \in tc => l.seen[t] # NoGeneration /\ Older(l.seen[t], Generation(m, l.key))

NotYet(l) == l.pc = "look" => l.tier \in Nat /\ \A t \in Tiers : l.seen[t] # NoGeneration => t < l.tier

SeenOK(l, ts, tc) ==
    l.pc # "idle" => /\ IsLookup(l) /\ l.seen = [t \in Tiers |-> l.seen[t]]
                     /\ \A t \in Tiers : SeenAt(l, ts[t], t, tc)
                     /\ NotYet(l)

TiersOK(ts) == DOMAIN ts = Tiers /\ \A t \in Tiers : TierOK(ts[t])

\* The status and the value node have seen the last lookup, and agree.
Numbered(l) ==
    /\ status = [kind |-> status.kind, key |-> status.key, seq |-> status.seq]
    /\ value = [seq |-> value.seq, shown |-> value.shown]
    /\ status.seq = driver.seq /\ value.seq = driver.seq /\ status.key = driver.latest
    /\ l.pc # "idle" => l.seq = driver.seq
    /\ l.pc = "idle" => status.kind # "loading" /\ (status.kind = "hit" <=> value.shown # Nothing)

CacheInv == TiersOK(tiers) /\ SeenOK(lookup, tiers, touched) /\ Numbered(lookup) /\ ~overwrote

(* The parts of a lookup that a step of it keeps.                          *)
Keeps(l, n) == IsLookup(n) /\ n.key = l.key /\ n.seq = l.seq /\ n.seen = l.seen

LEMMA FoundKeeps ==
  ASSUME NEW l, IsLookup(l), NEW v, NEW from
  PROVE  Keeps(l, Found(l, v, from)) /\ Found(l, v, from).pc = "promote"
  <1> DEFINE f == <<v>>
             g == Targets(from)
             r == [pc |-> "promote", key |-> l.key, seq |-> l.seq, tier |-> l.tier, failed |-> l.failed,
                   found |-> f, from |-> from, seen |-> l.seen, targets |-> g]
  <1>1. Found(l, v, from) = [l EXCEPT !.pc = "promote", !.found = f, !.from = from, !.targets = g]
    BY DEF Found
  <1> HIDE DEF f, g
  <1>2. Found(l, v, from) = r
    BY <1>1 DEF IsLookup
  <1>3. Keeps(l, r) /\ r.pc = "promote"
    BY DEF IsLookup, Keeps
  <1> HIDE DEF r
  <1> QED BY <1>2, <1>3

LEMMA PastKeeps ==
  ASSUME NEW l, IsLookup(l), l.pc = "look", l.tier \in Nat
  PROVE  /\ Keeps(l, Past(l)) /\ Past(l).pc \in {"look", "load"}
         /\ Past(l).pc = "look" => Past(l).tier = l.tier + 1
  BY DEF IsLookup, Past, Keeps

LEMMA ObservedIs ==
  ASSUME NEW l, IsLookup(l), l.seen = [t \in Tiers |-> l.seen[t]], NEW t \in Tiers
  PROVE  /\ IsLookup(Observed(l, t)) /\ Observed(l, t).key = l.key /\ Observed(l, t).seq = l.seq
         /\ Observed(l, t).pc = l.pc /\ Observed(l, t).tier = l.tier
         /\ Observed(l, t).seen = [u \in Tiers |-> Observed(l, t).seen[u]]
         /\ \A u \in Tiers : u # t => Observed(l, t).seen[u] = l.seen[u]
         /\ Observed(l, t).seen[t] \in {l.seen[t], Generation(tiers[t], l.key)}
  <1>1. CASE t \notin Versioned
    BY <1>1 DEF Observed
  <1>2. CASE t \in Versioned
    <2> DEFINE s == [l.seen EXCEPT ![t] = Generation(tiers[t], l.key)]
               r == [pc |-> l.pc, key |-> l.key, seq |-> l.seq, tier |-> l.tier, failed |-> l.failed,
                     found |-> l.found, from |-> l.from, seen |-> s, targets |-> l.targets]
    <2>1. /\ s = [u \in Tiers |-> s[u]] /\ \A u \in Tiers : u # t => s[u] = l.seen[u]
          /\ s[t] = Generation(tiers[t], l.key)
      OBVIOUS
    <2> HIDE DEF s
    <2>2. Observed(l, t) = r
      <3>1. Observed(l, t) = [l EXCEPT !.seen = s]
        BY <1>2 DEF Observed, s
      <3> QED BY <3>1 DEF IsLookup
    <2>3. r.seen = s /\ IsLookup(r) /\ r.key = l.key /\ r.seq = l.seq /\ r.pc = l.pc /\ r.tier = l.tier
      BY DEF IsLookup
    <2> HIDE DEF r
    <2> QED BY <2>1, <2>2, <2>3
  <1> QED BY <1>1, <1>2

(* A step that keeps what the lookup has seen, past the reading of tiers.  *)
LEMMA KeepsSeen ==
  ASSUME NEW l, NEW n, NEW ts, NEW tc, l.pc # "idle", SeenOK(l, ts, tc), Keeps(l, n), NotYet(n)
  PROVE  SeenOK(n, ts, tc)
  BY DEF SeenOK, Keeps, SeenAt

(* The tiers go on.                                                        *)
LEMMA TiersGoOn ==
  ASSUME NEW l, NEW ts, NEW us, NEW tc, NEW td, TiersOK(ts), SeenOK(l, ts, tc),
         \A t \in Tiers : Advances(ts[t], us[t]),
         \A t \in Tiers : t \in td => t \in tc \/ (l.seen[t] # NoGeneration
                                 /\ Older(Generation(ts[t], l.key), Generation(us[t], l.key)))
  PROVE  SeenOK(l, us, td)
  <1> SUFFICES ASSUME l.pc # "idle"
               PROVE  SeenOK(l, us, td)
    BY DEF SeenOK
  <1>1. ASSUME NEW t \in Tiers
        PROVE  SeenAt(l, us[t], t, td)
    <2> DEFINE g == Generation(ts[t], l.key)
               h == Generation(us[t], l.key)
    <2>1. IsGeneration(g) /\ IsGeneration(h) /\ NotNewer(g, h)
      BY GenerationOK DEF TiersOK, Advances
    <2>2. SeenAt(l, ts[t], t, tc)
      BY DEF SeenOK
    <2>3. ASSUME l.seen[t] # NoGeneration
          PROVE  IsGeneration(l.seen[t]) /\ NotNewer(l.seen[t], g) /\ NotNewer(l.seen[t], h)
      <3>1. IsGeneration(l.seen[t]) /\ NotNewer(l.seen[t], g)
        BY <2>2, <2>3 DEF SeenAt
      <3> HIDE DEF g, h
      <3> QED BY <2>1, <3>1, OlderThan
    <2>4. ASSUME t \in td
          PROVE  l.seen[t] # NoGeneration /\ Older(l.seen[t], h)
      <3>1. CASE t \in tc
        <4>1. l.seen[t] # NoGeneration /\ Older(l.seen[t], g)
          BY <2>2, <3>1 DEF SeenAt
        <4> HIDE DEF g, h
        <4> QED BY <2>1, <2>3, <4>1, OlderThan
      <3>2. CASE l.seen[t] # NoGeneration /\ Older(g, h)
        <4> HIDE DEF g, h
        <4> QED BY <2>1, <2>3, <3>2, OlderThan
      <3> QED BY <2>4, <3>1, <3>2
    <2> QED BY <2>3, <2>4 DEF SeenAt
  <1> QED BY <1>1 DEF SeenOK

-----------------------------------------------------------------------------
(* The steps.                                                              *)
LEMMA StartKeeps ==
  ASSUME CacheInv, StartLookup
  PROVE  CacheInv'
  <1> DEFINE key == todo[1].key
             seq == driver.seq + 1
             cause == todo[1].cause
             far == Cardinality(Tiers) + 1
             seen == [t \in Tiers |-> NoGeneration]
             l == [pc |-> "look", key |-> key, seq |-> seq, tier |-> 1, failed |-> FALSE,
                   found |-> Nothing, from |-> far, seen |-> seen, targets |-> <<>>]
  <1>1. /\ driver' = [seq |-> seq, latest |-> <<key>>] /\ lookup' = l
        /\ status' = [kind |-> "loading", key |-> <<key>>, seq |-> seq]
        /\ value' = SeenByValue(value, cause, seq)
        /\ touched' = {} /\ tiers' = tiers /\ overwrote' = overwrote
    BY DEF StartLookup
  <1> HIDE DEF seq, key, cause, far
  <1>2. l.seen = seen /\ l.pc = "look" /\ l.tier = 1 /\ l.seq = seq /\ IsLookup(l)
    BY DEF IsLookup
  <1>3. \A t \in Tiers : seen[t] = NoGeneration
    OBVIOUS
  <1> HIDE DEF seen, l
  <1>4. SeenOK(l, tiers, {})
    <2>1. l.seen = [t \in Tiers |-> l.seen[t]]
      BY <1>2 DEF seen
    <2> QED BY <1>2, <1>3, <2>1 DEF SeenOK, SeenAt, NotYet
  <1>5. value'.seq = seq /\ value' = [seq |-> value'.seq, shown |-> value'.shown]
    <2>1. value = [seq |-> value.seq, shown |-> value.shown]
      BY DEF CacheInv, Numbered
    <2> QED BY <1>1, <2>1 DEF SeenByValue
  <1>6. Numbered(lookup)'
    BY <1>1, <1>2, <1>5 DEF Numbered
  <1> QED BY <1>1, <1>4, <1>6 DEF CacheInv

(* A step of the lookup that reads: the nodes do not see it.               *)
LEMMA ReadKeeps ==
  ASSUME CacheInv, lookup.pc # "idle", lookup'.pc # "idle", lookup'.seq = lookup.seq,
         SeenOK(lookup', tiers, touched),
         UNCHANGED <<tiers, driver, status, value, overwrote, touched>>
  PROVE  CacheInv'
  <1>1. Numbered(lookup)'
    BY DEF CacheInv, Numbered
  <1> QED BY <1>1 DEF CacheInv

LEMMA LookKeeps ==
  ASSUME CacheInv, LookTier
  PROVE  CacheInv'
  <1> DEFINE t == lookup.tier
  <1>1. /\ lookup.pc = "look" /\ SeenOK(lookup, tiers, touched) /\ TiersOK(tiers)
        /\ UNCHANGED <<tiers, driver, status, value, overwrote, touched>>
    BY DEF CacheInv, LookTier
  <1>2. /\ IsLookup(lookup) /\ lookup.seen = [u \in Tiers |-> lookup.seen[u]]
        /\ \A u \in Tiers : SeenAt(lookup, tiers[u], u, touched)
        /\ t \in Nat /\ \A u \in Tiers : lookup.seen[u] # NoGeneration => u < t
    BY <1>1 DEF SeenOK, NotYet
  <1>3. PICK o : o = Observed(lookup, t)
    OBVIOUS
  <1>4. /\ IsLookup(o) /\ o.key = lookup.key /\ o.seq = lookup.seq /\ o.pc = "look" /\ o.tier = t
        /\ o.seen = [u \in Tiers |-> o.seen[u]]
        /\ \A u \in Tiers : u # t => o.seen[u] = lookup.seen[u]
        /\ \A u \in Tiers : SeenAt(o, tiers[u], u, touched)
    <2>1. CASE t \notin Versioned
      <3>1. o = lookup
        BY <1>3, <2>1 DEF Observed
      <3> QED BY <1>1, <1>2, <3>1
    <2>2. CASE t \in Versioned
      <3>1. t \in Tiers
        BY <2>2, CacheAssumption
      <3>2. /\ IsLookup(o) /\ o.key = lookup.key /\ o.seq = lookup.seq /\ o.pc = lookup.pc
            /\ o.tier = t /\ o.seen = [u \in Tiers |-> o.seen[u]]
            /\ \A u \in Tiers : u # t => o.seen[u] = lookup.seen[u]
            /\ o.seen[t] \in {lookup.seen[t], Generation(tiers[t], lookup.key)}
        BY <1>2, <1>3, <3>1, ObservedIs
      <3>3. lookup.seen[t] = NoGeneration /\ t \notin touched
        BY <1>2, <3>1 DEF SeenAt
      <3>4. SeenAt(o, tiers[t], t, touched)
        <4>1. IsGeneration(Generation(tiers[t], lookup.key))
          BY <1>1, <3>1, GenerationOK DEF TiersOK
        <4>2. NotNewer(Generation(tiers[t], lookup.key), Generation(tiers[t], lookup.key))
          BY <4>1, OlderThan
        <4> QED BY <3>2, <3>3, <4>1, <4>2 DEF SeenAt
      <3>5. \A u \in Tiers : u # t => SeenAt(o, tiers[u], u, touched)
        BY <1>2, <3>2 DEF SeenAt
      <3> QED BY <1>1, <3>2, <3>4, <3>5
    <2> QED BY <2>1, <2>2
  <1>5. /\ \A u \in Tiers : u \in Nat
        /\ \A u \in Tiers : o.seen[u] # NoGeneration => u < t + 1
    <2>1. \A u \in Tiers : u \in Nat
      BY CacheAssumption
    <2> QED BY <1>2, <1>4, <2>1
  <1>7. CASE \E v : lookup' = Found(o, v, t)
    <2>1. PICK v : lookup' = Found(o, v, t)
      BY <1>7
    <2>2. Keeps(o, lookup') /\ lookup'.pc = "promote"
      BY <1>4, <2>1, FoundKeeps
    <2>3. SeenOK(lookup', tiers, touched)
      BY <1>4, <2>2 DEF SeenOK, Keeps, SeenAt, NotYet
    <2> QED BY <1>1, <1>4, <2>2, <2>3, ReadKeeps DEF Keeps
  <1>8. CASE lookup' = Past(o)
    <2>1. /\ Keeps(o, lookup') /\ lookup'.pc \in {"look", "load"}
          /\ lookup'.pc = "look" => lookup'.tier = t + 1
      BY <1>2, <1>4, <1>8, PastKeeps
    <2>2. NotYet(lookup')
      BY <1>2, <1>5, <2>1 DEF NotYet, Keeps
    <2>3. SeenOK(lookup', tiers, touched)
      BY <1>4, <2>1, <2>2 DEF SeenOK, Keeps, SeenAt
    <2> QED BY <1>1, <1>4, <2>1, <2>3, ReadKeeps DEF Keeps
  <1>9. CASE lookup' = Past([lookup EXCEPT !.failed = TRUE])
    <2>1. PICK f : f = [lookup EXCEPT !.failed = TRUE]
      OBVIOUS
    <2>2. Keeps(lookup, f) /\ f.pc = "look" /\ f.tier = t
      BY <1>1, <1>2, <2>1 DEF IsLookup, Keeps
    <2>3. /\ Keeps(f, lookup') /\ lookup'.pc \in {"look", "load"}
          /\ lookup'.pc = "look" => lookup'.tier = t + 1
      BY <1>2, <1>9, <2>1, <2>2, PastKeeps DEF Keeps
    <2>4. Keeps(lookup, lookup')
      BY <2>2, <2>3 DEF Keeps
    <2>5. NotYet(lookup')
      <3>1. \A u \in Tiers : lookup.seen[u] # NoGeneration => u < t + 1
        BY <1>2, <1>5
      <3> QED BY <1>2, <2>3, <2>4, <3>1 DEF NotYet, Keeps
    <2>6. SeenOK(lookup', tiers, touched)
      BY <1>1, <2>4, <2>5, KeepsSeen
    <2> QED BY <1>1, <2>3, <2>4, <2>6, ReadKeeps DEF Keeps
  <1> QED BY <1>3, <1>7, <1>8, <1>9 DEF LookTier

LEMMA LoadKeeps ==
  ASSUME CacheInv, Load1
  PROVE  CacheInv'
  <1>1. /\ lookup.pc = "load" /\ SeenOK(lookup, tiers, touched) /\ IsLookup(lookup)
        /\ UNCHANGED <<tiers, driver, status, value, overwrote, touched>>
    BY DEF CacheInv, Load1, SeenOK
  <1>2. Keeps(lookup, lookup') /\ lookup'.pc \in {"promote", "fill"}
    <2>1. CASE \E v \in CacheValues : lookup' = Found(lookup, v, Cardinality(Tiers) + 1)
      BY <1>1, <2>1, FoundKeeps
    <2>2. CASE lookup' = [lookup EXCEPT !.pc = "fill"]
      BY <1>1, <2>2 DEF IsLookup, Keeps
    <2>3. CASE lookup' = [lookup EXCEPT !.pc = "fill", !.failed = TRUE]
      BY <1>1, <2>3 DEF IsLookup, Keeps
    <2> QED BY <2>1, <2>2, <2>3 DEF Load1
  <1>3. SeenOK(lookup', tiers, touched)
    BY <1>1, <1>2, KeepsSeen DEF NotYet
  <1> QED BY <1>1, <1>2, <1>3, ReadKeeps DEF Keeps

(* A promotion that is made has not been overtaken.                        *)
LEMMA PromoteKeeps ==
  ASSUME CacheInv, PromoteNext
  PROVE  CacheInv'
  <1> DEFINE t == lookup.targets[1]
             w == KvSet(tiers[t], lookup.key, lookup.found[1])
             rest == Tail(lookup.targets)
  <1>1. /\ lookup.pc = "promote" /\ SeenOK(lookup, tiers, touched) /\ IsLookup(lookup)
        /\ TiersOK(tiers) /\ ~overwrote /\ lookup' = [lookup EXCEPT !.targets = rest]
        /\ UNCHANGED <<driver, status, value, touched>>
    BY DEF CacheInv, PromoteNext, SeenOK
  <1>2. Keeps(lookup, lookup') /\ lookup'.pc = "promote"
    <2> HIDE DEF rest
    <2> QED BY <1>1 DEF IsLookup, Keeps
  <1>3. \/ MayPromote(t) /\ tiers' = [tiers EXCEPT ![t] = w]
             /\ overwrote' = (overwrote \/ (t \in Versioned /\ t \in touched))
        \/ UNCHANGED <<tiers, overwrote>>
    BY DEF PromoteNext
  <1>4. /\ TiersOK(tiers') /\ ~overwrote'
        /\ \A u \in Tiers : Advances(tiers[u], tiers'[u])
    <2>1. \A u \in Tiers : Advances(tiers[u], tiers[u])
      <3> TAKE u \in Tiers
      <3>1. \A j : NotNewer(Generation(tiers[u], j), Generation(tiers[u], j))
        BY <1>1, GenerationOK, OlderThan DEF TiersOK
      <3> QED BY <1>1, <3>1 DEF TiersOK, Advances
    <2>2. CASE UNCHANGED <<tiers, overwrote>>
      BY <1>1, <2>1, <2>2
    <2>3. CASE MayPromote(t) /\ tiers' = [tiers EXCEPT ![t] = w]
                /\ overwrote' = (overwrote \/ (t \in Versioned /\ t \in touched))
      <3>1. ~(t \in Versioned /\ t \in touched)
        <4> SUFFICES ASSUME t \in Versioned, t \in touched
                     PROVE  FALSE
          OBVIOUS
        <4>1. t \in Tiers
          BY CacheAssumption
        <4>2. /\ lookup.seen[t] # NoGeneration /\ IsGeneration(lookup.seen[t])
              /\ Older(lookup.seen[t], Generation(tiers[t], lookup.key))
          BY <1>1, <4>1 DEF SeenOK, SeenAt
        <4>3. lookup.seen[t] = Generation(tiers[t], lookup.key)
          BY <2>3 DEF MayPromote, Matches
        <4> QED BY <4>2, <4>3, OlderIsOther
      <3>2. t \in Tiers => Advances(tiers[t], w)
        BY <1>1, SetAdvances DEF TiersOK
      <3> HIDE DEF w
      <3>3. \A u \in Tiers : tiers'[u] = IF u = t THEN w ELSE tiers[u]
        BY <1>1, <2>3 DEF TiersOK
      <3>4. \A u \in Tiers : Advances(tiers[u], tiers'[u])
        BY <2>1, <3>2, <3>3
      <3>5. DOMAIN tiers' = Tiers
        BY <1>1, <2>3 DEF TiersOK
      <3> QED BY <1>1, <2>3, <3>1, <3>4, <3>5 DEF TiersOK, Advances
    <2> QED BY <1>3, <2>2, <2>3
  <1>5. SeenOK(lookup, tiers', touched)
    BY <1>1, <1>4, TiersGoOn
  <1>6. SeenOK(lookup', tiers', touched)
    <2>1. NotYet(lookup')
      BY <1>2 DEF NotYet
    <2> QED BY <1>1, <1>2, <1>5, <2>1, KeepsSeen
  <1>7. Numbered(lookup)'
    BY <1>1, <1>2 DEF CacheInv, Numbered, Keeps
  <1> QED BY <1>1, <1>4, <1>6, <1>7 DEF CacheInv

(* The fill carries the number both nodes wait for.                        *)
LEMMA FillKeeps ==
  ASSUME CacheInv, Fill
  PROVE  CacheInv'
  <1>1. /\ lookup.pc # "idle" /\ lookup' = NoLookup
        /\ UNCHANGED <<tiers, driver, overwrote, touched>>
    BY DEF Fill, Promoted
  <1>2. lookup'.pc = "idle"
    BY <1>1 DEF NoLookup
  <1>3. status.seq = lookup.seq /\ value.seq = lookup.seq
    BY <1>1 DEF CacheInv, Numbered
  <1>4. /\ status' = [status EXCEPT !.kind = FillStatus(lookup)]
        /\ value' = [value EXCEPT !.shown = lookup.found]
    BY <1>3 DEF Fill
  <1>5. /\ status = [kind |-> status.kind, key |-> status.key, seq |-> status.seq]
        /\ value = [seq |-> value.seq, shown |-> value.shown]
    BY DEF CacheInv, Numbered
  <1>6. /\ status' = [kind |-> FillStatus(lookup), key |-> status.key, seq |-> status.seq]
        /\ value' = [seq |-> value.seq, shown |-> lookup.found]
    <2> DEFINE f == FillStatus(lookup)
    <2>1. status' = [status EXCEPT !.kind = f]
      BY <1>4
    <2> HIDE DEF f
    <2>2. status' = [kind |-> f, key |-> status.key, seq |-> status.seq]
      BY <1>5, <2>1
    <2>3. value' = [seq |-> value.seq, shown |-> lookup.found]
      BY <1>4, <1>5
    <2> QED BY <2>2, <2>3 DEF f
  <1>7. FillStatus(lookup) # "loading" /\ (FillStatus(lookup) = "hit" <=> lookup.found # Nothing)
    BY DEF FillStatus
  <1>8. Numbered(lookup)'
    <2> DEFINE f == FillStatus(lookup)
    <2>1. /\ status'.kind = f /\ status'.key = status.key /\ status'.seq = status.seq
          /\ value'.seq = value.seq /\ value'.shown = lookup.found
      BY <1>6
    <2>2. status' = [kind |-> status'.kind, key |-> status'.key, seq |-> status'.seq]
          /\ value' = [seq |-> value'.seq, shown |-> value'.shown]
      BY <1>6
    <2> HIDE DEF f
    <2>3. f # "loading" /\ (f = "hit" <=> lookup.found # Nothing)
      BY <1>7 DEF f
    <2> QED BY <1>1, <1>2, <2>1, <2>2, <2>3 DEF CacheInv, Numbered
  <1>9. SeenOK(lookup', tiers', touched')
    BY <1>2 DEF SeenOK
  <1> QED BY <1>1, <1>8, <1>9 DEF CacheInv

(* Someone else writes: the generation of a key the lookup has seen moves. *)
LEMMA OthersKeep ==
  ASSUME CacheInv, OthersWrite
  PROVE  CacheInv'
  <1>1. /\ TiersOK(tiers) /\ SeenOK(lookup, tiers, touched)
        /\ UNCHANGED <<lookup, driver, status, value, overwrote>>
    BY DEF CacheInv, OthersWrite
  <1>2. PICK t \in Tiers, k \in CacheKeys :
          /\ \/ \E v \in CacheValues : tiers' = [tiers EXCEPT ![t] = KvSet(@, k, v)]
             \/ tiers' = [tiers EXCEPT ![t] = KvDelete(@, k)]
             \/ tiers' = [tiers EXCEPT ![t] = KvClear(@)]
          /\ touched' = touched \union {u \in {t} : Reading(t, k) /\ tiers'[t] # tiers[t]}
    BY DEF OthersWrite
  <1>3. TierOK(tiers[t]) /\ DOMAIN tiers = Tiers
    BY <1>1 DEF TiersOK
  <1>4. PICK w : /\ tiers' = [tiers EXCEPT ![t] = w] /\ Advances(tiers[t], w)
                 /\ w # tiers[t] => Older(Generation(tiers[t], k), Generation(w, k))
    <2>1. CASE \E v \in CacheValues : tiers' = [tiers EXCEPT ![t] = KvSet(@, k, v)]
      BY <1>3, <2>1, SetAdvances
    <2>2. CASE tiers' = [tiers EXCEPT ![t] = KvDelete(@, k)]
      BY <1>3, <2>2, DeleteAdvances
    <2>3. CASE tiers' = [tiers EXCEPT ![t] = KvClear(@)]
      BY <1>3, <2>3, ClearAdvances
    <2> QED BY <1>2, <2>1, <2>2, <2>3
  <1>5. tiers'[t] = w /\ DOMAIN tiers' = Tiers /\ \A u \in Tiers : u # t => tiers'[u] = tiers[u]
    BY <1>3, <1>4
  <1>6. \A u \in Tiers : Advances(tiers[u], tiers'[u])
    <2> TAKE u \in Tiers
    <2>1. CASE u = t
      BY <1>4, <1>5, <2>1
    <2>2. CASE u # t
      <3>1. TierOK(tiers[u]) /\ tiers'[u] = tiers[u]
        BY <1>1, <1>5, <2>2 DEF TiersOK
      <3>2. \A j : NotNewer(Generation(tiers[u], j), Generation(tiers[u], j))
        BY <3>1, GenerationOK, OlderThan
      <3> QED BY <3>1, <3>2 DEF Advances
    <2> QED BY <2>1, <2>2
  <1>7. \A u \in Tiers : u \in touched' => u \in touched \/ (lookup.seen[u] # NoGeneration
                             /\ Older(Generation(tiers[u], lookup.key), Generation(tiers'[u], lookup.key)))
    <2> TAKE u \in Tiers
    <2>1. ASSUME u \in touched', u \notin touched
          PROVE  u = t /\ Reading(t, k) /\ tiers'[t] # tiers[t]
      BY <1>2, <2>1
    <2> QED BY <1>4, <1>5, <2>1 DEF Reading
  <1>8. SeenOK(lookup, tiers', touched')
    BY <1>1, <1>6, <1>7, TiersGoOn
  <1>9. TiersOK(tiers')
    BY <1>5, <1>6 DEF TiersOK, Advances
  <1>10. Numbered(lookup)'
    BY <1>1 DEF CacheInv, Numbered
  <1> QED BY <1>1, <1>8, <1>9, <1>10 DEF CacheInv

LEMMA CacheSteps == CacheInv /\ [CacheNext]_cacheVars => CacheInv'
  <1> SUFFICES ASSUME CacheInv, [CacheNext]_cacheVars
               PROVE  CacheInv'
    OBVIOUS
  <1>1. CASE UNCHANGED cacheVars
    BY <1>1 DEF CacheInv, Numbered, cacheVars
  <1>2. CASE Wave1
    BY <1>2 DEF CacheInv, Numbered, Wave1
  <1> QED BY <1>1, <1>2, StartKeeps, LookKeeps, LoadKeeps, PromoteKeeps, FillKeeps, OthersKeep
          DEF CacheNext

(* The cascading cache and its tiers (cascading_cache.rs, storage.rs), for *)
(* any tiers, keys, values and policies: no promotion overwrites what      *)
(* someone else has done to a versioned tier since the lookup read it, and *)
(* when no lookup is under way the status and the value node agree about   *)
(* the last one.                                                           *)
THEOREM CacheIsSound == CacheSpec => []CacheSound
  <1>1. CacheInit => CacheInv
    <2> SUFFICES ASSUME CacheInit
                 PROVE  CacheInv
      OBVIOUS
    <2>1. TiersOK(tiers)
      <3>1. TierOK(EmptyTier)
        BY DEF TierOK, EmptyTier
      <3> QED BY <3>1 DEF TiersOK, CacheInit
    <2>2. SeenOK(lookup, tiers, touched)
      BY DEF SeenOK, CacheInit, NoLookup
    <2>3. Numbered(lookup) /\ ~overwrote
      BY DEF Numbered, CacheInit, NoLookup
    <2> QED BY <2>1, <2>2, <2>3 DEF CacheInv
  <1>2. CacheInv => CacheSound
    <2> SUFFICES ASSUME CacheInv
                 PROVE  CacheSound
      OBVIOUS
    <2>1. lookup.pc = "idle" => (status.kind = "hit") = (value.shown # Nothing)
      BY DEF CacheInv, Numbered
    <2> QED BY <2>1 DEF CacheInv, Numbered, CacheSound, PromotionsYield, CacheAgrees
  <1> QED BY <1>1, <1>2, CacheSteps, PTL DEF CacheSpec

=============================================================================
