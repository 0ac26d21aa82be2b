---------------------------- MODULE PipesProofs ----------------------------
(***************************************************************************)
(* The open counts of a pipe are exact, for every number of processes,     *)
(* descriptors and pipes and every workload, except three misuses: dup2    *)
(* over a descriptor of a pipe, a kill of a process that is dead already,  *)
(* and a call of a process that the ESC key has killed.                    *)
(*                                                                         *)
(* Who sleeps in a read or a write sleeps rightly, for every size of the   *)
(* ring and every workload in which, besides, writers of a pipe come one   *)
(* at a time, with strings that fit in the ring, and a revert does not     *)
(* take the last write end from under a reader.  And a pipe is then a      *)
(* queue: what is read from the ring was written to it, in order and once. *)
(***************************************************************************)
EXTENDS Pipes, NaturalMinMax, FiniteSetTheorems, SequenceTheorems, TLAPS

-----------------------------------------------------------------------------
(* The inductive invariant, and its parts as operators of the values that  *)
(* they speak of, so that a lemma about them holds before and after a step.*)

Either == {"R", "W"}
Writing == {"W"}
\* The ends on file f of the processes that are alive in st.
EndsIn(st, table, f, modes) ==
    {e \in Process \X Fd : /\ st[e[1]] \in {"READY", "BLOCKED"}
                           /\ table[e[1]][e[2]].fileID = f
                           /\ table[e[1]][e[2]].mode \in modes}

CountsFit(st, table, files) ==
    \A f \in File : files[f].name # NoName =>
        /\ files[f].currentOpenCount = Cardinality(EndsIn(st, table, f, Either))
        /\ files[f].writeOpenCount = Cardinality(EndsIn(st, table, f, Writing))

\* Descriptors are of files that exist or existed, and a descriptor without a mode is
\* of no pipe.
KnownFiles(table, files, next) ==
    /\ \A p \in Process, fd \in Fd :
          /\ table[p][fd].fileID < next
          /\ table[p][fd].mode = "N" => table[p][fd].fileID <= STDERR
    /\ \A f \in File : f >= next => files[f].name = NoName

\* None of the three misuses.
OwnDescriptorsOnly == Calls \cap {"dupOver", "killZombie", "afterEsc"} = {}

\* The last of them.
DeadMakeNoCalls == "afterEsc" \notin Calls

PipeInv == TypeOK /\ CountsFit(state, fds, pipe) /\ KnownFiles(fds, pipe, fileIdToGive)

LEMMA EndsFinite ==
    \A st, table, f, modes : /\ IsFiniteSet(EndsIn(st, table, f, modes))
                             /\ Cardinality(EndsIn(st, table, f, modes)) \in Nat
<1>1. IsFiniteSet(Process \X Fd)
  <2>1. IsFiniteSet(Fd)
    BY FS_Interval, PipeAssumption DEF Fd
  <2> QED
    BY <2>1, FS_Product, ProcessAssumption
<1>2. SUFFICES ASSUME NEW st, NEW table, NEW f, NEW modes
               PROVE  /\ IsFiniteSet(EndsIn(st, table, f, modes))
                      /\ Cardinality(EndsIn(st, table, f, modes)) \in Nat
  OBVIOUS
<1>3. EndsIn(st, table, f, modes) \in SUBSET (Process \X Fd)
  BY DEF EndsIn
<1> QED
  BY <1>1, <1>3, FS_Subset, FS_CardinalityType

\* CountsExact, said with the operators above.
LEMMA LiveEndsAre ==
    TypeOK => \A f \in File : /\ LiveEnds(f) = EndsIn(state, fds, f, Either)
                              /\ ForWriting(LiveEnds(f)) = EndsIn(state, fds, f, Writing)
<1> SUFFICES ASSUME TypeOK, NEW f \in File
             PROVE  /\ LiveEnds(f) = EndsIn(state, fds, f, Either)
                    /\ ForWriting(LiveEnds(f)) = EndsIn(state, fds, f, Writing)
  OBVIOUS
<1>1. \A p \in Process, fd \in Fd : fds[p][fd].mode \in {"R", "W", "N"}
  BY DEF TypeOK, fileDescriptor
<1>2. f > STDERR
  BY PipeAssumption DEF File, STDERR
<1>3. LiveEnds(f) = EndsIn(state, fds, f, Either)
  BY <1>1, <1>2 DEF LiveEnds, On, EndsOf, EndsIn, Live, Either
<1>4. ForWriting(LiveEnds(f)) = EndsIn(state, fds, f, Writing)
  BY <1>3 DEF ForWriting, EndsIn, Either, Writing
<1> QED
  BY <1>3, <1>4

-----------------------------------------------------------------------------
(* What one more end, and ends that go, do to the counts.                  *)

\* Nothing is opened, closed, born or killed.
LEMMA QuietCounts ==
    ASSUME NEW st, NEW st2, NEW table, NEW files, NEW files2, NEW next,
           CountsFit(st, table, files), KnownFiles(table, files, next),
           \A p \in Process : st2[p] \in {"READY", "BLOCKED"} <=> st[p] \in {"READY", "BLOCKED"},
           \A f \in File : /\ files2[f].name = files[f].name
                           /\ files2[f].currentOpenCount = files[f].currentOpenCount
                           /\ files2[f].writeOpenCount = files[f].writeOpenCount
    PROVE  CountsFit(st2, table, files2) /\ KnownFiles(table, files2, next)
<1>1. \A f, modes : EndsIn(st2, table, f, modes) = EndsIn(st, table, f, modes)
  BY DEF EndsIn
<1>2. CountsFit(st2, table, files2)
  BY <1>1 DEF CountsFit
<1>3. KnownFiles(table, files2, next)
  BY DEF KnownFiles
<1> QED
  BY <1>2, <1>3

\* The pipe of one more end is counted, and the other pipes stay the same.
CountedOnceMore(files, files2, end) ==
    \A f \in File :
        /\ files2[f].name = files[f].name
        /\ files[f].name # NoName /\ f = end.fileID =>
             /\ files2[f].currentOpenCount = files[f].currentOpenCount + 1
             /\ files2[f].writeOpenCount =
                  IF end.mode = "W" THEN files[f].writeOpenCount + 1
                                    ELSE files[f].writeOpenCount
        /\ f # end.fileID => files2[f] = files[f]

\* A descriptor of a live process that was of no pipe becomes one of file g.
LEMMA OneMoreEnd ==
    ASSUME NEW st, NEW table \in [Process -> [Fd -> fileDescriptor]], NEW files, NEW files2, NEW next,
           CountsFit(st, table, files), KnownFiles(table, files, next),
           NEW p \in Process, st[p] \in {"READY", "BLOCKED"},
           NEW fd \in Fd, table[p][fd].fileID <= STDERR, NEW table2,
           NEW end \in fileDescriptor, end.fileID < next,
           end.mode = "N" => end.fileID <= STDERR,
           CountedOnceMore(files, files2, end),
           table2 = [table EXCEPT ![p][fd] = end]
    PROVE  CountsFit(st, table2, files2) /\ KnownFiles(table2, files2, next)
<1>1. \A q \in Process, d \in Fd :
          table2[q][d] = IF q = p /\ d = fd THEN end ELSE table[q][d]
  OBVIOUS
<1>2. \A f \in File : f > STDERR
  BY PipeAssumption DEF File, STDERR
<1>3. \A f \in File : \A modes : <<p, fd>> \notin EndsIn(st, table, f, modes)
  BY <1>2 DEF EndsIn, fileDescriptor, STDERR, File
<1>4. ASSUME NEW f \in File, f # end.fileID, NEW modes
      PROVE  EndsIn(st, table2, f, modes) = EndsIn(st, table, f, modes)
  <2>1. ASSUME NEW e \in Process \X Fd
        PROVE  e \in EndsIn(st, table2, f, modes) <=> e \in EndsIn(st, table, f, modes)
    <3>1. CASE e = <<p, fd>>
      <4>1. e \notin EndsIn(st, table2, f, modes)
        BY <1>1, <1>4, <3>1 DEF EndsIn
      <4> QED
        BY <4>1, <1>3, <3>1
    <3>2. CASE e # <<p, fd>>
      <4>1. e[1] \in Process /\ e[2] \in Fd /\ ~(e[1] = p /\ e[2] = fd)
        BY <3>2
      <4>2. table2[e[1]][e[2]] = table[e[1]][e[2]]
        BY <1>1, <4>1
      <4> QED
        BY <4>2 DEF EndsIn
    <3> QED
      BY <3>1, <3>2
  <2> QED
    BY <2>1 DEF EndsIn
<1>5. ASSUME NEW f \in File, f = end.fileID, NEW modes
      PROVE  EndsIn(st, table2, f, modes) =
                EndsIn(st, table, f, modes) \cup (IF end.mode \in modes THEN {<<p, fd>>} ELSE {})
  <2>1. ASSUME NEW e \in Process \X Fd
        PROVE  e \in EndsIn(st, table2, f, modes) <=>
                  \/ e \in EndsIn(st, table, f, modes)
                  \/ e = <<p, fd>> /\ end.mode \in modes
    <3>1. CASE e = <<p, fd>>
      <4>1. e \in EndsIn(st, table2, f, modes) <=> end.mode \in modes
        BY <1>1, <1>5, <3>1 DEF EndsIn
      <4> QED
        BY <4>1, <1>3, <3>1
    <3>2. CASE e # <<p, fd>>
      <4>1. e[1] \in Process /\ e[2] \in Fd /\ ~(e[1] = p /\ e[2] = fd)
        BY <3>2
      <4>2. table2[e[1]][e[2]] = table[e[1]][e[2]]
        BY <1>1, <4>1
      <4> QED
        BY <4>2, <3>2 DEF EndsIn
    <3> QED
      BY <3>1, <3>2
  <2> QED
    BY <2>1 DEF EndsIn
<1>6. ASSUME NEW f \in File, f = end.fileID, files[f].name # NoName
      PROVE  /\ files2[f].currentOpenCount = Cardinality(EndsIn(st, table2, f, Either))
             /\ files2[f].writeOpenCount = Cardinality(EndsIn(st, table2, f, Writing))
  <2>1. end.mode \in Either
    BY <1>2, <1>6 DEF Either, fileDescriptor, File, STDERR
  <2>2. EndsIn(st, table2, f, Either) = EndsIn(st, table, f, Either) \cup {<<p, fd>>}
    BY <1>5, <1>6, <2>1
  <2>3. EndsIn(st, table2, f, Writing) =
           IF end.mode = "W" THEN EndsIn(st, table, f, Writing) \cup {<<p, fd>>}
                             ELSE EndsIn(st, table, f, Writing)
    <3>1. end.mode \in Writing <=> end.mode = "W"
      BY DEF Writing
    <3>2. EndsIn(st, table2, f, Writing) =
             EndsIn(st, table, f, Writing)
               \cup (IF end.mode \in Writing THEN {<<p, fd>>} ELSE {})
      BY <1>5, <1>6
    <3> QED
      BY <3>1, <3>2
  <2>4. Cardinality(EndsIn(st, table, f, Either) \cup {<<p, fd>>}) =
           Cardinality(EndsIn(st, table, f, Either)) + 1
    BY <1>3, EndsFinite, FS_AddElement
  <2>5. Cardinality(EndsIn(st, table, f, Writing) \cup {<<p, fd>>}) =
           Cardinality(EndsIn(st, table, f, Writing)) + 1
    BY <1>3, EndsFinite, FS_AddElement
  <2> QED
    BY <1>6, <2>2, <2>3, <2>4, <2>5 DEF CountsFit, CountedOnceMore
<1>7. CountsFit(st, table2, files2)
  BY <1>4, <1>6 DEF CountsFit, CountedOnceMore
<1>8. KnownFiles(table2, files2, next)
  BY <1>1 DEF KnownFiles, CountedOnceMore
<1> QED
  BY <1>7, <1>8

\* What is left of the pipes is discounted by the ends that go.
CountedLess(st, table, files, files2, ends) ==
    \A f \in File : files2[f].name # NoName =>
        /\ files[f].name = files2[f].name
        /\ files2[f].currentOpenCount =
              files[f].currentOpenCount - Cardinality(EndsIn(st, table, f, Either) \cap ends)
        /\ files2[f].writeOpenCount =
              files[f].writeOpenCount - Cardinality(EndsIn(st, table, f, Writing) \cap ends)

\* Ends go, and the pipes are discounted or freed.
LEMMA FewerEnds ==
    ASSUME NEW st, NEW st2, NEW table, NEW table2, NEW files, NEW files2,
           CountsFit(st, table, files), NEW ends,
           \A f \in File : \A modes \in SUBSET Either :
               EndsIn(st2, table2, f, modes) = EndsIn(st, table, f, modes) \ ends,
           CountedLess(st, table, files, files2, ends)
    PROVE  CountsFit(st2, table2, files2)
<1>1. \A f, modes : Cardinality(EndsIn(st, table, f, modes) \ ends) =
                       Cardinality(EndsIn(st, table, f, modes))
                         - Cardinality(EndsIn(st, table, f, modes) \cap ends)
  BY EndsFinite, FS_Difference
<1>2. Either \in SUBSET Either /\ Writing \in SUBSET Either
  BY DEF Either, Writing
<1>3. ASSUME NEW f \in File, files2[f].name # NoName
      PROVE  /\ files2[f].currentOpenCount = Cardinality(EndsIn(st2, table2, f, Either))
             /\ files2[f].writeOpenCount = Cardinality(EndsIn(st2, table2, f, Writing))
  <2>1. /\ EndsIn(st2, table2, f, Either) = EndsIn(st, table, f, Either) \ ends
        /\ EndsIn(st2, table2, f, Writing) = EndsIn(st, table, f, Writing) \ ends
    BY <1>2
  <2>2. files[f].name # NoName
    BY <1>3 DEF CountedLess
  <2>3. /\ files[f].currentOpenCount = Cardinality(EndsIn(st, table, f, Either))
        /\ files[f].writeOpenCount = Cardinality(EndsIn(st, table, f, Writing))
    BY <2>2 DEF CountsFit
  <2>4. /\ files2[f].currentOpenCount =
              files[f].currentOpenCount - Cardinality(EndsIn(st, table, f, Either) \cap ends)
        /\ files2[f].writeOpenCount =
              files[f].writeOpenCount - Cardinality(EndsIn(st, table, f, Writing) \cap ends)
    BY <1>3 DEF CountedLess
  <2> QED
    BY <1>1, <2>1, <2>3, <2>4
<1> QED
  BY <1>3 DEF CountsFit

LEMMA NoPipeType ==
    /\ NoPipe \in pipeFile /\ NoPipe.name = NoName
    /\ NoPipe.currentOpenCount = 0 /\ NoPipe.writeOpenCount = 0
BY DEF NoPipe, pipeFile

LEMMA NamedRecord ==
    ASSUME NEW r \in pipeFile, NEW n \in Name
    PROVE  /\ [r EXCEPT !.name = n] \in pipeFile
           /\ [r EXCEPT !.name = n].currentOpenCount = r.currentOpenCount
           /\ [r EXCEPT !.name = n].writeOpenCount = r.writeOpenCount
BY DEF pipeFile

\* The record of a pipe with other counts.
LEMMA CountedRecord ==
    ASSUME NEW r \in pipeFile, NEW all \in Int, NEW writers \in Int,
           r.currentOpenCount + all >= 0, r.writeOpenCount + writers >= 0
    PROVE  /\ Counted(r, all, writers) \in pipeFile
           /\ Counted(r, all, writers).name = r.name
           /\ Counted(r, all, writers).currentOpenCount = r.currentOpenCount + all
           /\ Counted(r, all, writers).writeOpenCount = r.writeOpenCount + writers
<1> DEFINE buffers == [0 .. MAX_PIPE_BUFFER_SIZE - 1 -> Char \cup {""}]
           records == [name : Name \cup {NoName}, buffer : buffers, readingIndex : Nat,
                       writingIndex : Nat, currentOpenCount : Nat, writeOpenCount : Nat]
           s == Counted(r, all, writers)
<1>1. pipeFile = records
  BY DEF pipeFile
<1> HIDE DEF buffers
<1>2. r \in records
  BY <1>1
<1>3. r.currentOpenCount + all \in Nat /\ r.writeOpenCount + writers \in Nat
  BY <1>2
<1>4. PICK t : /\ t = [r EXCEPT !.currentOpenCount = @ + all]
               /\ s = [t EXCEPT !.writeOpenCount = r.writeOpenCount + writers]
  BY <1>2, Zenon DEF Counted
<1> HIDE DEF s
<1>5. /\ t \in records /\ t.name = r.name /\ t.writeOpenCount = r.writeOpenCount
      /\ t.currentOpenCount = r.currentOpenCount + all
  BY <1>2, <1>3, <1>4
<1>6. /\ s \in records /\ s.name = r.name
      /\ s.currentOpenCount = r.currentOpenCount + all
      /\ s.writeOpenCount = r.writeOpenCount + writers
  BY <1>3, <1>4, <1>5
<1> QED
  BY <1>1, <1>6 DEF s

\* The ends of live processes that go from a file.
LEMMA EndsGone ==
    ASSUME TypeOK, NEW ends \in SUBSET EndsOf({p \in Process : Live(p)}), NEW f \in File
    PROVE  /\ On(ends, f) = EndsIn(state, fds, f, Either) \cap ends
           /\ ForWriting(On(ends, f)) = EndsIn(state, fds, f, Writing) \cap ends
<1>1. \A p \in Process, fd \in Fd : fds[p][fd].mode \in {"R", "W", "N"}
  BY DEF TypeOK, fileDescriptor
<1>2. On(ends, f) = EndsIn(state, fds, f, Either) \cap ends
  BY <1>1 DEF On, EndsOf, EndsIn, Live, Either
<1>3. ForWriting(On(ends, f)) = EndsIn(state, fds, f, Writing) \cap ends
  BY <1>2 DEF ForWriting, EndsIn, Either, Writing
<1> QED
  BY <1>2, <1>3

\* More ends of a file never go than were counted.
LEMMA CountedBefore ==
    ASSUME PipeInv, NEW ends \in SUBSET EndsOf({p \in Process : Live(p)}),
           NEW f \in File, Exists(f)
    PROVE  /\ Cardinality(On(ends, f)) \in Nat
           /\ Cardinality(ForWriting(On(ends, f))) \in Nat
           /\ Cardinality(On(ends, f)) <= pipe[f].currentOpenCount
           /\ Cardinality(ForWriting(On(ends, f))) <= pipe[f].writeOpenCount
<1>1. /\ On(ends, f) = EndsIn(state, fds, f, Either) \cap ends
      /\ ForWriting(On(ends, f)) = EndsIn(state, fds, f, Writing) \cap ends
  BY EndsGone DEF PipeInv
<1>2. /\ pipe[f].currentOpenCount = Cardinality(EndsIn(state, fds, f, Either))
      /\ pipe[f].writeOpenCount = Cardinality(EndsIn(state, fds, f, Writing))
  BY DEF PipeInv, CountsFit, Exists
<1>3. ASSUME NEW modes
      PROVE  /\ Cardinality(EndsIn(state, fds, f, modes) \cap ends) \in Nat
             /\ Cardinality(EndsIn(state, fds, f, modes) \cap ends)
                  <= Cardinality(EndsIn(state, fds, f, modes))
  BY EndsFinite, FS_Intersection, FS_CardinalityType
<1> QED
  BY <1>1, <1>2, <1>3

\* closeForKilling frees a pipe or keeps its counts.
LEMMA ClosingEffect ==
    ASSUME PipeInv, NEW ends \in SUBSET EndsOf({p \in Process : Live(p)})
    PROVE  /\ AfterClosing(ends) \in [File -> pipeFile]
           /\ CountedLess(state, fds, pipe, AfterClosing(ends), ends)
<1>1. NoPipe \in pipeFile /\ NoPipe.name = NoName
  BY NoPipeType
<1>2. pipe \in [File -> pipeFile]
  BY DEF PipeInv, TypeOK
<1>3. ASSUME NEW f \in File
      PROVE  /\ AfterClosing(ends)[f] \in pipeFile
             /\ AfterClosing(ends)[f].name # NoName =>
                  /\ pipe[f].name = AfterClosing(ends)[f].name
                  /\ AfterClosing(ends)[f].currentOpenCount =
                        pipe[f].currentOpenCount - Cardinality(On(ends, f))
                  /\ AfterClosing(ends)[f].writeOpenCount =
                        pipe[f].writeOpenCount - Cardinality(ForWriting(On(ends, f)))
  <2>1. CASE ~Exists(f)
    <3>1. AfterClosing(ends)[f] = pipe[f]
      BY <2>1 DEF AfterClosing
    <3> QED
      BY <3>1, <2>1, <1>2 DEF Exists
  <2>2. CASE Exists(f) /\ pipe[f].currentOpenCount \in 1 .. Cardinality(On(ends, f))
    <3>1. AfterClosing(ends)[f] = NoPipe
      BY <2>2 DEF AfterClosing
    <3> QED
      BY <3>1, <1>1
  <2>3. CASE Exists(f) /\ pipe[f].currentOpenCount \notin 1 .. Cardinality(On(ends, f))
    <3> DEFINE all == Cardinality(On(ends, f))
               writers == Cardinality(ForWriting(On(ends, f)))
    <3>1. AfterClosing(ends)[f] = Counted(pipe[f], -all, -writers)
      BY <2>3 DEF AfterClosing
    <3>2. /\ all \in Nat /\ writers \in Nat
          /\ all <= pipe[f].currentOpenCount /\ writers <= pipe[f].writeOpenCount
      BY <2>3, CountedBefore
    <3>3. pipe[f] \in pipeFile
      BY <1>2
    <3> HIDE DEF all, writers
    <3>4. pipe[f].currentOpenCount \in Nat /\ pipe[f].writeOpenCount \in Nat
      BY <3>3 DEF pipeFile
    <3>5. /\ -all \in Int /\ pipe[f].currentOpenCount + (-all) >= 0
          /\ -writers \in Int /\ pipe[f].writeOpenCount + (-writers) >= 0
      BY <3>2, <3>4
    <3>6. /\ AfterClosing(ends)[f] \in pipeFile
          /\ AfterClosing(ends)[f].name = pipe[f].name
          /\ AfterClosing(ends)[f].currentOpenCount = pipe[f].currentOpenCount + (-all)
          /\ AfterClosing(ends)[f].writeOpenCount = pipe[f].writeOpenCount + (-writers)
      BY <3>1, <3>3, <3>5, CountedRecord
    <3>7. /\ pipe[f].currentOpenCount + (-all) = pipe[f].currentOpenCount - all
          /\ pipe[f].writeOpenCount + (-writers) = pipe[f].writeOpenCount - writers
      BY <3>2, <3>4
    <3> QED
      BY <3>6, <3>7 DEF all, writers
  <2> QED
    BY <2>1, <2>2, <2>3
<1>4. AfterClosing(ends) \in [File -> pipeFile]
  BY <1>3 DEF AfterClosing
<1>5. \A f \in File : /\ On(ends, f) = EndsIn(state, fds, f, Either) \cap ends
                      /\ ForWriting(On(ends, f)) = EndsIn(state, fds, f, Writing) \cap ends
  BY EndsGone DEF PipeInv
<1> QED
  BY <1>3, <1>4, <1>5 DEF CountedLess

\* modifyOpenCount discounts without freeing.
LEMMA DiscountEffect ==
    ASSUME PipeInv, NEW ends \in SUBSET EndsOf({p \in Process : Live(p)})
    PROVE  /\ Discounted(ends) \in [File -> pipeFile]
           /\ \A f \in File : Discounted(ends)[f].name = pipe[f].name
           /\ CountedLess(state, fds, pipe, Discounted(ends), ends)
<1>1. pipe \in [File -> pipeFile]
  BY DEF PipeInv, TypeOK
<1>2. ASSUME NEW f \in File
      PROVE  /\ Discounted(ends)[f] \in pipeFile
             /\ Discounted(ends)[f].name = pipe[f].name
             /\ pipe[f].name # NoName =>
                  /\ Discounted(ends)[f].currentOpenCount =
                        pipe[f].currentOpenCount - Cardinality(On(ends, f))
                  /\ Discounted(ends)[f].writeOpenCount =
                        pipe[f].writeOpenCount - Cardinality(ForWriting(On(ends, f)))
  <2>1. CASE ~Exists(f)
    <3>1. Discounted(ends)[f] = pipe[f]
      BY <2>1 DEF Discounted
    <3> QED
      BY <3>1, <2>1, <1>1 DEF Exists
  <2>2. CASE Exists(f)
    <3> DEFINE all == Cardinality(On(ends, f))
               writers == Cardinality(ForWriting(On(ends, f)))
    <3>1. Discounted(ends)[f] = Counted(pipe[f], -all, -writers)
      BY <2>2 DEF Discounted
    <3>2. /\ all \in Nat /\ writers \in Nat
          /\ all <= pipe[f].currentOpenCount /\ writers <= pipe[f].writeOpenCount
      BY <2>2, CountedBefore
    <3>3. pipe[f] \in pipeFile
      BY <1>1
    <3> HIDE DEF all, writers
    <3>4. pipe[f].currentOpenCount \in Nat /\ pipe[f].writeOpenCount \in Nat
      BY <3>3 DEF pipeFile
    <3>5. /\ -all \in Int /\ pipe[f].currentOpenCount + (-all) >= 0
          /\ -writers \in Int /\ pipe[f].writeOpenCount + (-writers) >= 0
      BY <3>2, <3>4
    <3>6. /\ Discounted(ends)[f] \in pipeFile
          /\ Discounted(ends)[f].name = pipe[f].name
          /\ Discounted(ends)[f].currentOpenCount = pipe[f].currentOpenCount + (-all)
          /\ Discounted(ends)[f].writeOpenCount = pipe[f].writeOpenCount + (-writers)
      BY <3>1, <3>3, <3>5, CountedRecord
    <3>7. /\ pipe[f].currentOpenCount + (-all) = pipe[f].currentOpenCount - all
          /\ pipe[f].writeOpenCount + (-writers) = pipe[f].writeOpenCount - writers
      BY <3>2, <3>4
    <3> QED
      BY <3>6, <3>7 DEF all, writers
  <2> QED
    BY <2>1, <2>2
<1>3. Discounted(ends) \in [File -> pipeFile]
  BY <1>2 DEF Discounted
<1>4. \A f \in File : /\ On(ends, f) = EndsIn(state, fds, f, Either) \cap ends
                      /\ ForWriting(On(ends, f)) = EndsIn(state, fds, f, Writing) \cap ends
  BY EndsGone DEF PipeInv
<1> QED
  BY <1>2, <1>3, <1>4 DEF CountedLess

-----------------------------------------------------------------------------
(* What blocking, waking and killing do to the processes.                  *)

LEMMA BlockEffect ==
    ASSUME ProcessTypeOK, NEW reason, MayBlock, BlockRunning(reason)
    PROVE  /\ ProcessTypeOK'
           /\ \A p \in Process : state'[p] \in {"READY", "BLOCKED"}
                                   <=> state[p] \in {"READY", "BLOCKED"}
BY DEF BlockRunning, ProcessTypeOK, Dispatch, MayBlock

LEMMA ChangeEffect ==
    ASSUME ProcessTypeOK, NEW W, \A p \in W : state[p] = "BLOCKED", NEW K, Change(W, K),
           nowRunning' \in Process
    PROVE  /\ ProcessTypeOK'
           /\ \A p \in Process : state'[p] \in {"READY", "BLOCKED"}
                                   <=> p \notin K /\ state[p] \in {"READY", "BLOCKED"}
<1>1. \A p \in Process : state'[p] = CASE p \in K -> "FINISHED"
                                       [] p \in W \ K -> "READY"
                                       [] OTHER -> state[p]
  BY DEF Change
<1>2. \A p \in Process : /\ p \in K => state'[p] = "FINISHED"
                         /\ p \in W \ K => state'[p] = "READY"
                         /\ p \notin W \cup K => state'[p] = state[p]
  BY <1>1
<1>3. DOMAIN state' = Process /\ DOMAIN blockedReason' = Process
  BY DEF Change
<1>4. \A p \in Process : state'[p] \in {"NONE", "READY", "BLOCKED", "FINISHED"}
  BY <1>2 DEF ProcessTypeOK
<1>5. state' = [p \in Process |-> state'[p]]
  BY DEF Change
<1>6. ProcessTypeOK'
  BY <1>3, <1>4, <1>5 DEF ProcessTypeOK
<1>7. \A p \in Process : state'[p] \in {"READY", "BLOCKED"}
                           <=> p \notin K /\ state[p] \in {"READY", "BLOCKED"}
  BY <1>2
<1> QED
  BY <1>6, <1>7

LEMMA WakeEffect ==
    ASSUME ProcessTypeOK, NEW W, \A p \in W : state[p] = "BLOCKED", Wake(W)
    PROVE  /\ ProcessTypeOK'
           /\ \A p \in Process : state'[p] \in {"READY", "BLOCKED"}
                                   <=> state[p] \in {"READY", "BLOCKED"}
<1>1. Change(W, {}) /\ nowRunning' \in Process
  BY DEF Wake, ProcessTypeOK
<1> QED
  BY <1>1, ChangeEffect

-----------------------------------------------------------------------------
(* The steps.                                                              *)

\* What changes no descriptor, no count and nobody's life keeps the invariant.
LEMMA QuietStep ==
    ASSUME PipeInv, TypeOK', fds' = fds, fileIdToGive' = fileIdToGive,
           \A p \in Process : state'[p] \in {"READY", "BLOCKED"}
                                <=> state[p] \in {"READY", "BLOCKED"},
           \A f \in File : /\ pipe'[f].name = pipe[f].name
                           /\ pipe'[f].currentOpenCount = pipe[f].currentOpenCount
                           /\ pipe'[f].writeOpenCount = pipe[f].writeOpenCount
    PROVE  PipeInv'
BY QuietCounts DEF PipeInv

LEMMA TickStep ==
    ASSUME PipeInv, NEW q \in Process, Tick(q)
    PROVE  PipeInv'
<1>1. TypeOK'
  BY DEF PipeInv, TypeOK, Tick, ProcessTypeOK, fileVars
<1> QED
  BY <1>1, QuietStep DEF Tick, fileVars

LEMMA ReadEmptyStep ==
    ASSUME PipeInv, NEW fd \in Fd, ReadEmpty(fd)
    PROVE  PipeInv'
<1>1. /\ ProcessTypeOK'
      /\ \A p \in Process : state'[p] \in {"READY", "BLOCKED"}
                              <=> state[p] \in {"READY", "BLOCKED"}
  BY BlockEffect DEF ReadEmpty, PipeInv, TypeOK
<1>2. call' \in [Process -> suspendedCall]
  <2> DEFINE waiting == [NoCall EXCEPT !.op = "readEmpty"]
  <2>1. call[nowRunning] = NoCall /\ call' = [call EXCEPT ![nowRunning].op = "readEmpty"]
    BY DEF ReadEmpty, InUserCode
  <2>2. call' = [call EXCEPT ![nowRunning] = waiting]
    BY <2>1, Zenon
  <2>3. call \in [Process -> suspendedCall]
    BY DEF PipeInv, TypeOK
  <2>4. waiting \in suspendedCall
    BY DEF suspendedCall
  <2> HIDE DEF waiting
  <2> QED
    BY <2>2, <2>3, <2>4
<1>3. TypeOK'
  BY <1>1, <1>2 DEF PipeInv, TypeOK, ReadEmpty, fileVars
<1> QED
  BY <1>1, <1>3, QuietStep DEF ReadEmpty, fileVars

LEMMA MkpipeStep ==
    ASSUME PipeInv, NEW n \in Name, Mkpipe(n)
    PROVE  PipeInv'
<1> USE DEF PipeInv
<1> DEFINE new == [NoPipe EXCEPT !.name = n]
<1>1. new \in pipeFile
  BY NamedRecord, NoPipeType
<1>2. new.currentOpenCount = 0 /\ new.writeOpenCount = 0
  BY NamedRecord, NoPipeType
<1>3. fileIdToGive \in File /\ fileIdToGive' \in STDERR + 1 .. MaxFileId + 1
  BY PipeAssumption DEF Mkpipe, TypeOK, File, STDERR
<1>4. CASE pipe' = [pipe EXCEPT ![fileIdToGive] = new]
  <2> HIDE DEF new
  <2>1. pipe' \in [File -> pipeFile]
    BY <1>1, <1>4 DEF TypeOK
  <2>2. TypeOK'
    BY <1>3, <2>1 DEF Mkpipe, TypeOK, processVars, ProcessTypeOK
  <2>3. ASSUME NEW modes
        PROVE  EndsIn(state, fds, fileIdToGive, modes) = {}
    <3>1. \A p \in Process, fd \in Fd : fds[p][fd].fileID # fileIdToGive
      <4>1. \A p \in Process, fd \in Fd : fds[p][fd].fileID \in Int
        BY DEF TypeOK, fileDescriptor
      <4>2. fileIdToGive \in Int
        BY DEF TypeOK
      <4> QED
        BY <4>1, <4>2 DEF KnownFiles
    <3> QED
      BY <3>1 DEF EndsIn
  <2>4. Cardinality({}) = 0
    BY FS_EmptySet
  <2>5. /\ \A f \in File \ {fileIdToGive} : pipe'[f] = pipe[f]
        /\ pipe'[fileIdToGive].currentOpenCount = 0
        /\ pipe'[fileIdToGive].writeOpenCount = 0
    BY <1>2, <1>3, <1>4 DEF TypeOK
  <2>6. CountsFit(state', fds', pipe')
    BY <2>3, <2>4, <2>5 DEF CountsFit, Mkpipe, processVars
  <2>7. KnownFiles(fds', pipe', fileIdToGive')
    <3>1. \A p \in Process, fd \in Fd : fds[p][fd].fileID \in Int
      BY DEF TypeOK, fileDescriptor
    <3>2. fileIdToGive \in Int /\ fileIdToGive' = fileIdToGive + 1 /\ fds' = fds
      BY DEF TypeOK, Mkpipe
    <3>3. \A f \in File : f \in Int
      BY DEF File
    <3> QED
      BY <2>5, <3>1, <3>2, <3>3 DEF KnownFiles
  <2> QED
    BY <2>2, <2>6, <2>7
<1>5. CASE pipe' = [f \in File |-> NoPipe]
  <2>1. TypeOK'
    BY <1>3, <1>5, NoPipeType DEF Mkpipe, TypeOK, processVars, ProcessTypeOK
  <2>2. \A f \in File : pipe'[f].name = NoName
    BY <1>5, NoPipeType
  <2>3. \A p \in Process, fd \in Fd : fds[p][fd].fileID \in Int
    BY DEF TypeOK, fileDescriptor
  <2>4. fileIdToGive \in Int /\ fileIdToGive' = fileIdToGive + 1 /\ fds' = fds
    BY DEF TypeOK, Mkpipe
  <2> QED
    BY <2>1, <2>2, <2>3, <2>4 DEF CountsFit, KnownFiles
<1> QED
  BY <1>4, <1>5 DEF Mkpipe

\* One more end of a pipe.
LEMMA OpenedEffect ==
    ASSUME PipeInv, NEW f \in File, NEW mode
    PROVE  /\ Opened(f, mode) \in [File -> pipeFile]
           /\ \A g \in File : /\ Opened(f, mode)[g].name = pipe[g].name
                              /\ g # f => Opened(f, mode)[g] = pipe[g]
           /\ Opened(f, mode)[f].currentOpenCount = pipe[f].currentOpenCount + 1
           /\ Opened(f, mode)[f].writeOpenCount =
                 IF mode = "W" THEN pipe[f].writeOpenCount + 1 ELSE pipe[f].writeOpenCount
<1> DEFINE one == IF mode = "W" THEN 1 ELSE 0
           new == Counted(pipe[f], 1, one)
<1>1. pipe \in [File -> pipeFile]
  BY DEF PipeInv, TypeOK
<1>2. pipe[f] \in pipeFile /\ pipe[f].currentOpenCount \in Nat /\ pipe[f].writeOpenCount \in Nat
  BY <1>1 DEF pipeFile
<1>3. one \in Nat
  OBVIOUS
<1>4. Opened(f, mode) = [pipe EXCEPT ![f] = new]
  BY DEF Opened
<1> HIDE DEF new
<1>5. /\ new \in pipeFile /\ new.name = pipe[f].name
      /\ new.currentOpenCount = pipe[f].currentOpenCount + 1
      /\ new.writeOpenCount = pipe[f].writeOpenCount + one
  <2> HIDE DEF one
  <2>1. pipe[f].currentOpenCount + 1 >= 0 /\ pipe[f].writeOpenCount + one >= 0
    BY <1>2, <1>3
  <2> QED
    BY <1>2, <1>3, <2>1, CountedRecord DEF new
<1> QED
  BY <1>1, <1>2, <1>4, <1>5

LEMMA OpenStep ==
    ASSUME PipeInv, DeadMakeNoCalls, NEW n \in Name, NEW mode \in {"R", "W"}, Open(n, mode)
    PROVE  PipeInv'
<1> DEFINE f == FileNamed(n)
           fd == Min(FreeFds)
           end == [fileID |-> f, mode |-> mode]
<1>1. f \in File /\ Exists(f)
  <2> DEFINE named == {g \in File : pipe[g].name = n}
  <2>1. named \in SUBSET Nat /\ named # {} /\ \A g \in named : g <= MaxFileId
    BY PipeAssumption DEF Open, FileNamed, File, STDERR
  <2>2. Max(named) \in named
    BY <2>1, PipeAssumption, MaxProperties
  <2>3. f = Max(named)
    BY <2>1 DEF FileNamed
  <2> QED
    BY <2>2, <2>3, PipeAssumption DEF Exists
<1>2. fd \in Fd /\ fds[nowRunning][fd].fileID = EMPTY
  <2>1. FreeFds \in SUBSET Nat /\ FreeFds # {}
    BY PipeAssumption DEF Open, FreeFds
  <2>2. fd \in FreeFds
    BY <2>1, MinProperties
  <2> QED
    BY <2>2, PipeAssumption DEF FreeFds, Fd
<1>3. nowRunning \in Process /\ state[nowRunning] \in {"READY", "BLOCKED"}
  BY DEF PipeInv, TypeOK, ProcessTypeOK, Open, InUserCode, Asks, DeadMakeNoCalls
<1>4. /\ fds' = [fds EXCEPT ![nowRunning][fd] = end] /\ pipe' = Opened(f, mode)
      /\ state' = state /\ fileIdToGive' = fileIdToGive /\ nowRunning' = nowRunning
      /\ blockedReason' = blockedReason
      /\ UNCHANGED <<fdReplacements, call, atEnd, hung>>
  BY DEF Open, processVars
<1> HIDE DEF f, fd
<1>5. f \in Int /\ f > STDERR /\ f < fileIdToGive
  <2>1. fileIdToGive \in Int /\ f \in Int /\ f > STDERR
    BY <1>1, PipeAssumption DEF PipeInv, TypeOK, File, STDERR
  <2> QED
    BY <1>1, <2>1 DEF PipeInv, KnownFiles, Exists
<1>6. end \in fileDescriptor /\ end.fileID = f /\ end.mode = mode /\ mode # "N"
  BY <1>5 DEF fileDescriptor
<1>7. fds \in [Process -> [Fd -> fileDescriptor]]
  BY DEF PipeInv, TypeOK
<1> HIDE DEF end
<1>8. fds' \in [Process -> [Fd -> fileDescriptor]]
  BY <1>2, <1>3, <1>4, <1>6, <1>7
<1>9. TypeOK'
  BY <1>1, <1>4, <1>8, OpenedEffect DEF PipeInv, TypeOK, ProcessTypeOK
<1>10. fds[nowRunning][fd].fileID <= STDERR
  BY <1>2 DEF EMPTY, STDERR
<1>11. CountedOnceMore(pipe, pipe', end)
  BY <1>1, <1>4, <1>6, OpenedEffect DEF CountedOnceMore
<1>12. CountsFit(state, fds', pipe') /\ KnownFiles(fds', pipe', fileIdToGive)
  <2>1. CountsFit(state, fds, pipe) /\ KnownFiles(fds, pipe, fileIdToGive)
    BY DEF PipeInv
  <2> QED
    BY <2>1, <1>2, <1>3, <1>4, <1>5, <1>6, <1>7, <1>10, <1>11, OneMoreEnd
<1> QED
  BY <1>4, <1>9, <1>12 DEF PipeInv

LEMMA Dup2Step ==
    ASSUME PipeInv, DeadMakeNoCalls, NEW fromFd \in Fd, NEW toFd \in 0 .. STDERR,
           fds[nowRunning][toFd].fileID <= STDERR, Dup2(fromFd, toFd)
    PROVE  PipeInv'
<1> DEFINE from == fds[nowRunning][fromFd]
           lost == [index |-> toFd, lostMode |-> fds[nowRunning][toFd].mode]
<1>1. toFd \in Fd
  BY PipeAssumption DEF Fd, STDERR
<1>2. nowRunning \in Process /\ state[nowRunning] \in {"READY", "BLOCKED"}
  BY DEF PipeInv, TypeOK, ProcessTypeOK, Dup2, InUserCode, Asks, DeadMakeNoCalls
<1>3. fds \in [Process -> [Fd -> fileDescriptor]]
  BY DEF PipeInv, TypeOK
<1>4. /\ fds' = [fds EXCEPT ![nowRunning][toFd] = from]
      /\ pipe' = IF Exists(from.fileID) THEN Opened(from.fileID, from.mode) ELSE pipe
      /\ fdReplacements' = [fdReplacements EXCEPT ![nowRunning] = <<lost>> \o @]
      /\ state' = state /\ fileIdToGive' = fileIdToGive /\ nowRunning' = nowRunning
      /\ blockedReason' = blockedReason
      /\ UNCHANGED <<call, atEnd, hung>>
  BY DEF Dup2, processVars
<1>6. /\ from \in fileDescriptor /\ from.fileID < fileIdToGive
      /\ from.mode = "N" => from.fileID <= STDERR
  BY <1>1, <1>2, <1>3 DEF PipeInv, KnownFiles
<1>7. lost \in fdReplacement
  BY <1>1, <1>2, <1>3 DEF fdReplacement, fileDescriptor
<1> HIDE DEF from, lost
<1>8. fdReplacements' \in [Process -> Seq(fdReplacement)]
  <2>1. fdReplacements \in [Process -> Seq(fdReplacement)]
    BY DEF PipeInv, TypeOK
  <2>2. <<lost>> \o fdReplacements[nowRunning] \in Seq(fdReplacement)
    <3>1. <<lost>> \in Seq(fdReplacement) /\ fdReplacements[nowRunning] \in Seq(fdReplacement)
      BY <1>2, <1>7, <2>1
    <3> QED
      BY <3>1
  <2> QED
    BY <1>4, <2>1, <2>2
<1>9. fds' \in [Process -> [Fd -> fileDescriptor]]
  BY <1>1, <1>2, <1>3, <1>4, <1>6
<1>10. pipe' \in [File -> pipeFile]
  BY <1>4, OpenedEffect DEF PipeInv, TypeOK, Exists
<1>11. TypeOK'
  BY <1>4, <1>8, <1>9, <1>10 DEF PipeInv, TypeOK, ProcessTypeOK
<1>12. CountedOnceMore(pipe, pipe', from)
  <2>1. CASE Exists(from.fileID)
    BY <1>4, <2>1, OpenedEffect DEF Exists, CountedOnceMore
  <2>2. CASE ~Exists(from.fileID)
    BY <1>4, <2>2 DEF Exists, CountedOnceMore
  <2> QED
    BY <2>1, <2>2
<1>13. CountsFit(state, fds', pipe') /\ KnownFiles(fds', pipe', fileIdToGive)
  <2>1. CountsFit(state, fds, pipe) /\ KnownFiles(fds, pipe, fileIdToGive)
    BY DEF PipeInv
  <2> QED
    BY <2>1, <1>1, <1>2, <1>3, <1>4, <1>6, <1>12, OneMoreEnd
<1> QED
  BY <1>4, <1>11, <1>13 DEF PipeInv

\* The live processes of K close all their descriptors.
LEMMA KillEffect ==
    ASSUME PipeInv, NEW K \in SUBSET Process, \A p \in K : Live(p), Kill(K),
           nowRunning' \in Process
    PROVE  PipeInv'
<1> DEFINE ends == EndsOf(K)
           W == ReadersAtEnd(ends)
<1>1. ends \in SUBSET EndsOf({p \in Process : Live(p)})
  BY DEF EndsOf
<1>2. /\ pipe' = AfterClosing(ends) /\ Change(W, K)
      /\ UNCHANGED <<fds, fdReplacements, fileIdToGive, call, atEnd, hung>>
  BY DEF Kill
<1>3. \A p \in W : state[p] = "BLOCKED"
  BY DEF ReadersAtEnd, BlockedFor, IsBlockedFor
<1>4. \A f \in File : \A modes :
          \A e \in EndsIn(state, fds, f, modes) : modes \subseteq Either /\ e[1] \in K => e \in ends
  BY PipeAssumption DEF EndsIn, EndsOf, Either, File, STDERR
<1>5. \A e \in ends : e[1] \in K
  BY DEF EndsOf
<1> HIDE DEF ends, W
<1>6. /\ ProcessTypeOK'
      /\ \A p \in Process : state'[p] \in {"READY", "BLOCKED"}
                              <=> p \notin K /\ state[p] \in {"READY", "BLOCKED"}
  BY <1>2, <1>3, ChangeEffect DEF PipeInv, TypeOK
<1>7. pipe' \in [File -> pipeFile] /\ CountedLess(state, fds, pipe, pipe', ends)
  BY <1>1, <1>2, ClosingEffect
<1>8. TypeOK'
  BY <1>2, <1>6, <1>7 DEF PipeInv, TypeOK
<1>9. \A f \in File : \A modes \in SUBSET Either :
          EndsIn(state', fds, f, modes) = EndsIn(state, fds, f, modes) \ ends
  BY <1>4, <1>5, <1>6 DEF EndsIn
<1>10. CountsFit(state', fds, pipe')
  <2>1. CountsFit(state, fds, pipe)
    BY DEF PipeInv
  <2> QED
    BY <1>7, <1>9, <2>1, FewerEnds
<1>11. KnownFiles(fds, pipe', fileIdToGive)
  BY <1>7 DEF PipeInv, KnownFiles, CountedLess
<1> QED
  BY <1>2, <1>8, <1>10, <1>11 DEF PipeInv

LEMMA EndStep ==
    ASSUME PipeInv, OwnDescriptorsOnly,
           Exit \/ Escape \/ \E p \in Process : KillProcess(p)
    PROVE  PipeInv'
<1>1. nowRunning \in Process /\ \A p \in Process : Live(p) <=> state[p] \in {"READY", "BLOCKED"}
  BY DEF PipeInv, TypeOK, ProcessTypeOK, Live
<1>2. CASE Exit
  <2>1. Live(nowRunning) /\ Kill({nowRunning}) /\ nowRunning' \in Process
    BY <1>1, <1>2 DEF Exit, InUserCode, Asks, OwnDescriptorsOnly, Dispatch
  <2> QED
    BY <1>1, <2>1, KillEffect
<1>3. CASE Escape
  <2> DEFINE K == {p \in Foreground : Live(p)}
  <2>1. K \in SUBSET Process /\ (\A p \in K : Live(p)) /\ Kill(K) /\ nowRunning' \in Process
    BY <1>1, <1>3, ProcessAssumption DEF Escape
  <2> QED
    BY <2>1, KillEffect
<1>4. ASSUME NEW p \in Process, KillProcess(p) PROVE PipeInv'
  <2>1. Live(p) /\ Kill({p}) /\ nowRunning' \in Process
    BY <1>4 DEF KillProcess, Asks, OwnDescriptorsOnly, Dispatch
  <2> QED
    BY <2>1, KillEffect
<1> QED
  BY <1>2, <1>3, <1>4

LEMMA CloseStep ==
    ASSUME PipeInv, DeadMakeNoCalls, NEW fd \in Fd, CloseFd(fd)
    PROVE  PipeInv'
<1> DEFINE ends == {<<nowRunning, fd>>}
           W == ReadersAtEnd(ends)
<1>1. nowRunning \in Process /\ Live(nowRunning)
  BY DEF PipeInv, TypeOK, ProcessTypeOK, Live, CloseFd, InUserCode, Asks, DeadMakeNoCalls
<1>2. /\ pipe' = AfterClosing(ends) /\ Wake(W)
      /\ fds' = [fds EXCEPT ![nowRunning][fd] = Closed]
      /\ UNCHANGED <<fdReplacements, fileIdToGive, call, atEnd, hung>>
  BY DEF CloseFd
<1>3. ends \in SUBSET EndsOf({p \in Process : Live(p)})
  BY <1>1, PipeAssumption DEF EndsOf, CloseFd, Exists, File, STDERR
<1>4. \A p \in W : state[p] = "BLOCKED"
  BY DEF ReadersAtEnd, BlockedFor, IsBlockedFor
<1> HIDE DEF W
<1>5. /\ ProcessTypeOK'
      /\ \A p \in Process : state'[p] \in {"READY", "BLOCKED"}
                              <=> state[p] \in {"READY", "BLOCKED"}
  BY <1>2, <1>4, WakeEffect DEF PipeInv, TypeOK
<1>6. pipe' \in [File -> pipeFile] /\ CountedLess(state, fds, pipe, pipe', ends)
  BY <1>2, <1>3, ClosingEffect
<1>7. fds \in [Process -> [Fd -> fileDescriptor]]
  BY DEF PipeInv, TypeOK
<1>8. Closed \in fileDescriptor /\ Closed.mode = "N" /\ Closed.fileID = EMPTY
  BY DEF Closed, fileDescriptor, EMPTY
<1>9. /\ fds' \in [Process -> [Fd -> fileDescriptor]]
      /\ \A p \in Process, d \in Fd :
            fds'[p][d] = IF p = nowRunning /\ d = fd THEN Closed ELSE fds[p][d]
  BY <1>1, <1>2, <1>7, <1>8
<1>10. TypeOK'
  BY <1>2, <1>5, <1>6, <1>9 DEF PipeInv, TypeOK
<1>11. ASSUME NEW f \in File, NEW modes \in SUBSET Either
       PROVE  EndsIn(state', fds', f, modes) = EndsIn(state, fds, f, modes) \ ends
  <2>1. ASSUME NEW e \in Process \X Fd
        PROVE  e \in EndsIn(state', fds', f, modes)
                 <=> e \in EndsIn(state, fds, f, modes) /\ e # <<nowRunning, fd>>
    <3>1. CASE e = <<nowRunning, fd>>
      <4>1. fds'[e[1]][e[2]] = Closed
        BY <1>1, <1>9, <3>1
      <4> QED
        BY <4>1, <1>8, <3>1 DEF EndsIn, Either
    <3>2. CASE e # <<nowRunning, fd>>
      <4>1. e[1] \in Process /\ e[2] \in Fd /\ ~(e[1] = nowRunning /\ e[2] = fd)
        BY <3>2
      <4>2. fds'[e[1]][e[2]] = fds[e[1]][e[2]]
        BY <1>9, <4>1
      <4> QED
        BY <1>5, <3>2, <4>1, <4>2 DEF EndsIn
    <3> QED
      BY <3>1, <3>2
  <2> QED
    BY <2>1 DEF EndsIn
<1>12. CountsFit(state', fds', pipe')
  <2>1. CountsFit(state, fds, pipe)
    BY DEF PipeInv
  <2> HIDE DEF ends
  <2> QED
    BY <1>6, <1>11, <2>1, FewerEnds
<1>13. KnownFiles(fds', pipe', fileIdToGive)
  <2>1. EMPTY <= STDERR /\ EMPTY < fileIdToGive
    BY PipeAssumption DEF PipeInv, TypeOK, EMPTY, STDERR
  <2> QED
    BY <1>6, <1>8, <1>9, <2>1 DEF PipeInv, KnownFiles, CountedLess
<1> QED
  BY <1>2, <1>10, <1>12, <1>13 DEF PipeInv

LEMMA RevertStep ==
    ASSUME PipeInv, DeadMakeNoCalls, RevertFdReplacements
    PROVE  PipeInv'
<1> DEFINE ends == EndsOf({nowRunning}) \cap ({nowRunning} \X Replaced)
           list == fdReplacements[nowRunning]
           standard(fd) == [fileID |-> fd, mode |-> OldestMode(fd)]
<1>1. nowRunning \in Process /\ Live(nowRunning)
  BY DEF PipeInv, TypeOK, ProcessTypeOK, Live, RevertFdReplacements, InUserCode, Asks,
         DeadMakeNoCalls
<1>2. /\ pipe' = Discounted(ends)
      /\ fds' = [fds EXCEPT ![nowRunning] =
                    [fd \in Fd |-> IF fd \in Replaced THEN standard(fd)
                                                      ELSE fds[nowRunning][fd]]]
      /\ fdReplacements' = [fdReplacements EXCEPT ![nowRunning] = <<>>]
      /\ UNCHANGED <<processVars, fileIdToGive, call, atEnd, hung>>
  BY DEF RevertFdReplacements
<1>3. ends \in SUBSET EndsOf({p \in Process : Live(p)})
  BY <1>1 DEF EndsOf
<1>4. pipe' \in [File -> pipeFile] /\ CountedLess(state, fds, pipe, pipe', ends)
      /\ \A f \in File : pipe'[f].name = pipe[f].name
  BY <1>2, <1>3, DiscountEffect
<1>5. list \in Seq(fdReplacement)
  BY <1>1 DEF PipeInv, TypeOK
<1>6. \A fd \in Replaced : fd \in 0 .. STDERR
  <2>1. \A i \in DOMAIN list : list[i] \in fdReplacement
    BY <1>5
  <2>2. \A i \in DOMAIN list : list[i].index \in 0 .. STDERR
    BY <2>1 DEF fdReplacement
  <2> QED
    BY <2>2 DEF Replaced
<1>7. ASSUME NEW fd \in Replaced
      PROVE  OldestMode(fd) \in {"R", "W", "N"}
  <2> DEFINE I == {i \in DOMAIN list : list[i].index = fd}
  <2>1. /\ Len(list) \in Nat /\ DOMAIN list = 1 .. Len(list)
        /\ \A i \in DOMAIN list : list[i] \in fdReplacement
    BY <1>5
  <2>2. I \in SUBSET Nat /\ I # {} /\ \A i \in I : i <= Len(list)
    BY <2>1 DEF Replaced
  <2>3. Max(I) \in I
    <3> HIDE DEF I
    <3> QED
      BY <2>1, <2>2, MaxProperties
  <2>4. OldestMode(fd) = list[Max(I)].lostMode
    BY DEF OldestMode
  <2> QED
    BY <2>1, <2>3, <2>4 DEF fdReplacement
<1>8. \A fd \in Replaced :
          standard(fd) \in fileDescriptor /\ standard(fd).fileID = fd /\ fd <= STDERR
  BY <1>6, <1>7 DEF fileDescriptor, STDERR
<1>9. fds \in [Process -> [Fd -> fileDescriptor]]
  BY DEF PipeInv, TypeOK
<1> HIDE DEF standard
<1>10. /\ fds' \in [Process -> [Fd -> fileDescriptor]]
       /\ \A p \in Process, fd \in Fd :
             fds'[p][fd] = IF p = nowRunning /\ fd \in Replaced THEN standard(fd)
                                                               ELSE fds[p][fd]
  BY <1>1, <1>2, <1>8, <1>9
<1>11. TypeOK'
  <2>1. <<>> \in Seq(fdReplacement)
    OBVIOUS
  <2>2. fdReplacements' \in [Process -> Seq(fdReplacement)]
    BY <1>2, <2>1 DEF PipeInv, TypeOK
  <2> QED
    BY <1>2, <1>4, <1>10, <2>2 DEF PipeInv, TypeOK, ProcessTypeOK, processVars
<1>12. ASSUME NEW f \in File, NEW modes \in SUBSET Either
       PROVE  EndsIn(state, fds', f, modes) = EndsIn(state, fds, f, modes) \ ends
  <2>1. f > STDERR
    BY PipeAssumption DEF File, STDERR
  <2>2. ASSUME NEW p \in Process, NEW fd \in Fd
        PROVE  <<p, fd>> \in EndsIn(state, fds', f, modes)
                 <=> <<p, fd>> \in EndsIn(state, fds, f, modes) /\ <<p, fd>> \notin ends
    <3>1. CASE p = nowRunning /\ fd \in Replaced
      <4>1. fds'[p][fd].fileID <= STDERR /\ fds'[p][fd].fileID \in Int
        BY <1>8, <1>10, <3>1 DEF fileDescriptor
      <4>2. <<p, fd>> \notin EndsIn(state, fds', f, modes)
        BY <2>1, <4>1 DEF EndsIn, STDERR, File
      <4>3. <<p, fd>> \in EndsIn(state, fds, f, modes) => <<p, fd>> \in ends
        BY <2>1, <3>1 DEF EndsIn, EndsOf, Either
      <4> QED
        BY <4>2, <4>3
    <3>2. CASE ~(p = nowRunning /\ fd \in Replaced)
      <4>1. fds'[p][fd] = fds[p][fd]
        BY <1>10, <3>2
      <4>2. <<p, fd>> \notin ends
        BY <3>2
      <4> QED
        BY <4>1, <4>2 DEF EndsIn
    <3> QED
      BY <3>1, <3>2
  <2>3. \A e \in Process \X Fd :
            e \in EndsIn(state, fds', f, modes)
              <=> e \in EndsIn(state, fds, f, modes) /\ e \notin ends
    <3> HIDE DEF ends
    <3> QED
      BY <2>2
  <2> QED
    BY <2>3 DEF EndsIn
<1>13. CountsFit(state, fds', pipe')
  <2>1. CountsFit(state, fds, pipe)
    BY DEF PipeInv
  <2> HIDE DEF ends
  <2> QED
    BY <1>4, <1>12, <2>1, FewerEnds
<1>14. KnownFiles(fds', pipe', fileIdToGive)
  <2>1. STDERR < fileIdToGive /\ fileIdToGive \in Int
    BY DEF PipeInv, TypeOK, STDERR
  <2>2. \A fd \in Replaced : standard(fd).fileID < fileIdToGive
    BY <1>6, <1>8, <2>1 DEF STDERR
  <2> QED
    BY <1>4, <1>8, <1>10, <2>2 DEF PipeInv, KnownFiles
<1> QED
  BY <1>2, <1>11, <1>13, <1>14 DEF PipeInv, processVars

\* A process starts with a copy of a table.
LEMMA StartEffect ==
    ASSUME PipeInv, NEW p \in Process, NEW table \in [Fd -> fileDescriptor],
           \A fd \in Fd : /\ table[fd].fileID < fileIdToGive
                          /\ table[fd].mode = "N" => table[fd].fileID <= STDERR,
           Start(p, table)
    PROVE  PipeInv' /\ \A f \in File : pipe'[f].name = pipe[f].name
<1> DEFINE copies(f, modes) == {fd \in Fd : table[fd].fileID = f /\ table[fd].mode \in modes}
<1>1. /\ state[p] = "NONE" /\ state' = [state EXCEPT ![p] = "READY"]
      /\ fds' = [fds EXCEPT ![p] = table] /\ pipe' = CountedAgain(table)
      /\ UNCHANGED <<blockedReason, nowRunning, fdReplacements, fileIdToGive, call, atEnd, hung>>
  BY DEF Start
<1>2. /\ fds \in [Process -> [Fd -> fileDescriptor]]
      /\ state \in [Process -> {"NONE", "READY", "BLOCKED", "FINISHED"}]
      /\ pipe \in [File -> pipeFile]
  BY DEF PipeInv, TypeOK, ProcessTypeOK
<1>3. /\ fds' \in [Process -> [Fd -> fileDescriptor]]
      /\ \A q \in Process : fds'[q] = IF q = p THEN table ELSE fds[q]
      /\ \A q \in Process : state'[q] = IF q = p THEN "READY" ELSE state[q]
  BY <1>1, <1>2
<1>4. ASSUME NEW f, NEW modes
      PROVE  IsFiniteSet(copies(f, modes)) /\ Cardinality(copies(f, modes)) \in Nat
  <2>1. IsFiniteSet(Fd)
    BY FS_Interval, PipeAssumption DEF Fd
  <2> QED
    BY <2>1, FS_Subset, FS_CardinalityType
<1>5. ASSUME NEW f \in File, NEW modes
      PROVE  Cardinality(EndsIn(state', fds', f, modes)) =
                Cardinality(EndsIn(state, fds, f, modes)) + Cardinality(copies(f, modes))
  <2> DEFINE S == EndsIn(state, fds, f, modes)
             T == {p} \X copies(f, modes)
  <2>1. EndsIn(state', fds', f, modes) = S \cup T
    BY <1>1, <1>3 DEF EndsIn
  <2>2. S \cap T = {}
    BY <1>1 DEF EndsIn
  <2>3. IsFiniteSet(S) /\ Cardinality(S) \in Nat
    BY EndsFinite
  <2>4. IsFiniteSet({p}) /\ Cardinality({p}) = 1
    BY FS_Singleton
  <2> HIDE DEF S, copies
  <2>5. IsFiniteSet(T) /\ Cardinality(T) = 1 * Cardinality(copies(f, modes))
    BY <1>4, <2>4, FS_Product
  <2> HIDE DEF T
  <2>6. Cardinality(S \cup T) = Cardinality(S) + Cardinality(T) - Cardinality({})
    BY <2>2, <2>3, <2>5, FS_Union
  <2>7. Cardinality({}) = 0
    BY FS_EmptySet
  <2>8. Cardinality(copies(f, modes)) \in Nat
    BY <1>4
  <2> QED
    BY <2>1, <2>3, <2>5, <2>6, <2>7, <2>8 DEF S
<1>6. ASSUME NEW f \in File
      PROVE  /\ pipe'[f] \in pipeFile /\ pipe'[f].name = pipe[f].name
             /\ pipe[f].name # NoName =>
                  /\ pipe'[f].currentOpenCount =
                        pipe[f].currentOpenCount + Cardinality(copies(f, Either))
                  /\ pipe'[f].writeOpenCount =
                        pipe[f].writeOpenCount + Cardinality(copies(f, Writing))
  <2>1. CASE ~Exists(f)
    <3>1. pipe'[f] = pipe[f]
      BY <1>1, <2>1 DEF CountedAgain
    <3> QED
      BY <1>2, <2>1, <3>1 DEF Exists
  <2>2. CASE Exists(f)
    <3>1. /\ {fd \in Fd : table[fd].fileID = f /\ table[fd].mode # "N"} = copies(f, Either)
          /\ {fd \in copies(f, Either) : table[fd].mode = "W"} = copies(f, Writing)
      BY DEF fileDescriptor, Either, Writing
    <3>2. pipe'[f] = Counted(pipe[f], Cardinality(copies(f, Either)),
                                      Cardinality(copies(f, Writing)))
      <4> HIDE DEF copies
      <4> QED
        BY <1>1, <2>2, <3>1 DEF CountedAgain
    <3>3. /\ pipe[f] \in pipeFile
          /\ pipe[f].currentOpenCount \in Nat /\ pipe[f].writeOpenCount \in Nat
      BY <1>2 DEF pipeFile
    <3>4. Cardinality(copies(f, Either)) \in Nat /\ Cardinality(copies(f, Writing)) \in Nat
      BY <1>4
    <3> HIDE DEF copies
    <3>5. /\ pipe[f].currentOpenCount + Cardinality(copies(f, Either)) >= 0
          /\ pipe[f].writeOpenCount + Cardinality(copies(f, Writing)) >= 0
      BY <3>3, <3>4
    <3> QED
      BY <3>2, <3>3, <3>4, <3>5, CountedRecord
  <2> QED
    BY <2>1, <2>2
<1>7. pipe' \in [File -> pipeFile]
  BY <1>1, <1>6 DEF CountedAgain
<1>8. TypeOK'
  <2>1. ProcessTypeOK'
    BY <1>1, <1>2 DEF PipeInv, TypeOK, ProcessTypeOK
  <2> QED
    BY <1>1, <1>3, <1>7, <2>1 DEF PipeInv, TypeOK
<1>9. CountsFit(state', fds', pipe')
  <2> HIDE DEF copies
  <2> QED
    BY <1>5, <1>6 DEF PipeInv, CountsFit
<1>10. KnownFiles(fds', pipe', fileIdToGive)
  BY <1>3, <1>6 DEF PipeInv, KnownFiles
<1> QED
  BY <1>1, <1>6, <1>8, <1>9, <1>10 DEF PipeInv

LEMMA DefaultTable ==
    DefaultFds \in [Fd -> fileDescriptor] /\ \A fd \in Fd : DefaultFds[fd].fileID <= STDERR
<1>1. \A fd \in Fd : /\ fd = 0 => DefaultFds[fd] = [fileID |-> 0, mode |-> "R"]
                     /\ fd \in {1, 2} => DefaultFds[fd] = [fileID |-> fd, mode |-> "W"]
                     /\ fd \notin {0, 1, 2} => DefaultFds[fd] = Closed
  BY DEF DefaultFds
<1>2. Closed \in fileDescriptor /\ Closed.fileID = EMPTY
  BY DEF Closed, fileDescriptor, EMPTY
<1>3. /\ [fileID |-> 0, mode |-> "R"] \in fileDescriptor
      /\ [fileID |-> 0, mode |-> "R"].fileID = 0
  BY DEF fileDescriptor
<1>4. /\ [fileID |-> 1, mode |-> "W"] \in fileDescriptor
      /\ [fileID |-> 1, mode |-> "W"].fileID = 1
  BY DEF fileDescriptor
<1>5. /\ [fileID |-> 2, mode |-> "W"] \in fileDescriptor
      /\ [fileID |-> 2, mode |-> "W"].fileID = 2
  BY DEF fileDescriptor
<1>6. EMPTY <= STDERR /\ 0 <= STDERR /\ 1 <= STDERR /\ 2 <= STDERR
  BY DEF EMPTY, STDERR
<1>7. \A fd \in Fd : DefaultFds[fd] \in fileDescriptor /\ DefaultFds[fd].fileID <= STDERR
  BY <1>1, <1>2, <1>3, <1>4, <1>5, <1>6
<1> QED
  BY <1>7 DEF DefaultFds

LEMMA StartStep ==
    ASSUME PipeInv, NEW p \in Process, StartChild(p) \/ StartParent(p)
    PROVE  PipeInv' /\ \A f \in File : pipe'[f].name = pipe[f].name
<1>1. fds \in [Process -> [Fd -> fileDescriptor]] /\ nowRunning \in Process
  BY DEF PipeInv, TypeOK, ProcessTypeOK
<1>2. ASSUME NEW q \in Process, Start(p, fds[q])
      PROVE  PipeInv' /\ \A f \in File : pipe'[f].name = pipe[f].name
  <2>1. fds[q] \in [Fd -> fileDescriptor]
    BY <1>1
  <2>2. \A fd \in Fd : /\ fds[q][fd].fileID < fileIdToGive
                       /\ fds[q][fd].mode = "N" => fds[q][fd].fileID <= STDERR
    BY DEF PipeInv, KnownFiles
  <2> QED
    BY <1>2, <2>1, <2>2, StartEffect
<1>3. ASSUME Start(p, DefaultFds)
      PROVE  PipeInv' /\ \A f \in File : pipe'[f].name = pipe[f].name
  <2>1. /\ DefaultFds \in [Fd -> fileDescriptor]
        /\ \A fd \in Fd : DefaultFds[fd].fileID <= STDERR
    BY DefaultTable
  <2>2. fileIdToGive \in Int /\ fileIdToGive > STDERR
    BY DEF PipeInv, TypeOK, STDERR
  <2>3. \A fd \in Fd : DefaultFds[fd].fileID < fileIdToGive
    BY <2>1, <2>2 DEF fileDescriptor, STDERR
  <2> QED
    BY <1>3, <2>1, <2>3, StartEffect
<1> QED
  BY <1>1, <1>2, <1>3 DEF StartChild, StartParent

\* The indices of a sequence.
LEMMA SequenceIndices ==
    ASSUME NEW S, NEW s \in Seq(S)
    PROVE  Len(s) \in Nat /\ \A j \in DOMAIN s : j \in Nat /\ j <= Len(s) /\ s[j] \in S
<1> DEFINE n == Len(s)
<1>1. n \in Nat /\ s \in [1 .. n -> S]
  BY LenProperties
<1> HIDE DEF n
<1>2. \A j \in DOMAIN s : j \in Nat /\ j <= n /\ s[j] \in S
  BY <1>1
<1> QED
  BY <1>1, <1>2 DEF n

\* The ring with a string in it.
LEMMA FilledRing ==
    ASSUME NEW ring \in [0 .. MAX_PIPE_BUFFER_SIZE - 1 -> Char \cup {""}], NEW w \in Nat,
           NEW s \in Seq(Char)
    PROVE  Filled(ring, w, s) \in [0 .. MAX_PIPE_BUFFER_SIZE - 1 -> Char \cup {""}]
<1> DEFINE at(i) == {j \in DOMAIN s : (w + j - 1) % MAX_PIPE_BUFFER_SIZE = i}
<1>1. Len(s) \in Nat /\ \A j \in DOMAIN s : j \in Nat /\ j <= Len(s) /\ s[j] \in Char
  BY SequenceIndices
<1>2. ASSUME NEW i, at(i) # {}
      PROVE  s[Max(at(i))] \in Char
  <2>1. at(i) \subseteq DOMAIN s
    OBVIOUS
  <2> HIDE DEF at
  <2>2. at(i) \in SUBSET Nat /\ \A j \in at(i) : j <= Len(s)
    BY <1>1, <2>1
  <2>3. Max(at(i)) \in at(i)
    BY <1>1, <1>2, <2>2, MaxProperties
  <2> QED
    BY <1>1, <2>1, <2>3
<1>3. Filled(ring, w, s) = [i \in DOMAIN ring |-> IF at(i) = {} THEN ring[i] ELSE s[Max(at(i))]]
  BY DEF Filled
<1> HIDE DEF at
<1> QED
  BY <1>2, <1>3

LEMMA AppendedRecord ==
    ASSUME NEW r \in pipeFile, NEW s \in Seq(Char)
    PROVE  /\ Appended(r, s) \in pipeFile /\ Appended(r, s).name = r.name
           /\ Appended(r, s).currentOpenCount = r.currentOpenCount
           /\ Appended(r, s).writeOpenCount = r.writeOpenCount
<1> DEFINE buffers == [0 .. MAX_PIPE_BUFFER_SIZE - 1 -> Char \cup {""}]
           records == [name : Name \cup {NoName}, buffer : buffers, readingIndex : Nat,
                       writingIndex : Nat, currentOpenCount : Nat, writeOpenCount : Nat]
           b == Filled(r.buffer, r.writingIndex, s)
           n == r.writingIndex + Len(s)
           new == Appended(r, s)
<1>1. pipeFile = records
  BY DEF pipeFile
<1>2. r.writingIndex \in Nat /\ Len(s) \in Nat
  BY LenProperties DEF pipeFile
<1>3. r.buffer \in buffers
  BY DEF pipeFile
<1>4. b \in buffers
  BY <1>2, <1>3, FilledRing
<1> HIDE DEF buffers, b
<1>5. n \in Nat
  BY <1>2
<1> HIDE DEF n
<1>6. r \in records
  BY <1>1
<1>7. PICK t : t = [r EXCEPT !.writingIndex = n] /\ new = [t EXCEPT !.buffer = b]
  BY <1>6, Zenon DEF Appended, b, n
<1> HIDE DEF new
<1>8. /\ t \in records /\ t.name = r.name /\ t.writeOpenCount = r.writeOpenCount
      /\ t.currentOpenCount = r.currentOpenCount
  BY <1>5, <1>6, <1>7
<1>9. /\ new \in records /\ new.name = r.name
      /\ new.currentOpenCount = r.currentOpenCount /\ new.writeOpenCount = r.writeOpenCount
  BY <1>4, <1>7, <1>8
<1> QED
  BY <1>1, <1>9 DEF new

\* A step that changes what is in the pipes keeps the rest of them.
SameEnds(files) ==
    /\ files \in [File -> pipeFile]
    /\ \A f \in File : /\ files[f].name = pipe[f].name
                       /\ files[f].currentOpenCount = pipe[f].currentOpenCount
                       /\ files[f].writeOpenCount = pipe[f].writeOpenCount

LEMMA StoredEffect ==
    ASSUME PipeInv, NEW f \in File, NEW s \in Seq(Char)
    PROVE  SameEnds(Stored(f, s))
<1>1. pipe \in [File -> pipeFile] /\ pipe[f] \in pipeFile
  BY DEF PipeInv, TypeOK
<1>2. /\ Appended(pipe[f], s) \in pipeFile /\ Appended(pipe[f], s).name = pipe[f].name
      /\ Appended(pipe[f], s).currentOpenCount = pipe[f].currentOpenCount
      /\ Appended(pipe[f], s).writeOpenCount = pipe[f].writeOpenCount
  BY <1>1, AppendedRecord
<1> QED
  BY <1>1, <1>2 DEF SameEnds, Stored

LEMMA DrainedEffect ==
    ASSUME PipeInv, NEW f \in File, NEW k \in Nat
    PROVE  SameEnds([pipe EXCEPT ![f].readingIndex = @ + k])
<1> DEFINE new == [pipe[f] EXCEPT !.readingIndex = @ + k]
<1>1. pipe \in [File -> pipeFile] /\ pipe[f] \in pipeFile
  BY DEF PipeInv, TypeOK
<1>2. [pipe EXCEPT ![f].readingIndex = @ + k] = [pipe EXCEPT ![f] = new]
  BY Zenon
<1>3. /\ new \in pipeFile /\ new.name = pipe[f].name
      /\ new.currentOpenCount = pipe[f].currentOpenCount
      /\ new.writeOpenCount = pipe[f].writeOpenCount
  <2> DEFINE buffers == [0 .. MAX_PIPE_BUFFER_SIZE - 1 -> Char \cup {""}]
             records == [name : Name \cup {NoName}, buffer : buffers, readingIndex : Nat,
                         writingIndex : Nat, currentOpenCount : Nat, writeOpenCount : Nat]
  <2>1. pipeFile = records
    BY DEF pipeFile
  <2> HIDE DEF buffers
  <2>2. pipe[f] \in records
    BY <1>1, <2>1
  <2>3. pipe[f].readingIndex + k \in Nat
    BY <2>2
  <2>4. /\ new \in records /\ new.name = pipe[f].name
        /\ new.currentOpenCount = pipe[f].currentOpenCount
        /\ new.writeOpenCount = pipe[f].writeOpenCount
    BY <2>2, <2>3
  <2> QED
    BY <2>1, <2>4
<1> HIDE DEF new
<1> QED
  BY <1>1, <1>2, <1>3 DEF SameEnds

\* The least of two numbers.
LEMMA MinOfTwo ==
    ASSUME NEW a \in Nat, NEW b \in Nat
    PROVE  Min({a, b}) \in Nat /\ Min({a, b}) <= a /\ Min({a, b}) <= b
<1>1. {a, b} \in SUBSET Nat /\ {a, b} # {}
  OBVIOUS
<1>2. Min({a, b}) \in {a, b} /\ \A y \in {a, b} : Min({a, b}) <= y
  BY <1>1, MinProperties
<1> QED
  BY <1>2

\* The distance of the indices, modulo the size of the ring.
LEMMA DistanceIsNatural ==
    ASSUME PipeInv, NEW f \in File, NEW n \in Nat
    PROVE  Available(f) \in Nat /\ Fits(Pending(f) + n) \in Nat
<1>1. pipe[f].writingIndex \in Nat /\ pipe[f].readingIndex \in Nat
  BY DEF PipeInv, TypeOK, pipeFile
<1>2. Pending(f) \in Int
  BY <1>1 DEF Pending
<1>3. MAX_PIPE_BUFFER_SIZE \in Nat /\ MAX_PIPE_BUFFER_SIZE > 1
  BY PipeAssumption
<1> QED
  BY <1>2, <1>3 DEF Available, Fits

LEMMA WriteOnStep ==
    ASSUME PipeInv, NEW f \in File, NEW s \in Seq(Char), NEW sure \in Nat, WriteOn(f, s, sure)
    PROVE  PipeInv' /\ SameEnds(pipe')
<1> DEFINE k == IF MayBlock THEN Min({Len(s), sure + Fits(Pending(f) + sure)}) ELSE Len(s)
<1>1. Len(s) \in Nat /\ \A j \in DOMAIN s : j \in Nat /\ j <= Len(s) /\ s[j] \in Char
  BY SequenceIndices
<1>2. k \in Nat /\ k <= Len(s) /\ (k < Len(s) => MayBlock)
  <2>1. sure + Fits(Pending(f) + sure) \in Nat
    <3>1. Fits(Pending(f) + sure) \in Nat
      BY DistanceIsNatural, Zenon
    <3> QED
      BY <3>1
  <2>2. CASE MayBlock
    BY <1>1, <2>1, <2>2, MinOfTwo
  <2>3. CASE ~MayBlock
    BY <1>1, <2>3
  <2> QED
    BY <2>2, <2>3
<1>3. /\ pipe' = Stored(f, SubSeq(s, 1, k))
      /\ UNCHANGED <<fds, fdReplacements, fileIdToGive, atEnd, hung>>
  BY DEF WriteOn
<1>4. \/ /\ k = Len(s) /\ WakeReaders(f)
         /\ call' = [call EXCEPT ![nowRunning] = NoCall]
      \/ /\ k < Len(s) /\ BlockRunning(WriteReason(f))
         /\ call' = [call EXCEPT ![nowRunning] =
                        [op |-> "write", file |-> f, rest |-> SubSeq(s, k + 1, Len(s)),
                         left |-> 0]]
  BY DEF WriteOn
<1> HIDE DEF k
<1>5. SubSeq(s, 1, k) \in Seq(Char) /\ SubSeq(s, k + 1, Len(s)) \in Seq(Char)
  <2>1. DOMAIN s = 1 .. Len(s) /\ \A j \in 1 .. Len(s) : s[j] \in Char
    BY LenProperties, ElementOfSeq
  <2>2. /\ \A j \in 1 .. k : s[j] \in Char
        /\ \A j \in k + 1 .. Len(s) : s[j] \in Char
    BY <1>1, <1>2, <2>1
  <2> QED
    BY <1>1, <1>2, <2>2, SubSeqProperties
<1>6. SameEnds(pipe')
  BY <1>3, <1>5, StoredEffect
<1>7. ProcessTypeOK /\ call \in [Process -> suspendedCall] /\ NoCall \in suspendedCall
  BY DEF PipeInv, TypeOK, suspendedCall
<1>8. /\ ProcessTypeOK' /\ call' \in [Process -> suspendedCall]
      /\ \A p \in Process : state'[p] \in {"READY", "BLOCKED"}
                              <=> state[p] \in {"READY", "BLOCKED"}
  <2>1. CASE WakeReaders(f) /\ call' = [call EXCEPT ![nowRunning] = NoCall]
    <3>1. \A p \in BlockedFor(ReadReason(f)) : state[p] = "BLOCKED"
      BY DEF BlockedFor, IsBlockedFor
    <3>2. Wake(BlockedFor(ReadReason(f)))
      BY <2>1 DEF WakeReaders
    <3> QED
      BY <1>7, <2>1, <3>1, <3>2, WakeEffect
  <2>2. CASE /\ k < Len(s) /\ BlockRunning(WriteReason(f))
             /\ call' = [call EXCEPT ![nowRunning] =
                            [op |-> "write", file |-> f, rest |-> SubSeq(s, k + 1, Len(s)),
                             left |-> 0]]
    <3>1. [op |-> "write", file |-> f, rest |-> SubSeq(s, k + 1, Len(s)), left |-> 0]
             \in suspendedCall
      BY <1>5 DEF suspendedCall
    <3>2. call' \in [Process -> suspendedCall]
      BY <1>7, <2>2, <3>1
    <3> QED
      BY <1>2, <1>7, <2>2, <3>2, BlockEffect
  <2> QED
    BY <1>4, <2>1, <2>2
<1>9. TypeOK'
  BY <1>3, <1>6, <1>8 DEF PipeInv, TypeOK, SameEnds
<1> QED
  BY <1>3, <1>6, <1>8, <1>9, QuietStep DEF SameEnds

LEMMA ReadOnStep ==
    ASSUME PipeInv, NEW f \in File, NEW n \in Nat, ReadOn(f, n)
    PROVE  PipeInv' /\ SameEnds(pipe')
<1> DEFINE k == Min({n, Available(f)})
           on == [op |-> "read", file |-> f, rest |-> <<>>, left |-> n - k]
<1>1. k \in Nat /\ k <= n
  <2>1. Available(f) \in Nat
    BY DistanceIsNatural
  <2> QED
    BY <2>1, MinOfTwo
<1>2. /\ pipe' = [pipe EXCEPT ![f].readingIndex = @ + k]
      /\ UNCHANGED <<fds, fdReplacements, fileIdToGive>>
  BY DEF ReadOn
<1>3. \/ /\ WakeWriters(f)
         /\ call' = [call EXCEPT ![nowRunning] = NoCall]
         /\ atEnd' = [atEnd EXCEPT ![nowRunning] = FALSE]
         /\ UNCHANGED hung
      \/ /\ call' = [call EXCEPT ![nowRunning] = NoCall]
         /\ atEnd' = [atEnd EXCEPT ![nowRunning] = TRUE]
         /\ UNCHANGED <<processVars, hung>>
      \/ /\ IF MayBlock THEN BlockRunning(ReadReason(f)) ELSE UNCHANGED processVars
         /\ call' = [call EXCEPT ![nowRunning] = on]
         /\ hung' = ~MayBlock
         /\ UNCHANGED atEnd
  BY DEF ReadOn
<1> HIDE DEF k
<1>4. SameEnds(pipe')
  BY <1>1, <1>2, DrainedEffect
<1>5. /\ ProcessTypeOK /\ call \in [Process -> suspendedCall] /\ NoCall \in suspendedCall
      /\ atEnd \in [Process -> BOOLEAN] /\ hung \in BOOLEAN
  BY DEF PipeInv, TypeOK, suspendedCall
<1>6. on \in suspendedCall
  <2>1. n - k \in Nat /\ <<>> \in Seq(Char)
    BY <1>1
  <2> QED
    BY <2>1 DEF suspendedCall
<1> HIDE DEF on
<1>7. atEnd' \in [Process -> BOOLEAN] /\ hung' \in BOOLEAN
  BY <1>3, <1>5
<1>8. call' \in [Process -> suspendedCall]
  BY <1>3, <1>5, <1>6
<1>9. /\ ProcessTypeOK'
      /\ \A p \in Process : state'[p] \in {"READY", "BLOCKED"}
                              <=> state[p] \in {"READY", "BLOCKED"}
  <2>1. CASE WakeWriters(f)
    <3>1. \A p \in BlockedFor(WriteReason(f)) : state[p] = "BLOCKED"
      BY DEF BlockedFor, IsBlockedFor
    <3>2. Wake(BlockedFor(WriteReason(f)))
      BY <2>1 DEF WakeWriters
    <3> QED
      BY <1>5, <3>1, <3>2, WakeEffect
  <2>2. CASE UNCHANGED processVars
    BY <1>5, <2>2 DEF processVars, ProcessTypeOK
  <2>3. CASE MayBlock /\ BlockRunning(ReadReason(f))
    BY <1>5, <2>3, BlockEffect
  <2> QED
    BY <1>3, <2>1, <2>2, <2>3
<1>10. TypeOK'
  BY <1>2, <1>4, <1>7, <1>8, <1>9 DEF PipeInv, TypeOK, SameEnds
<1> QED
  BY <1>2, <1>4, <1>9, <1>10, QuietStep DEF SameEnds

\* The calls that are suspended are on files.
LEMMA SuspendedCall ==
    ASSUME PipeInv, call[nowRunning].op \in {"read", "write"}
    PROVE  /\ call[nowRunning].file \in File /\ call[nowRunning].rest \in Seq(Char)
           /\ call[nowRunning].left \in Nat
<1>1. call[nowRunning] \in suspendedCall
  BY DEF PipeInv, TypeOK, ProcessTypeOK
<1>2. call[nowRunning] # NoCall
  BY DEF NoCall
<1>3. call[nowRunning] # [NoCall EXCEPT !.op = "readEmpty"]
  BY DEF NoCall
<1> QED
  BY <1>1, <1>2, <1>3 DEF suspendedCall

LEMMA DataStep ==
    ASSUME PipeInv,
           \/ ResumeWrite \/ ResumeRead
           \/ \E fd \in Fd : \/ \E s \in Text : Write(fd, s)
                             \/ \E n \in 1 .. MaxRead : Read(fd, n)
    PROVE  PipeInv'
<1>1. CASE ResumeWrite
  <2>1. WriteOn(call[nowRunning].file, call[nowRunning].rest, 1)
    BY <1>1 DEF ResumeWrite
  <2>2. call[nowRunning].op \in {"read", "write"}
    BY <1>1 DEF ResumeWrite
  <2> QED
    BY <2>1, <2>2, SuspendedCall, WriteOnStep
<1>2. CASE ResumeRead
  <2>1. ReadOn(call[nowRunning].file, call[nowRunning].left)
    BY <1>2 DEF ResumeRead
  <2>2. call[nowRunning].op \in {"read", "write"}
    BY <1>2 DEF ResumeRead
  <2> QED
    BY <2>1, <2>2, SuspendedCall, ReadOnStep
<1>3. ASSUME NEW fd \in Fd, NEW s \in Text, Write(fd, s)
      PROVE  PipeInv'
  <2> DEFINE f == fds[nowRunning][fd].fileID
  <2>1. f \in File /\ WriteOn(f, s, 0)
    BY <1>3 DEF Write, Exists
  <2>2. s \in Seq(Char)
    BY PipeAssumption
  <2> QED
    BY <2>1, <2>2, WriteOnStep
<1>4. ASSUME NEW fd \in Fd, NEW n \in 1 .. MaxRead, Read(fd, n)
      PROVE  PipeInv'
  <2> DEFINE f == fds[nowRunning][fd].fileID
  <2>1. f \in File /\ ReadOn(f, n)
    BY <1>4 DEF Read, Exists
  <2>2. n \in Nat
    BY PipeAssumption
  <2> QED
    BY <2>1, <2>2, ReadOnStep
<1> QED
  BY <1>1, <1>2, <1>3, <1>4

-----------------------------------------------------------------------------
(* The theorems.                                                           *)

LEMMA PipeInvInit == Init => PipeInv
<1> SUFFICES ASSUME Init PROVE PipeInv
  OBVIOUS
<1>1. DefaultFds \in [Fd -> fileDescriptor] /\ \A fd \in Fd : DefaultFds[fd].fileID <= STDERR
  BY DefaultTable
<1>2. TypeOK
  <2>1. /\ STDERR + 1 \in STDERR + 1 .. MaxFileId + 1
        /\ <<>> \in Seq(fdReplacement)
    BY PipeAssumption DEF STDERR
  <2>2. NoCall \in suspendedCall
    BY DEF suspendedCall
  <2>3. ProcessTypeOK
    BY ProcessAssumption DEF Init, ProcessTypeOK
  <2> QED
    BY <1>1, <2>1, <2>2, <2>3, NoPipeType DEF Init, TypeOK
<1>3. \A f \in File : pipe[f].name = NoName
  BY NoPipeType DEF Init
<1>4. \A p \in Process, fd \in Fd : fds[p][fd].fileID < fileIdToGive
  <2>1. \A fd \in Fd : DefaultFds[fd].fileID \in Int
    BY <1>1 DEF fileDescriptor
  <2> QED
    BY <1>1, <2>1 DEF Init, STDERR
<1> QED
  BY <1>1, <1>2, <1>3, <1>4 DEF PipeInv, CountsFit, KnownFiles, Init

\* Every step of the pipes keeps the invariant.
LEMMA PipeInvStep ==
    ASSUME PipeInv, OwnDescriptorsOnly, [Next]_pipeVars
    PROVE  PipeInv'
<1>0. DeadMakeNoCalls
  BY DEF OwnDescriptorsOnly, DeadMakeNoCalls
<1>1. CASE UNCHANGED pipeVars
  <2>1. TypeOK'
    BY <1>1 DEF pipeVars, processVars, fileVars, PipeInv, TypeOK, ProcessTypeOK
  <2> QED
    BY <1>1, <2>1, QuietStep DEF pipeVars, processVars, fileVars
<1>2. CASE \E n \in Name : Mkpipe(n) \/ \E mode \in {"R", "W"} : Open(n, mode)
  BY <1>0, <1>2, MkpipeStep, OpenStep
<1>3. CASE \E fromFd \in DupSource, toFd \in DupTarget : Dup2(fromFd, toFd)
  <2>1. PICK fromFd \in Fd, toFd \in 0 .. STDERR : Dup2(fromFd, toFd)
    BY <1>3, PipeAssumption
  <2>2. fds[nowRunning][toFd].fileID <= STDERR
    BY <2>1 DEF Dup2, Asks, OwnDescriptorsOnly
  <2> QED
    BY <1>0, <2>1, <2>2, Dup2Step
<1>4. CASE \E fd \in Fd : CloseFd(fd) \/ ReadEmpty(fd)
  BY <1>0, <1>4, CloseStep, ReadEmptyStep
<1>5. CASE \/ ResumeWrite \/ ResumeRead
           \/ \E fd \in Fd : \/ \E s \in Text : Write(fd, s)
                             \/ \E n \in 1 .. MaxRead : Read(fd, n)
  BY <1>5, DataStep
<1>6. CASE RevertFdReplacements
  BY <1>0, <1>6, RevertStep
<1>7. CASE \E p \in Process : StartChild(p) \/ StartParent(p) \/ Tick(p)
  BY <1>7, StartStep, TickStep
<1>8. CASE Exit \/ Escape \/ \E p \in Process : KillProcess(p)
  BY <1>8, EndStep
<1> QED
  BY <1>1, <1>2, <1>3, <1>4, <1>5, <1>6, <1>7, <1>8 DEF Next

\* The invariant of the pipes, whoever opens, copies, inherits, dies or is killed.
THEOREM PipesExact ==
    ASSUME OwnDescriptorsOnly
    PROVE  Spec => []PipeInv
<1>1. Init => PipeInv
  BY PipeInvInit
<1>2. PipeInv /\ [Next]_pipeVars => PipeInv'
  BY PipeInvStep
<1> QED
  BY <1>1, <1>2, PTL DEF Spec

\* Every variable of the pipes keeps its type.
THEOREM PipesTypeCorrect ==
    ASSUME OwnDescriptorsOnly
    PROVE  Spec => []TypeOK
<1>1. PipeInv => TypeOK
  BY DEF PipeInv
<1> QED
  BY <1>1, PipesExact, PTL

\* The open counts of every pipe are the descriptors that live processes have on it.
THEOREM OpenCountsExact ==
    ASSUME OwnDescriptorsOnly
    PROVE  Spec => []CountsExact
<1>1. PipeInv => CountsExact
  <2> SUFFICES ASSUME PipeInv, NEW f \in File, Exists(f)
               PROVE  /\ pipe[f].currentOpenCount = Cardinality(LiveEnds(f))
                      /\ pipe[f].writeOpenCount = Cardinality(ForWriting(LiveEnds(f)))
    BY DEF CountsExact
  <2>1. /\ LiveEnds(f) = EndsIn(state, fds, f, Either)
        /\ ForWriting(LiveEnds(f)) = EndsIn(state, fds, f, Writing)
    BY LiveEndsAre DEF PipeInv
  <2> QED
    BY <2>1 DEF PipeInv, CountsFit, Exists
<1> QED
  BY <1>1, PipesExact, PTL

-----------------------------------------------------------------------------
(* No pipe is freed under a call: who is suspended in read or write has    *)
(* the pipe among its own descriptors, and only its own calls take it out. *)

InCall(st, calls, p) == st[p] \in {"READY", "BLOCKED"} /\ calls[p].op \in {"read", "write"}

HasOpen(table, p, f, modes) ==
    \E fd \in Fd : table[p][fd].fileID = f /\ table[p][fd].mode \in modes

\* The ends that a process in the call op has one of.
NeededFor(op) == IF op = "write" THEN Writing ELSE Either

Held(st, calls, table, files) ==
    \A p \in Process : InCall(st, calls, p) =>
        /\ calls[p].file \in File /\ files[calls[p].file].name # NoName
        /\ HasOpen(table, p, calls[p].file, NeededFor(calls[p].op))

SuspendedInv ==
    /\ PipeInv
    /\ Held(state, call, fds, pipe)
    /\ \A p \in Process : state[p] = "NONE" => call[p] = NoCall

\* mkpipe finds memory for the list of pipes.
MemoryLasts == "outOfMemory" \notin Calls

\* A pipe keeps its name while an end is left on it.
LEMMA NamedWhileOpen ==
    ASSUME PipeInv, NEW ends \in SUBSET EndsOf({p \in Process : Live(p)}), NEW f \in File,
           Exists(f), NEW e \in EndsIn(state, fds, f, Either), e \notin ends
    PROVE  AfterClosing(ends)[f].name # NoName
<1> DEFINE S == EndsIn(state, fds, f, Either)
           T == S \cap ends
<1>1. On(ends, f) = T /\ pipe[f].currentOpenCount = Cardinality(S)
  BY EndsGone DEF PipeInv, CountsFit, Exists
<1>2. IsFiniteSet(S) /\ T \in SUBSET S /\ T # S
  BY EndsFinite
<1> HIDE DEF S, T
<1>3. Cardinality(T) \in Nat /\ Cardinality(S) \in Nat /\ Cardinality(T) < Cardinality(S)
  BY <1>2, FS_Subset, FS_CardinalityType
<1>4. pipe[f].currentOpenCount \notin 1 .. Cardinality(On(ends, f))
  BY <1>1, <1>3
<1>5. AfterClosing(ends)[f] =
         Counted(pipe[f], -Cardinality(On(ends, f)), -Cardinality(ForWriting(On(ends, f))))
  BY <1>4 DEF AfterClosing
<1>6. pipe[f] \in pipeFile
  BY DEF PipeInv, TypeOK
<1>7. \A all, writers : Counted(pipe[f], all, writers).name = pipe[f].name
  <2>1. SUFFICES ASSUME NEW all, NEW writers
                 PROVE  Counted(pipe[f], all, writers).name = pipe[f].name
    OBVIOUS
  <2>2. \A r \in pipeFile : Counted(r, all, writers).name = r.name
    BY Zenon DEF Counted, pipeFile
  <2> QED
    BY <1>6, <2>2
<1> QED
  BY <1>5, <1>7 DEF Exists

\* What a step must not do to the processes in a call.
LEMMA HeldStep ==
    ASSUME SuspendedInv, PipeInv',
           \A p \in Process : InCall(state', call', p) =>
               /\ InCall(state, call, p) /\ call'[p] = call[p]
               /\ fds'[p] = fds[p]
               /\ pipe'[call[p].file].name # NoName,
           \A p \in Process : state'[p] = "NONE" => state[p] = "NONE" /\ call'[p] = call[p]
    PROVE  SuspendedInv'
<1>1. Held(state', call', fds', pipe')
  BY DEF SuspendedInv, Held, HasOpen
<1> QED
  BY <1>1 DEF SuspendedInv

\* A process in user code changes its own descriptors only.
LEMMA OwnCallStep ==
    ASSUME SuspendedInv, PipeInv', InUserCode, call' = call,
           \A p \in Process : state'[p] \in {"READY", "BLOCKED"}
                                <=> state[p] \in {"READY", "BLOCKED"},
           \A p \in Process : state'[p] = "NONE" => state[p] = "NONE",
           \A p \in Process \ {nowRunning} : fds'[p] = fds[p],
           \A p \in Process \ {nowRunning} : InCall(state, call, p) =>
               pipe'[call[p].file].name # NoName
    PROVE  SuspendedInv'
<1>1. ~InCall(state, call, nowRunning)
  BY DEF InUserCode, InCall, NoCall
<1>2. \A p \in Process : InCall(state', call', p) => InCall(state, call, p) /\ p # nowRunning
  BY <1>1 DEF InCall
<1> QED
  BY <1>2, HeldStep

\* What SuspendedInv says of a process in a call.
LEMMA InCallOpen ==
    ASSUME SuspendedInv, NEW p \in Process, InCall(state, call, p)
    PROVE  /\ call[p].file \in File /\ Exists(call[p].file)
           /\ \E fd \in Fd : <<p, fd>> \in EndsIn(state, fds, call[p].file, Either)
BY DEF SuspendedInv, Held, HasOpen, NeededFor, Either, Writing, InCall, EndsIn, Exists

LEMMA HeldWhenOpening ==
    ASSUME SuspendedInv, PipeInv', OwnDescriptorsOnly, MemoryLasts,
           \/ \E n \in Name : Mkpipe(n) \/ \E mode \in {"R", "W"} : Open(n, mode)
           \/ \E fromFd \in DupSource, toFd \in DupTarget : Dup2(fromFd, toFd)
           \/ RevertFdReplacements
    PROVE  SuspendedInv'
<1>1. /\ InUserCode /\ call' = call /\ state' = state
      /\ \A p \in Process \ {nowRunning} : fds'[p] = fds[p]
  <2>1. fds \in [Process -> [Fd -> fileDescriptor]]
    BY DEF SuspendedInv, PipeInv, TypeOK
  <2> QED
    BY <2>1 DEF Mkpipe, Open, Dup2, RevertFdReplacements, processVars
<1>2. \A f \in File : Exists(f) => pipe'[f].name # NoName
  <2>1. ASSUME NEW n \in Name, Mkpipe(n)
        PROVE  \A f \in File : Exists(f) => pipe'[f].name # NoName
    <3> DEFINE new == [NoPipe EXCEPT !.name = n]
    <3>1. pipe' = [pipe EXCEPT ![fileIdToGive] = new]
      BY <2>1 DEF Mkpipe, MemoryLasts, Asks
    <3>2. new.name = n /\ n # NoName
      BY NoPipeType, PipeAssumption DEF pipeFile
    <3>3. pipe \in [File -> pipeFile]
      BY DEF SuspendedInv, PipeInv, TypeOK
    <3> HIDE DEF new
    <3> QED
      BY <3>1, <3>2, <3>3 DEF Exists
  <2>2. ASSUME NEW n \in Name, NEW mode \in {"R", "W"}, Open(n, mode)
        PROVE  \A f \in File : Exists(f) => pipe'[f].name # NoName
    <3> DEFINE g == FileNamed(n)
    <3>1. pipe' = Opened(g, mode)
      BY <2>2 DEF Open
    <3> HIDE DEF g
    <3>2. CASE g \in File
      BY <3>1, <3>2, OpenedEffect DEF SuspendedInv, Exists
    <3>3. CASE g \notin File
      <4>1. pipe \in [File -> pipeFile]
        BY DEF SuspendedInv, PipeInv, TypeOK
      <4> QED
        BY <3>1, <3>3, <4>1 DEF Opened, Exists
    <3> QED
      BY <3>2, <3>3
  <2>3. ASSUME NEW fromFd \in DupSource, NEW toFd \in DupTarget, Dup2(fromFd, toFd)
        PROVE  \A f \in File : Exists(f) => pipe'[f].name # NoName
    <3> DEFINE from == fds[nowRunning][fromFd]
    <3>1. pipe' = IF Exists(from.fileID) THEN Opened(from.fileID, from.mode) ELSE pipe
      BY <2>3 DEF Dup2
    <3> HIDE DEF from
    <3>2. CASE Exists(from.fileID)
      BY <3>1, <3>2, OpenedEffect DEF SuspendedInv, Exists
    <3>3. CASE ~Exists(from.fileID)
      BY <3>1, <3>3 DEF Exists
    <3> QED
      BY <3>2, <3>3
  <2>4. ASSUME RevertFdReplacements
        PROVE  \A f \in File : Exists(f) => pipe'[f].name # NoName
    <3> DEFINE ends == EndsOf({nowRunning}) \cap ({nowRunning} \X Replaced)
    <3>1. pipe' = Discounted(ends)
      BY <2>4 DEF RevertFdReplacements
    <3>2. nowRunning \in Process /\ Live(nowRunning)
      BY <1>1 DEF SuspendedInv, PipeInv, TypeOK, ProcessTypeOK, Live, InUserCode, Asks,
                  OwnDescriptorsOnly
    <3>3. ends \in SUBSET EndsOf({p \in Process : Live(p)})
      BY <3>2 DEF EndsOf
    <3> HIDE DEF ends
    <3> QED
      BY <3>1, <3>3, DiscountEffect DEF SuspendedInv, Exists
  <2> QED
    BY <2>1, <2>2, <2>3, <2>4
<1>3. \A p \in Process : InCall(state, call, p) => pipe'[call[p].file].name # NoName
  BY <1>2, InCallOpen
<1> QED
  BY <1>1, <1>3, OwnCallStep

LEMMA HeldWhenClosing ==
    ASSUME SuspendedInv, PipeInv', OwnDescriptorsOnly, NEW fd \in Fd, CloseFd(fd)
    PROVE  SuspendedInv'
<1> DEFINE ends == {<<nowRunning, fd>>}
           W == ReadersAtEnd(ends)
<1>1. InUserCode /\ call' = call /\ Wake(W) /\ pipe' = AfterClosing(ends)
  BY DEF CloseFd
<1>2. nowRunning \in Process /\ Live(nowRunning)
  BY <1>1 DEF SuspendedInv, PipeInv, TypeOK, ProcessTypeOK, Live, InUserCode, Asks,
              OwnDescriptorsOnly
<1>3. ends \in SUBSET EndsOf({p \in Process : Live(p)})
  BY <1>2, PipeAssumption DEF EndsOf, CloseFd, Exists, File, STDERR
<1>4. \A p \in Process \ {nowRunning} : fds'[p] = fds[p]
  BY DEF CloseFd, SuspendedInv, PipeInv, TypeOK
<1>5. \A p \in W : state[p] = "BLOCKED"
  BY DEF ReadersAtEnd, BlockedFor, IsBlockedFor
<1> HIDE DEF W
<1>6. \A p \in Process : state'[p] \in {"READY", "BLOCKED"} <=> state[p] \in {"READY", "BLOCKED"}
  BY <1>1, <1>5, WakeEffect DEF SuspendedInv, PipeInv, TypeOK
<1>7. \A p \in Process : state'[p] = "NONE" => state[p] = "NONE"
  BY <1>1, <1>5 DEF Wake, Change
<1>8. ASSUME NEW p \in Process, p # nowRunning, InCall(state, call, p)
      PROVE  pipe'[call[p].file].name # NoName
  <2> DEFINE f == call[p].file
  <2>1. PICK d \in Fd : <<p, d>> \in EndsIn(state, fds, f, Either)
    BY <1>8, InCallOpen
  <2>2. f \in File /\ Exists(f)
    BY <1>8, InCallOpen
  <2>3. <<p, d>> \notin ends
    BY <1>8
  <2> HIDE DEF ends, f
  <2>4. AfterClosing(ends)[f].name # NoName
    BY <1>3, <2>1, <2>2, <2>3, NamedWhileOpen DEF SuspendedInv
  <2> QED
    BY <1>1, <2>4 DEF f
<1> QED
  BY <1>1, <1>4, <1>6, <1>7, <1>8, OwnCallStep

LEMMA HeldWhenKilling ==
    ASSUME SuspendedInv, PipeInv', NEW K \in SUBSET Process, \A p \in K : Live(p), Kill(K),
           nowRunning' \in Process
    PROVE  SuspendedInv'
<1> DEFINE ends == EndsOf(K)
           W == ReadersAtEnd(ends)
<1>1. call' = call /\ fds' = fds /\ Change(W, K) /\ pipe' = AfterClosing(ends)
  BY DEF Kill
<1>2. ends \in SUBSET EndsOf({p \in Process : Live(p)}) /\ \A e \in ends : e[1] \in K
  BY DEF EndsOf
<1>3. \A p \in W : state[p] = "BLOCKED"
  BY DEF ReadersAtEnd, BlockedFor, IsBlockedFor
<1> HIDE DEF W, ends
<1>4. \A p \in Process : state'[p] \in {"READY", "BLOCKED"}
                           <=> p \notin K /\ state[p] \in {"READY", "BLOCKED"}
  BY <1>1, <1>3, ChangeEffect DEF SuspendedInv, PipeInv, TypeOK
<1>5. \A p \in Process : state'[p] = "NONE" => state[p] = "NONE"
  BY <1>1, <1>3 DEF Change
<1>6. ASSUME NEW p \in Process, InCall(state', call', p)
      PROVE  /\ InCall(state, call, p)
             /\ pipe'[call[p].file].name # NoName
  <2> DEFINE f == call[p].file
  <2>1. p \notin K /\ InCall(state, call, p)
    BY <1>1, <1>4, <1>6 DEF InCall
  <2>2. PICK d \in Fd : <<p, d>> \in EndsIn(state, fds, f, Either)
    BY <2>1, InCallOpen
  <2>3. f \in File /\ Exists(f)
    BY <2>1, InCallOpen
  <2>4. <<p, d>> \notin ends
    BY <1>2, <2>1
  <2> HIDE DEF f
  <2>5. AfterClosing(ends)[f].name # NoName
    BY <1>2, <2>2, <2>3, <2>4, NamedWhileOpen DEF SuspendedInv
  <2> QED
    BY <1>1, <2>1, <2>5 DEF f
<1> QED
  BY <1>1, <1>5, <1>6, HeldStep

LEMMA HeldWhenEnding ==
    ASSUME SuspendedInv, PipeInv', OwnDescriptorsOnly,
           Exit \/ Escape \/ \E p \in Process : KillProcess(p)
    PROVE  SuspendedInv'
<1>1. nowRunning \in Process
  BY DEF SuspendedInv, PipeInv, TypeOK, ProcessTypeOK
<1>2. CASE Exit
  <2>1. Live(nowRunning) /\ Kill({nowRunning}) /\ nowRunning' \in Process
    BY <1>2 DEF Exit, InUserCode, Asks, OwnDescriptorsOnly, Dispatch, Live
  <2> QED
    BY <1>1, <2>1, HeldWhenKilling
<1>3. CASE Escape
  <2> DEFINE K == {p \in Foreground : Live(p)}
  <2>1. K \in SUBSET Process /\ (\A p \in K : Live(p)) /\ Kill(K) /\ nowRunning' \in Process
    BY <1>1, <1>3, ProcessAssumption DEF Escape
  <2> QED
    BY <2>1, HeldWhenKilling
<1>4. ASSUME NEW p \in Process, KillProcess(p) PROVE SuspendedInv'
  <2>1. Live(p) /\ Kill({p}) /\ nowRunning' \in Process
    BY <1>4 DEF KillProcess, Asks, OwnDescriptorsOnly, Dispatch
  <2> QED
    BY <2>1, HeldWhenKilling
<1> QED
  BY <1>2, <1>3, <1>4

LEMMA HeldWhenStarting ==
    ASSUME SuspendedInv, PipeInv', NEW q \in Process, StartChild(q) \/ StartParent(q)
    PROVE  SuspendedInv'
<1>1. /\ state[q] = "NONE" /\ state' = [state EXCEPT ![q] = "READY"] /\ call' = call
      /\ \A p \in Process \ {q} : fds'[p] = fds[p]
  <2>1. fds \in [Process -> [Fd -> fileDescriptor]]
    BY DEF SuspendedInv, PipeInv, TypeOK
  <2> QED
    BY <2>1 DEF StartChild, StartParent, Start
<1>2. \A f \in File : pipe'[f].name = pipe[f].name
  BY StartStep DEF SuspendedInv
<1>3. ~InCall(state', call', q)
  BY <1>1 DEF SuspendedInv, InCall, NoCall
<1>4. state \in [Process -> {"NONE", "READY", "BLOCKED", "FINISHED"}]
  BY DEF SuspendedInv, PipeInv, TypeOK, ProcessTypeOK
<1>5. \A p \in Process : InCall(state', call', p) => p # q /\ InCall(state, call, p)
  BY <1>1, <1>3, <1>4 DEF InCall
<1>6. \A p \in Process : InCall(state, call, p) => pipe'[call[p].file].name # NoName
  BY <1>2, InCallOpen DEF Exists
<1>7. \A p \in Process : state'[p] = "NONE" => state[p] = "NONE"
  BY <1>1, <1>4
<1> QED
  BY <1>1, <1>5, <1>6, <1>7, HeldStep

LEMMA HeldWhenIdle ==
    ASSUME SuspendedInv, PipeInv',
           \/ \E p \in Process : Tick(p)
           \/ \E fd \in Fd : ReadEmpty(fd)
    PROVE  SuspendedInv'
<1>1. nowRunning \in Process /\ call \in [Process -> suspendedCall]
  BY DEF SuspendedInv, PipeInv, TypeOK, ProcessTypeOK
<1>2. fds' = fds /\ pipe' = pipe
  BY DEF Tick, ReadEmpty, fileVars
<1>3. \A p \in Process : InCall(state, call, p) => pipe'[call[p].file].name # NoName
  BY <1>2, InCallOpen DEF Exists
<1>4. CASE \E p \in Process : Tick(p)
  <2>1. state' = state /\ call' = call
    BY <1>4 DEF Tick
  <2> QED
    BY <1>2, <1>3, <2>1, HeldStep DEF InCall
<1>5. CASE \E fd \in Fd : ReadEmpty(fd)
  <2> DEFINE waiting == [NoCall EXCEPT !.op = "readEmpty"]
  <2>1. /\ call[nowRunning] = NoCall /\ MayBlock /\ BlockRunning(ReadReason(EMPTY))
        /\ call' = [call EXCEPT ![nowRunning].op = "readEmpty"]
    BY <1>5 DEF ReadEmpty, InUserCode
  <2>2. call' = [call EXCEPT ![nowRunning] = waiting]
    BY <2>1, Zenon
  <2>3. waiting.op = "readEmpty"
    BY DEF NoCall
  <2> HIDE DEF waiting
  <2>4. /\ call'[nowRunning].op = "readEmpty"
        /\ \A p \in Process \ {nowRunning} : call'[p] = call[p]
    BY <1>1, <2>2, <2>3
  <2>5. /\ \A p \in Process \ {nowRunning} : state'[p] = state[p]
        /\ state'[nowRunning] = "BLOCKED"
    BY <1>1, <2>1 DEF BlockRunning, SuspendedInv, PipeInv, TypeOK, ProcessTypeOK
  <2>6. ~InCall(state', call', nowRunning)
    BY <2>4 DEF InCall
  <2>7. \A p \in Process : InCall(state', call', p) =>
            InCall(state, call, p) /\ call'[p] = call[p]
    BY <2>4, <2>5, <2>6 DEF InCall
  <2>8. \A p \in Process : state'[p] = "NONE" => state[p] = "NONE" /\ call'[p] = call[p]
    BY <2>4, <2>5
  <2> QED
    BY <1>2, <1>3, <2>7, <2>8, HeldStep
<1> QED
  BY <1>4, <1>5

\* Data goes in or out, and the call ends or is suspended on the same pipe.
LEMMA HeldWhenMoving ==
    ASSUME SuspendedInv, PipeInv', SameEnds(pipe'), fds' = fds, nowRunning \in Process,
           \A p \in Process : state'[p] \in {"READY", "BLOCKED"}
                                <=> state[p] \in {"READY", "BLOCKED"},
           \A p \in Process : state'[p] = "NONE" => state[p] = "NONE",
           state[nowRunning] # "NONE", NEW f \in File, NEW op,
           Live(nowRunning) => Exists(f) /\ HasOpen(fds, nowRunning, f, NeededFor(op)),
           NEW c, call' = [call EXCEPT ![nowRunning] = c], c = NoCall \/ (c.file = f /\ c.op = op)
    PROVE  SuspendedInv'
<1>1. /\ call'[nowRunning] = c /\ \A p \in Process \ {nowRunning} : call'[p] = call[p]
  BY DEF SuspendedInv, PipeInv, TypeOK
<1>2. ASSUME NEW p \in Process, InCall(state', call', p)
      PROVE  /\ call'[p].file \in File /\ pipe'[call'[p].file].name # NoName
             /\ HasOpen(fds', p, call'[p].file, NeededFor(call'[p].op))
  <2>1. CASE p = nowRunning
    <3>1. c.file = f /\ c.op = op
      BY <1>1, <1>2, <2>1 DEF InCall, NoCall
    <3>2. Exists(f) /\ HasOpen(fds, nowRunning, f, NeededFor(op))
      BY <1>2, <2>1 DEF InCall, Live
    <3> QED
      BY <1>1, <2>1, <3>1, <3>2 DEF SameEnds, Exists
  <2>2. CASE p # nowRunning
    <3>1. call'[p] = call[p] /\ InCall(state, call, p)
      BY <1>1, <1>2, <2>2 DEF InCall
    <3>2. /\ call[p].file \in File /\ pipe[call[p].file].name # NoName
          /\ HasOpen(fds, p, call[p].file, NeededFor(call[p].op))
      BY <3>1 DEF SuspendedInv, Held
    <3> QED
      BY <3>1, <3>2 DEF SameEnds
  <2> QED
    BY <2>1, <2>2
<1>3. \A p \in Process : state'[p] = "NONE" => call'[p] = NoCall
  BY <1>1 DEF SuspendedInv
<1> QED
  BY <1>2, <1>3 DEF SuspendedInv, Held

LEMMA HeldWhenWriting ==
    ASSUME SuspendedInv, NEW f \in File, NEW s \in Seq(Char), NEW sure \in Nat,
           WriteOn(f, s, sure), state[nowRunning] # "NONE",
           Live(nowRunning) => Exists(f) /\ HasOpen(fds, nowRunning, f, NeededFor("write"))
    PROVE  SuspendedInv'
<1> DEFINE k == IF MayBlock THEN Min({Len(s), sure + Fits(Pending(f) + sure)}) ELSE Len(s)
           on == [op |-> "write", file |-> f, rest |-> SubSeq(s, k + 1, Len(s)), left |-> 0]
<1>1. PipeInv' /\ SameEnds(pipe')
  BY WriteOnStep DEF SuspendedInv
<1>2. nowRunning \in Process /\ ProcessTypeOK
  BY DEF SuspendedInv, PipeInv, TypeOK, ProcessTypeOK
<1>3. /\ fds' = fds
      /\ \/ WakeReaders(f) /\ call' = [call EXCEPT ![nowRunning] = NoCall]
         \/ /\ k < Len(s) /\ BlockRunning(WriteReason(f))
            /\ call' = [call EXCEPT ![nowRunning] = on]
  BY DEF WriteOn
<1>4. on.file = f /\ on.op = "write"
  OBVIOUS
<1>5. CASE WakeReaders(f) /\ call' = [call EXCEPT ![nowRunning] = NoCall]
  <2>1. /\ Wake(BlockedFor(ReadReason(f)))
        /\ \A p \in BlockedFor(ReadReason(f)) : state[p] = "BLOCKED"
    BY <1>5 DEF WakeReaders, BlockedFor, IsBlockedFor
  <2>2. \A p \in Process : state'[p] \in {"READY", "BLOCKED"}
                             <=> state[p] \in {"READY", "BLOCKED"}
    BY <1>2, <2>1, WakeEffect
  <2>3. \A p \in Process : state'[p] = "NONE" => state[p] = "NONE"
    BY <2>1 DEF Wake, Change
  <2> QED
    BY <1>1, <1>2, <1>3, <1>5, <2>2, <2>3, HeldWhenMoving
<1>6. CASE BlockRunning(WriteReason(f)) /\ call' = [call EXCEPT ![nowRunning] = on] /\ MayBlock
  <2> HIDE DEF on
  <2>1. \A p \in Process : state'[p] \in {"READY", "BLOCKED"}
                             <=> state[p] \in {"READY", "BLOCKED"}
    BY <1>2, <1>6, BlockEffect
  <2>2. \A p \in Process : state'[p] = "NONE" => state[p] = "NONE"
    BY <1>2, <1>6 DEF BlockRunning, ProcessTypeOK
  <2> QED
    BY <1>1, <1>2, <1>3, <1>4, <1>6, <2>1, <2>2, HeldWhenMoving
<1>7. k < Len(s) => MayBlock
  BY LenProperties
<1> QED
  BY <1>3, <1>5, <1>6, <1>7

LEMMA HeldWhenReading ==
    ASSUME SuspendedInv, NEW f \in File, NEW n \in Nat, ReadOn(f, n),
           state[nowRunning] # "NONE",
           Live(nowRunning) => Exists(f) /\ HasOpen(fds, nowRunning, f, NeededFor("read"))
    PROVE  SuspendedInv'
<1> DEFINE k == Min({n, Available(f)})
           on == [op |-> "read", file |-> f, rest |-> <<>>, left |-> n - k]
<1>1. PipeInv' /\ SameEnds(pipe')
  BY ReadOnStep DEF SuspendedInv
<1>2. nowRunning \in Process /\ ProcessTypeOK
  BY DEF SuspendedInv, PipeInv, TypeOK, ProcessTypeOK
<1>3. /\ fds' = fds
      /\ \/ WakeWriters(f) /\ call' = [call EXCEPT ![nowRunning] = NoCall]
         \/ UNCHANGED processVars /\ call' = [call EXCEPT ![nowRunning] = NoCall]
         \/ /\ IF MayBlock THEN BlockRunning(ReadReason(f)) ELSE UNCHANGED processVars
            /\ call' = [call EXCEPT ![nowRunning] = on]
  BY DEF ReadOn
<1>4. on.file = f /\ on.op = "read"
  OBVIOUS
<1>5. PICK c : /\ call' = [call EXCEPT ![nowRunning] = c]
               /\ c = NoCall \/ (c.file = f /\ c.op = "read")
  BY <1>3, <1>4
<1> HIDE DEF on, k
<1>6. CASE WakeWriters(f)
  <2>1. /\ Wake(BlockedFor(WriteReason(f)))
        /\ \A p \in BlockedFor(WriteReason(f)) : state[p] = "BLOCKED"
    BY <1>6 DEF WakeWriters, BlockedFor, IsBlockedFor
  <2>2. \A p \in Process : state'[p] \in {"READY", "BLOCKED"}
                             <=> state[p] \in {"READY", "BLOCKED"}
    BY <1>2, <2>1, WakeEffect
  <2>3. \A p \in Process : state'[p] = "NONE" => state[p] = "NONE"
    BY <2>1 DEF Wake, Change
  <2> QED
    BY <1>1, <1>2, <1>3, <1>5, <2>2, <2>3, HeldWhenMoving
<1>7. CASE UNCHANGED processVars
  <2>1. state' = state
    BY <1>7 DEF processVars
  <2> QED
    BY <1>1, <1>2, <1>3, <1>5, <2>1, HeldWhenMoving
<1>8. CASE BlockRunning(ReadReason(f)) /\ MayBlock
  <2>1. \A p \in Process : state'[p] \in {"READY", "BLOCKED"}
                             <=> state[p] \in {"READY", "BLOCKED"}
    BY <1>2, <1>8, BlockEffect
  <2>2. \A p \in Process : state'[p] = "NONE" => state[p] = "NONE"
    BY <1>2, <1>8 DEF BlockRunning, ProcessTypeOK
  <2> QED
    BY <1>1, <1>2, <1>3, <1>5, <2>1, <2>2, HeldWhenMoving
<1> QED
  BY <1>3, <1>6, <1>7, <1>8

LEMMA HeldWhenResuming ==
    ASSUME SuspendedInv, call[nowRunning].op \in {"read", "write"}
    PROVE  /\ state[nowRunning] # "NONE"
           /\ Live(nowRunning) => /\ Exists(call[nowRunning].file)
                                  /\ HasOpen(fds, nowRunning, call[nowRunning].file,
                                             NeededFor(call[nowRunning].op))
<1>1. nowRunning \in Process
  BY DEF SuspendedInv, PipeInv, TypeOK, ProcessTypeOK
<1>2. call[nowRunning] # NoCall
  BY DEF NoCall
<1> QED
  BY <1>1, <1>2 DEF SuspendedInv, Held, InCall, Live, Exists

LEMMA HeldWithData ==
    ASSUME SuspendedInv, OwnDescriptorsOnly,
           \/ ResumeWrite \/ ResumeRead
           \/ \E fd \in Fd : \/ \E s \in Text : Write(fd, s)
                             \/ \E n \in 1 .. MaxRead : Read(fd, n)
    PROVE  SuspendedInv'
<1>1. CASE ResumeWrite
  <2>1. /\ WriteOn(call[nowRunning].file, call[nowRunning].rest, 1)
        /\ call[nowRunning].op = "write"
    BY <1>1 DEF ResumeWrite
  <2>2. call[nowRunning].file \in File /\ call[nowRunning].rest \in Seq(Char)
    BY <2>1, SuspendedCall DEF SuspendedInv
  <2> QED
    BY <2>1, <2>2, HeldWhenResuming, HeldWhenWriting
<1>2. CASE ResumeRead
  <2>1. /\ ReadOn(call[nowRunning].file, call[nowRunning].left)
        /\ call[nowRunning].op = "read"
    BY <1>2 DEF ResumeRead
  <2>2. call[nowRunning].file \in File /\ call[nowRunning].left \in Nat
    BY <2>1, SuspendedCall DEF SuspendedInv
  <2> QED
    BY <2>1, <2>2, HeldWhenResuming, HeldWhenReading
<1>3. ASSUME NEW fd \in Fd, NEW s \in Text, Write(fd, s)
      PROVE  SuspendedInv'
  <2> DEFINE f == fds[nowRunning][fd].fileID
  <2>1. /\ f \in File /\ Exists(f) /\ WriteOn(f, s, 0)
        /\ fds[nowRunning][fd].mode \in NeededFor("write")
    BY <1>3 DEF Write, Exists, NeededFor, Writing
  <2>2. s \in Seq(Char)
    BY PipeAssumption
  <2>3. state[nowRunning] # "NONE"
    BY <1>3 DEF Write, InUserCode, Asks, OwnDescriptorsOnly
  <2>4. HasOpen(fds, nowRunning, f, NeededFor("write"))
    BY <2>1 DEF HasOpen
  <2> HIDE DEF f
  <2> QED
    BY <2>1, <2>2, <2>3, <2>4, HeldWhenWriting
<1>4. ASSUME NEW fd \in Fd, NEW n \in 1 .. MaxRead, Read(fd, n)
      PROVE  SuspendedInv'
  <2> DEFINE f == fds[nowRunning][fd].fileID
  <2>1. /\ f \in File /\ Exists(f) /\ ReadOn(f, n)
        /\ fds[nowRunning][fd].mode \in NeededFor("read")
    BY <1>4 DEF Read, Exists, NeededFor, Either
  <2>2. n \in Nat
    BY PipeAssumption
  <2>3. state[nowRunning] # "NONE"
    BY <1>4 DEF Read, InUserCode, Asks, OwnDescriptorsOnly
  <2>4. HasOpen(fds, nowRunning, f, NeededFor("read"))
    BY <2>1 DEF HasOpen
  <2> HIDE DEF f
  <2> QED
    BY <2>1, <2>2, <2>3, <2>4, HeldWhenReading
<1> QED
  BY <1>1, <1>2, <1>3, <1>4

\* Every step keeps a process that is in a call on a pipe that it has open.
LEMMA SuspendedStep ==
    ASSUME SuspendedInv, OwnDescriptorsOnly, MemoryLasts, [Next]_pipeVars
    PROVE  SuspendedInv'
<1>1. PipeInv'
  BY PipeInvStep DEF SuspendedInv
<1>2. CASE UNCHANGED pipeVars
  <2>1. state' = state /\ call' = call /\ fds' = fds /\ pipe' = pipe
    BY <1>2 DEF pipeVars, processVars, fileVars
  <2> QED
    BY <1>1, <2>1 DEF SuspendedInv
<1>3. CASE \/ \E n \in Name : Mkpipe(n) \/ \E mode \in {"R", "W"} : Open(n, mode)
           \/ \E fromFd \in DupSource, toFd \in DupTarget : Dup2(fromFd, toFd)
           \/ RevertFdReplacements
  BY <1>1, <1>3, HeldWhenOpening
<1>4. CASE \E fd \in Fd : CloseFd(fd)
  BY <1>1, <1>4, HeldWhenClosing
<1>5. CASE \/ ResumeWrite \/ ResumeRead
           \/ \E fd \in Fd : \/ \E s \in Text : Write(fd, s)
                             \/ \E n \in 1 .. MaxRead : Read(fd, n)
  BY <1>5, HeldWithData
<1>6. CASE \/ \E p \in Process : Tick(p)
           \/ \E fd \in Fd : ReadEmpty(fd)
  BY <1>1, <1>6, HeldWhenIdle
<1>7. CASE \E p \in Process : StartChild(p) \/ StartParent(p)
  BY <1>1, <1>7, HeldWhenStarting
<1>8. CASE Exit \/ Escape \/ \E p \in Process : KillProcess(p)
  BY <1>1, <1>8, HeldWhenEnding
<1> QED
  BY <1>2, <1>3, <1>4, <1>5, <1>6, <1>7, <1>8 DEF Next

\* No pipe is freed while a process is inside read or write on it: the process has it
\* open, and a pipe that is open is neither freed nor replaced.
THEOREM PipesNotFreedInUse ==
    ASSUME OwnDescriptorsOnly, MemoryLasts
    PROVE  Spec => []SuspendedOnPipes
<1>1. Init => SuspendedInv
  BY PipeInvInit DEF Init, SuspendedInv, Held, InCall, NoCall
<1>2. SuspendedInv /\ [Next]_pipeVars => SuspendedInv'
  BY SuspendedStep
<1>3. SuspendedInv => SuspendedOnPipes
  BY DEF SuspendedInv, SuspendedOnPipes, Held, InCall, Live, Exists
<1> QED
  BY <1>1, <1>2, <1>3, PTL DEF Spec

-----------------------------------------------------------------------------
(* The inductive invariant.                                                *)

OrderlyCalls == Calls \cap {"longWrite", "crowdedWrite", "lateRevert"} = {}

Full == MAX_PIPE_BUFFER_SIZE - 1

Distance(files, f) == files[f].writingIndex - files[f].readingIndex

Inside(p, op) == Live(p) /\ call[p].op = op

\* Whoever has the CPU in the middle of a call is awake.
RunnerAwake == call[nowRunning].op \in {"read", "write"} => state[nowRunning] = "READY"

\* A writer that sleeps has no room, one that woke has some, and there is one only.
WriterOK(p) == Inside(p, "write") =>
    /\ Len(call[p].rest) \in 1 .. Full
    /\ IF state[p] = "READY" THEN Pending(call[p].file) < Full
       ELSE /\ blockedReason[p] = WriteReason(call[p].file)
            /\ Pending(call[p].file) = Full
    /\ \A q \in Process : Inside(q, "write") /\ call[q].file = call[p].file => q = p

\* A reader that sleeps has nothing to read, and somebody who can still write.
ReaderOK(p) == Inside(p, "read") =>
    /\ call[p].left \in 1 .. MaxRead /\ call[p].rest = <<>>
    /\ state[p] = "BLOCKED" =>
          /\ blockedReason[p] = ReadReason(call[p].file)
          /\ Pending(call[p].file) = 0 /\ pipe[call[p].file].writeOpenCount > 0

SleeperOK(p) == state[p] = "BLOCKED" =>
    Inside(p, "read") \/ Inside(p, "write") \/ blockedReason[p] = ReadReason(EMPTY)

FlowInv ==
    /\ SuspendedInv /\ RunnerAwake
    /\ \A f \in File : Pending(f) \in 0 .. Full
    /\ \A p \in Process : WriterOK(p) /\ ReaderOK(p) /\ SleeperOK(p)

-----------------------------------------------------------------------------
(* What the invariant gives: the two properties, and what is in the ring.  *)

LEMMA Reasons ==
    /\ \A f, g : ReadReason(f) # WriteReason(g)
    /\ \A f, g : ReadReason(f) = ReadReason(g) => f = g
    /\ \A f, g : WriteReason(f) = WriteReason(g) => f = g
    /\ \A f \in File : f # EMPTY
<1>1. \A f, g : ReadReason(f).source # WriteReason(g).source
  BY DEF ReadReason, WriteReason
<1>2. \A f : ReadReason(f).id = f /\ WriteReason(f).id = f
  BY DEF ReadReason, WriteReason
<1>3. \A f \in File : f # EMPTY
  BY DEF File, EMPTY, STDERR
<1> QED
  BY <1>1, <1>2, <1>3

LEMMA FlowGives ==
    FlowInv => ReadersSleepRightly /\ WritersSleepRightly
<1> SUFFICES ASSUME FlowInv PROVE ReadersSleepRightly /\ WritersSleepRightly
  OBVIOUS
<1>1. ASSUME NEW f \in File, NEW p \in BlockedFor(ReadReason(f))
      PROVE  Exists(f) /\ Pending(f) = 0 /\ pipe[f].writeOpenCount > 0
  <2>1. p \in Process /\ state[p] = "BLOCKED" /\ blockedReason[p] = ReadReason(f)
    BY <1>1 DEF BlockedFor, IsBlockedFor
  <2>2. Inside(p, "read")
    BY <2>1, Reasons DEF FlowInv, SleeperOK, WriterOK
  <2>3. call[p].file = f
    BY <2>1, <2>2, Reasons DEF FlowInv, ReaderOK
  <2>4. InCall(state, call, p)
    BY <2>2 DEF InCall, Inside, Live
  <2>5. Exists(f)
    BY <2>3, <2>4, <2>1, InCallOpen DEF FlowInv
  <2> QED
    BY <2>1, <2>2, <2>3, <2>5 DEF FlowInv, ReaderOK
<1>2. ASSUME NEW f \in File, NEW p \in BlockedFor(WriteReason(f))
      PROVE  Exists(f) /\ Pending(f) = Full
  <2>1. p \in Process /\ state[p] = "BLOCKED" /\ blockedReason[p] = WriteReason(f)
    BY <1>2 DEF BlockedFor, IsBlockedFor
  <2>2. Inside(p, "write")
    BY <2>1, Reasons DEF FlowInv, SleeperOK, ReaderOK
  <2>3. call[p].file = f
    BY <2>1, <2>2, Reasons DEF FlowInv, WriterOK
  <2>4. InCall(state, call, p)
    BY <2>2 DEF InCall, Inside, Live
  <2>5. Exists(f)
    BY <2>3, <2>4, <2>1, InCallOpen DEF FlowInv
  <2> QED
    BY <2>1, <2>2, <2>3, <2>5 DEF FlowInv, WriterOK
<1> QED
  BY <1>1, <1>2 DEF ReadersSleepRightly, WritersSleepRightly, Full

-----------------------------------------------------------------------------
(* Counting ends leaves what is in the ring alone.                         *)

SameData(r, s) ==
    /\ r.readingIndex = s.readingIndex /\ r.writingIndex = s.writingIndex
    /\ r.buffer = s.buffer

LEMMA CountedData ==
    ASSUME NEW r \in pipeFile, NEW all, NEW writers
    PROVE  SameData(Counted(r, all, writers), r)
<1> DEFINE buffers == [0 .. MAX_PIPE_BUFFER_SIZE - 1 -> Char \cup {""}]
           s == Counted(r, all, writers)
           m == r.writeOpenCount + writers
<1>1. r \in [name : Name \cup {NoName}, buffer : buffers, readingIndex : Nat,
             writingIndex : Nat, currentOpenCount : Nat, writeOpenCount : Nat]
  BY DEF pipeFile
<1> HIDE DEF buffers
<1>2. PICK t : /\ t = [r EXCEPT !.currentOpenCount = @ + all]
               /\ s = [t EXCEPT !.writeOpenCount = m]
  BY <1>1, Zenon DEF Counted
<1> HIDE DEF s, m
<1>3. SameData(t, r)
  BY <1>1, <1>2 DEF SameData
<1>4. SameData(s, t)
  BY <1>1, <1>2 DEF SameData
<1> QED
  BY <1>3, <1>4 DEF SameData, s

LEMMA OpenedData ==
    ASSUME PipeInv, NEW f \in File, NEW mode, NEW g \in File
    PROVE  /\ SameData(Opened(f, mode)[g], pipe[g])
           /\ Opened(f, mode)[g].writeOpenCount >= pipe[g].writeOpenCount
<1>1. pipe \in [File -> pipeFile]
  BY DEF PipeInv, TypeOK
<1>2. pipe[g] \in pipeFile /\ pipe[g].writeOpenCount \in Nat
  BY <1>1 DEF pipeFile
<1>3. Opened(f, mode)[g].writeOpenCount >= pipe[g].writeOpenCount
  BY <1>2, OpenedEffect
<1>4. CASE g = f
  <2>1. Opened(f, mode)[g] = Counted(pipe[g], 1, IF mode = "W" THEN 1 ELSE 0)
    BY <1>1, <1>4 DEF Opened
  <2> QED
    BY <1>2, <1>3, <2>1, CountedData
<1>5. CASE g # f
  BY <1>3, <1>5, OpenedEffect DEF SameData
<1> QED
  BY <1>4, <1>5

LEMMA CountedAgainData ==
    ASSUME PipeInv, NEW table, NEW g \in File
    PROVE  /\ SameData(CountedAgain(table)[g], pipe[g])
           /\ CountedAgain(table)[g].writeOpenCount >= pipe[g].writeOpenCount
<1> DEFINE on == {fd \in Fd : table[fd].fileID = g /\ table[fd].mode # "N"}
           writing == {fd \in on : table[fd].mode = "W"}
<1>1. pipe[g] \in pipeFile /\ pipe[g].writeOpenCount \in Nat /\ pipe[g].currentOpenCount \in Nat
  BY DEF PipeInv, TypeOK, pipeFile
<1>2. Cardinality(on) \in Nat /\ Cardinality(writing) \in Nat
  <2>1. IsFiniteSet(Fd)
    BY FS_Interval, PipeAssumption DEF Fd
  <2> QED
    BY <2>1, FS_Subset, FS_CardinalityType
<1>3. CountedAgain(table)[g] = IF ~Exists(g) THEN pipe[g]
                               ELSE Counted(pipe[g], Cardinality(on), Cardinality(writing))
  BY DEF CountedAgain
<1> HIDE DEF on, writing
<1>4. CASE ~Exists(g)
  BY <1>1, <1>3, <1>4 DEF SameData
<1>5. CASE Exists(g)
  <2>1. /\ pipe[g].currentOpenCount + Cardinality(on) >= 0
        /\ pipe[g].writeOpenCount + Cardinality(writing) >= 0
    BY <1>1, <1>2
  <2>2. CountedAgain(table)[g].writeOpenCount = pipe[g].writeOpenCount + Cardinality(writing)
    BY <1>1, <1>2, <1>3, <1>5, <2>1, CountedRecord
  <2>3. SameData(CountedAgain(table)[g], pipe[g])
    BY <1>1, <1>3, <1>5, CountedData
  <2> QED
    BY <1>1, <1>2, <2>2, <2>3
<1> QED
  BY <1>4, <1>5

\* Readers that are not woken when ends go still have a writer.
LEMMA ClosingData ==
    ASSUME PipeInv, NEW ends \in SUBSET EndsOf({p \in Process : Live(p)}), NEW g \in File
    PROVE  /\ \/ AfterClosing(ends)[g] = NoPipe
              \/ SameData(AfterClosing(ends)[g], pipe[g])
           /\ AfterClosing(ends)[g].name # NoName =>
                /\ SameData(AfterClosing(ends)[g], pipe[g])
                /\ pipe[g].writeOpenCount > 0 =>
                     \/ AfterClosing(ends)[g].writeOpenCount > 0
                     \/ BlockedFor(ReadReason(g)) \subseteq ReadersAtEnd(ends)
<1>1. pipe[g] \in pipeFile /\ pipe[g].writeOpenCount \in Nat
  BY DEF PipeInv, TypeOK, pipeFile
<1>2. CASE ~Exists(g)
  <2>1. AfterClosing(ends)[g] = pipe[g]
    BY <1>2 DEF AfterClosing
  <2> QED
    BY <1>1, <2>1 DEF SameData
<1>3. CASE Exists(g)
  <2> DEFINE all == Cardinality(On(ends, g))
             gone == Cardinality(ForWriting(On(ends, g)))
  <2>1. all \in Nat /\ gone \in Nat /\ gone <= pipe[g].writeOpenCount
    BY <1>3, CountedBefore
  <2>2. AfterClosing(ends)[g] = IF pipe[g].currentOpenCount \in 1 .. all THEN NoPipe
                                ELSE Counted(pipe[g], -all, -gone)
    BY <1>3 DEF AfterClosing
  <2>3. pipe[g].writeOpenCount \in 1 .. gone =>
           BlockedFor(ReadReason(g)) \subseteq ReadersAtEnd(ends)
    BY <1>3 DEF ReadersAtEnd
  <2>4. AfterClosing(ends)[g].name # NoName =>
           AfterClosing(ends)[g].writeOpenCount = pipe[g].writeOpenCount - gone
    <3>1. /\ CountedLess(state, fds, pipe, AfterClosing(ends), ends)
          /\ ForWriting(On(ends, g)) = EndsIn(state, fds, g, Writing) \cap ends
      BY ClosingEffect, EndsGone DEF PipeInv
    <3> QED
      BY <3>1 DEF CountedLess
  <2> HIDE DEF all, gone
  <2>5. CASE pipe[g].currentOpenCount \in 1 .. all
    BY <2>2, <2>5, NoPipeType
  <2>6. CASE pipe[g].currentOpenCount \notin 1 .. all
    <3>1. SameData(AfterClosing(ends)[g], pipe[g])
      BY <1>1, <2>2, <2>6, CountedData
    <3> QED
      BY <1>1, <2>1, <2>3, <2>4, <3>1
  <2> QED
    BY <2>5, <2>6
<1> QED
  BY <1>2, <1>3

LEMMA DiscountedData ==
    ASSUME PipeInv, NEW ends \in SUBSET EndsOf({p \in Process : Live(p)}), NEW g \in File
    PROVE  /\ SameData(Discounted(ends)[g], pipe[g])
           /\ Exists(g) /\ pipe[g].writeOpenCount > 0 =>
                \/ Discounted(ends)[g].writeOpenCount > 0
                \/ BlockedFor(ReadReason(g)) \subseteq ReadersAtEnd(ends)
<1>1. pipe[g] \in pipeFile /\ pipe[g].writeOpenCount \in Nat
  BY DEF PipeInv, TypeOK, pipeFile
<1>2. CASE ~Exists(g)
  <2>1. Discounted(ends)[g] = pipe[g]
    BY <1>2 DEF Discounted
  <2> QED
    BY <1>2, <2>1 DEF SameData
<1>3. CASE Exists(g)
  <2> DEFINE all == Cardinality(On(ends, g))
             gone == Cardinality(ForWriting(On(ends, g)))
  <2>1. all \in Nat /\ gone \in Nat /\ gone <= pipe[g].writeOpenCount
    BY <1>3, CountedBefore
  <2>2. Discounted(ends)[g] = Counted(pipe[g], -all, -gone)
    BY <1>3 DEF Discounted
  <2>3. pipe[g].writeOpenCount \in 1 .. gone =>
           BlockedFor(ReadReason(g)) \subseteq ReadersAtEnd(ends)
    BY <1>3 DEF ReadersAtEnd
  <2>4. Discounted(ends)[g].writeOpenCount = pipe[g].writeOpenCount - gone
    <3>1. /\ CountedLess(state, fds, pipe, Discounted(ends), ends)
          /\ Discounted(ends)[g].name = pipe[g].name
          /\ ForWriting(On(ends, g)) = EndsIn(state, fds, g, Writing) \cap ends
      BY DiscountEffect, EndsGone DEF PipeInv
    <3> QED
      BY <1>3, <3>1 DEF CountedLess, Exists
  <2> HIDE DEF all, gone
  <2>5. SameData(Discounted(ends)[g], pipe[g])
    BY <1>1, <2>2, CountedData
  <2> QED
    BY <1>1, <2>1, <2>3, <2>4, <2>5
<1> QED
  BY <1>2, <1>3

-----------------------------------------------------------------------------
(* The invariant after a step, without its primed operators.               *)

WriterAfter(p) == state'[p] \in {"READY", "BLOCKED"} /\ call'[p].op = "write" =>
    /\ Len(call'[p].rest) \in 1 .. Full
    /\ state'[p] = "READY" => Distance(pipe', call'[p].file) < Full
    /\ state'[p] = "BLOCKED" => /\ blockedReason'[p] = WriteReason(call'[p].file)
                                /\ Distance(pipe', call'[p].file) = Full
    /\ \A q \in Process : state'[q] \in {"READY", "BLOCKED"} /\ call'[q].op = "write"
                            /\ call'[q].file = call'[p].file => q = p

ReaderAfter(p) == state'[p] \in {"READY", "BLOCKED"} /\ call'[p].op = "read" =>
    /\ call'[p].left \in 1 .. MaxRead /\ call'[p].rest = <<>>
    /\ state'[p] = "BLOCKED" =>
          /\ blockedReason'[p] = ReadReason(call'[p].file)
          /\ Distance(pipe', call'[p].file) = 0 /\ pipe'[call'[p].file].writeOpenCount > 0

SleeperAfter(p) == state'[p] = "BLOCKED" =>
    call'[p].op \in {"read", "write"} \/ blockedReason'[p] = ReadReason(EMPTY)

LEMMA FlowAfter ==
    ASSUME SuspendedInv', RunnerAwake', \A f \in File : Distance(pipe', f) \in 0 .. Full,
           \A p \in Process : WriterAfter(p) /\ ReaderAfter(p) /\ SleeperAfter(p)
    PROVE  FlowInv'
<1>1. \A p \in Process : WriterOK(p)'
  BY DEF WriterAfter, WriterOK, Inside, Live, Pending, Distance
<1>2. \A p \in Process : ReaderOK(p)'
  BY DEF ReaderAfter, ReaderOK, Inside, Live, Pending, Distance
<1>3. \A p \in Process : SleeperOK(p)'
  BY DEF SleeperAfter, SleeperOK, Inside, Live
<1> QED
  BY <1>1, <1>2, <1>3 DEF FlowInv, Pending, Distance

-----------------------------------------------------------------------------
(* Steps that move no data.                                                *)

\* What happens to who is in a call: readers of W wake, the others stay as they are.
CalmFor(W, p) ==
    /\ InCall(state, call, p) /\ call'[p] = call[p]
    /\ p \in W => state'[p] = "READY"
    /\ p \notin W => state'[p] = state[p] /\ blockedReason'[p] = blockedReason[p]
    /\ Distance(pipe', call[p].file) = Distance(pipe, call[p].file)
    /\ Inside(p, "read") /\ state[p] = "BLOCKED" /\ p \notin W =>
         pipe'[call[p].file].writeOpenCount > 0

LEMMA CalmStep ==
    ASSUME FlowInv, SuspendedInv', RunnerAwake', NEW W,
           \A p \in W : \E f \in File : IsBlockedFor(p, ReadReason(f)),
           \A p \in Process : InCall(state', call', p) => CalmFor(W, p),
           \A p \in Process : state'[p] = "BLOCKED" =>
               \/ InCall(state', call', p) \/ blockedReason'[p] = ReadReason(EMPTY)
               \/ /\ state[p] = "BLOCKED" /\ blockedReason'[p] = blockedReason[p]
                  /\ call'[p] = call[p],
           \A f \in File : Distance(pipe', f) \in {0, Distance(pipe, f)}
    PROVE  FlowInv'
<1>1. MAX_PIPE_BUFFER_SIZE \in Nat /\ MAX_PIPE_BUFFER_SIZE > 1 /\ Full \in Nat
  BY PipeAssumption DEF Full
<1>2. \A f : Pending(f) = Distance(pipe, f)
  BY DEF Pending, Distance
<1>3. \A f \in File : Distance(pipe', f) \in 0 .. Full
  BY <1>1, <1>2 DEF FlowInv
<1>4. ASSUME NEW p \in Process, state'[p] \in {"READY", "BLOCKED"}, call'[p].op = "write"
      PROVE  /\ Inside(p, "write") /\ call'[p] = call[p] /\ state'[p] = state[p]
             /\ blockedReason'[p] = blockedReason[p]
             /\ Distance(pipe', call[p].file) = Distance(pipe, call[p].file)
  <2>1. CalmFor(W, p)
    BY <1>4 DEF InCall
  <2>2. Inside(p, "write")
    BY <1>4, <2>1 DEF CalmFor, InCall, Inside, Live
  <2>3. p \notin W
    <3>1. WriterOK(p)
      BY DEF FlowInv
    <3> QED
      BY <2>2, <3>1, Reasons DEF WriterOK, IsBlockedFor
  <2> QED
    BY <2>1, <2>2, <2>3 DEF CalmFor
<1>5. ASSUME NEW p \in Process, state'[p] \in {"READY", "BLOCKED"}, call'[p].op = "write"
      PROVE  /\ Len(call'[p].rest) \in 1 .. Full
             /\ IF state'[p] = "READY" THEN Distance(pipe', call'[p].file) < Full
                ELSE /\ blockedReason'[p] = WriteReason(call'[p].file)
                     /\ Distance(pipe', call'[p].file) = Full
             /\ \A q \in Process : state'[q] \in {"READY", "BLOCKED"} /\ call'[q].op = "write"
                                     /\ call'[q].file = call'[p].file => q = p
  <2>1. /\ Inside(p, "write") /\ call'[p] = call[p] /\ state'[p] = state[p]
        /\ blockedReason'[p] = blockedReason[p]
        /\ Distance(pipe', call[p].file) = Distance(pipe, call[p].file)
    BY <1>4, <1>5
  <2>2. /\ Len(call[p].rest) \in 1 .. Full
        /\ IF state[p] = "READY" THEN Distance(pipe, call[p].file) < Full
           ELSE /\ blockedReason[p] = WriteReason(call[p].file)
                /\ Distance(pipe, call[p].file) = Full
        /\ \A q \in Process : Inside(q, "write") /\ call[q].file = call[p].file => q = p
    BY <1>2, <2>1 DEF FlowInv, WriterOK
  <2>3. ASSUME NEW q \in Process, state'[q] \in {"READY", "BLOCKED"},
               call'[q].op = "write", call'[q].file = call'[p].file
        PROVE  q = p
    <3>1. Inside(q, "write") /\ call'[q] = call[q]
      BY <1>4, <2>3
    <3> QED
      BY <2>1, <2>2, <2>3, <3>1
  <2>4. /\ Len(call'[p].rest) \in 1 .. Full
        /\ IF state'[p] = "READY" THEN Distance(pipe', call'[p].file) < Full
           ELSE /\ blockedReason'[p] = WriteReason(call'[p].file)
                /\ Distance(pipe', call'[p].file) = Full
    BY <2>1, <2>2
  <2> QED
    BY <2>3, <2>4
<1>6. ASSUME NEW p \in Process, state'[p] \in {"READY", "BLOCKED"}, call'[p].op = "read"
      PROVE  /\ call'[p].left \in 1 .. MaxRead /\ call'[p].rest = <<>>
             /\ state'[p] = "BLOCKED" =>
                  /\ blockedReason'[p] = ReadReason(call'[p].file)
                  /\ Distance(pipe', call'[p].file) = 0
                  /\ pipe'[call'[p].file].writeOpenCount > 0
  <2>1. CalmFor(W, p)
    BY <1>6 DEF InCall
  <2>2. Inside(p, "read") /\ ReaderOK(p)
    BY <1>6, <2>1 DEF CalmFor, InCall, Inside, Live, FlowInv
  <2> QED
    BY <1>2, <2>1, <2>2 DEF CalmFor, ReaderOK
<1>7. ASSUME NEW p \in Process, state'[p] = "BLOCKED"
      PROVE  \/ call'[p].op \in {"read", "write"}
             \/ blockedReason'[p] = ReadReason(EMPTY)
  <2>1. SleeperOK(p)
    BY DEF FlowInv
  <2> QED
    BY <1>7, <2>1 DEF SleeperOK, Inside, InCall
<1>8. \A p \in Process : WriterAfter(p) /\ ReaderAfter(p) /\ SleeperAfter(p)
  <2> TAKE p \in Process
  <2>1. WriterAfter(p)
    <3> SUFFICES ASSUME state'[p] \in {"READY", "BLOCKED"}, call'[p].op = "write"
                 PROVE  WriterAfter(p)
      BY DEF WriterAfter
    <3> QED
      BY <1>5 DEF WriterAfter
  <2>2. ReaderAfter(p)
    <3> SUFFICES ASSUME state'[p] \in {"READY", "BLOCKED"}, call'[p].op = "read"
                 PROVE  ReaderAfter(p)
      BY DEF ReaderAfter
    <3> QED
      BY <1>6 DEF ReaderAfter
  <2>3. SleeperAfter(p)
    BY <1>7 DEF SleeperAfter
  <2> QED
    BY <2>1, <2>2, <2>3
<1> QED
  BY <1>3, <1>8, FlowAfter

LEMMA SameDistance ==
    ASSUME NEW files, NEW f, SameData(files[f], pipe[f]) \/ files[f] = NoPipe
    PROVE  /\ Distance(files, f) \in {0, Distance(pipe, f)}
           /\ SameData(files[f], pipe[f]) => Distance(files, f) = Distance(pipe, f)
<1>1. SameData(files[f], pipe[f]) => Distance(files, f) = Distance(pipe, f)
  BY DEF SameData, Distance
<1>2. NoPipe.writingIndex = 0 /\ NoPipe.readingIndex = 0
  BY DEF NoPipe
<1> QED
  BY <1>1, <1>2 DEF Distance

LEMMA UserIsAwake ==
    ASSUME PipeInv, OwnDescriptorsOnly, InUserCode
    PROVE  /\ nowRunning \in Process /\ state[nowRunning] = "READY" /\ Live(nowRunning)
           /\ call[nowRunning].op = "none" /\ MayBlock
BY DEF PipeInv, TypeOK, ProcessTypeOK, InUserCode, Asks, OwnDescriptorsOnly, NoCall, Live,
       MayBlock

\* Who runs next is awake, or goes on in user code.
LEMMA NextIsAwake ==
    ASSUME (nowRunning' = nowRunning /\ call'[nowRunning] = NoCall) \/ Dispatch(state')
    PROVE  RunnerAwake'
<1>1. CASE nowRunning' = nowRunning /\ call'[nowRunning] = NoCall
  BY <1>1 DEF RunnerAwake, NoCall
<1>2. CASE Dispatch(state')
  BY <1>2 DEF RunnerAwake, Dispatch
<1> QED
  BY <1>1, <1>2

\* Ends are opened or put back, and nobody starts, sleeps or wakes.
LEMMA CalmWhenOpening ==
    ASSUME FlowInv, SuspendedInv', OwnDescriptorsOnly, MemoryLasts, OrderlyCalls,
           \/ \E n \in Name : Mkpipe(n) \/ \E mode \in {"R", "W"} : Open(n, mode)
           \/ \E fromFd \in DupSource, toFd \in DupTarget : Dup2(fromFd, toFd)
           \/ RevertFdReplacements
    PROVE  FlowInv'
<1>1. /\ InUserCode /\ call' = call /\ state' = state /\ blockedReason' = blockedReason
      /\ nowRunning' = nowRunning
  BY DEF Mkpipe, Open, Dup2, RevertFdReplacements, processVars
<1>2. PipeInv /\ pipe \in [File -> pipeFile] /\ RunnerAwake'
  BY <1>1, NextIsAwake DEF FlowInv, SuspendedInv, PipeInv, TypeOK, InUserCode
<1>3. ASSUME NEW f \in File
      PROVE  /\ SameData(pipe'[f], pipe[f]) \/ Distance(pipe', f) = 0
             /\ Exists(f) =>
                  /\ SameData(pipe'[f], pipe[f])
                  /\ \A p \in BlockedFor(ReadReason(f)) :
                        pipe[f].writeOpenCount > 0 => pipe'[f].writeOpenCount > 0
  <2>1. pipe[f].writeOpenCount \in Nat
    BY <1>2 DEF pipeFile
  <2>2. ASSUME NEW n \in Name, Mkpipe(n)
        PROVE  /\ SameData(pipe'[f], pipe[f]) \/ Distance(pipe', f) = 0
               /\ Exists(f) => pipe'[f] = pipe[f]
    <3> DEFINE new == [NoPipe EXCEPT !.name = n]
    <3>1. pipe' = [pipe EXCEPT ![fileIdToGive] = new]
      BY <2>2 DEF Mkpipe, MemoryLasts, Asks
    <3>2. new.writingIndex = 0 /\ new.readingIndex = 0
      BY DEF NoPipe
    <3>3. Exists(f) => f # fileIdToGive
      BY <1>2 DEF PipeInv, KnownFiles, Exists, TypeOK
    <3> HIDE DEF new
    <3> QED
      BY <1>2, <3>1, <3>2, <3>3 DEF Distance, SameData
  <2>3. ASSUME NEW g, NEW mode, pipe' = Opened(g, mode)
        PROVE  /\ SameData(pipe'[f], pipe[f])
               /\ pipe[f].writeOpenCount > 0 => pipe'[f].writeOpenCount > 0
    <3>1. CASE g \in File
      <4>1. Opened(g, mode)[f].writeOpenCount \in Nat
        <5>1. Opened(g, mode)[f] \in pipeFile
          BY <1>2, <3>1, OpenedEffect
        <5>2. \A r \in pipeFile : r.writeOpenCount \in Nat
          BY DEF pipeFile
        <5> QED
          BY <5>1, <5>2
      <4> QED
        BY <1>2, <2>1, <2>3, <3>1, <4>1, OpenedData
    <3>2. CASE g \notin File
      <4>1. pipe' = pipe
        BY <1>2, <2>3, <3>2 DEF Opened
      <4> QED
        BY <2>1, <4>1 DEF SameData
    <3> QED
      BY <3>1, <3>2
  <2>4. ASSUME RevertFdReplacements
        PROVE  /\ SameData(pipe'[f], pipe[f])
               /\ Exists(f) /\ pipe[f].writeOpenCount > 0 =>
                    pipe'[f].writeOpenCount > 0 \/ BlockedFor(ReadReason(f)) = {}
    <3> DEFINE ends == EndsOf({nowRunning}) \cap ({nowRunning} \X Replaced)
    <3>1. pipe' = Discounted(ends) /\ ReadersAtEnd(ends) = {}
      BY <2>4 DEF RevertFdReplacements, OrderlyCalls, Asks
    <3>2. ends \in SUBSET EndsOf({p \in Process : Live(p)})
      BY <1>1, <1>2, UserIsAwake DEF EndsOf
    <3> HIDE DEF ends
    <3> QED
      BY <1>2, <3>1, <3>2, DiscountedData
  <2>5. CASE \E n \in Name : Mkpipe(n)
    BY <2>2, <2>5 DEF SameData
  <2>6. CASE \E n \in Name, mode \in {"R", "W"} : Open(n, mode)
    BY <2>1, <2>3, <2>6 DEF Open
  <2>7. CASE \E fromFd \in DupSource, toFd \in DupTarget : Dup2(fromFd, toFd)
    <3>1. pipe' = pipe \/ \E g, mode : pipe' = Opened(g, mode)
      BY <2>7 DEF Dup2
    <3> QED
      BY <2>1, <2>3, <3>1 DEF SameData
  <2>8. CASE RevertFdReplacements
    BY <2>4, <2>8
  <2> QED
    BY <2>5, <2>6, <2>7, <2>8
<1>4. ASSUME NEW p \in Process, InCall(state', call', p)
      PROVE  CalmFor({}, p)
  <2> DEFINE f == call[p].file
  <2>1. InCall(state, call, p) /\ f \in File /\ Exists(f)
    BY <1>1, <1>4, InCallOpen DEF FlowInv, InCall
  <2>2. SameData(pipe'[f], pipe[f])
    BY <1>3, <2>1
  <2>3. ASSUME Inside(p, "read"), state[p] = "BLOCKED"
        PROVE  pipe'[f].writeOpenCount > 0
    <3>1. p \in BlockedFor(ReadReason(f)) /\ pipe[f].writeOpenCount > 0
      BY <2>3 DEF FlowInv, ReaderOK, BlockedFor, IsBlockedFor
    <3> QED
      BY <1>3, <2>1, <3>1
  <2> QED
    BY <1>1, <2>1, <2>2, <2>3, SameDistance DEF CalmFor
<1>5. \A f \in File : Distance(pipe', f) \in {0, Distance(pipe, f)}
  BY <1>3, SameDistance
<1> QED
  BY <1>1, <1>2, <1>4, <1>5, CalmStep

\* Ends go, and their readers wake, if their owner closes them or dies of it.
LEMMA CalmWhenClosing ==
    ASSUME FlowInv, SuspendedInv', RunnerAwake', call' = call,
           NEW ends \in SUBSET EndsOf({p \in Process : Live(p)}), NEW K \in SUBSET Process,
           pipe' = AfterClosing(ends), Change(ReadersAtEnd(ends), K)
    PROVE  FlowInv'
<1> DEFINE W == ReadersAtEnd(ends)
<1>1. \A p \in W : \E f \in File : IsBlockedFor(p, ReadReason(f))
  BY DEF ReadersAtEnd, BlockedFor
<1>2. \A p \in W : state[p] = "BLOCKED"
  BY <1>1 DEF IsBlockedFor
<1>3. PipeInv /\ ProcessTypeOK
  BY DEF FlowInv, SuspendedInv, PipeInv, TypeOK
<1> HIDE DEF W
<1>4. \A p \in Process : /\ p \in K => state'[p] = "FINISHED"
                         /\ p \in W \ K => state'[p] = "READY"
                         /\ p \notin W \cup K =>
                               state'[p] = state[p] /\ blockedReason'[p] = blockedReason[p]
  <2>1. Change(W, K)
    BY DEF W
  <2> QED
    BY <2>1 DEF Change
<1>5. ASSUME NEW p \in Process, InCall(state', call', p)
      PROVE  CalmFor(W, p)
  <2> DEFINE f == call[p].file
  <2>1. p \notin K /\ InCall(state, call, p)
    BY <1>2, <1>4, <1>5 DEF InCall
  <2>2. f \in File /\ pipe'[f].name # NoName
    BY <1>5 DEF SuspendedInv, Held
  <2>3. SameData(pipe'[f], pipe[f])
    BY <1>3, <2>2, ClosingData
  <2>4. ASSUME Inside(p, "read"), state[p] = "BLOCKED", p \notin W
        PROVE  pipe'[f].writeOpenCount > 0
    <3>1. p \in BlockedFor(ReadReason(f)) /\ pipe[f].writeOpenCount > 0
      BY <2>4 DEF FlowInv, ReaderOK, BlockedFor, IsBlockedFor
    <3> QED
      BY <1>3, <2>2, <2>4, <3>1, ClosingData DEF W
  <2> QED
    BY <1>4, <2>1, <2>3, <2>4, SameDistance DEF CalmFor
<1>6. \A f \in File : Distance(pipe', f) \in {0, Distance(pipe, f)}
  BY <1>3, ClosingData, SameDistance
<1>7. \A p \in Process : state'[p] = "BLOCKED" =>
          /\ state[p] = "BLOCKED" /\ blockedReason'[p] = blockedReason[p]
          /\ call'[p] = call[p]
  BY <1>4
<1> QED
  BY <1>1, <1>5, <1>6, <1>7, CalmStep

LEMMA CalmWhenEnding ==
    ASSUME FlowInv, SuspendedInv', OwnDescriptorsOnly,
           \/ Exit \/ Escape \/ \E p \in Process : KillProcess(p)
           \/ \E fd \in Fd : CloseFd(fd)
    PROVE  FlowInv'
<1>1. PipeInv /\ nowRunning \in Process /\ \A p \in Process : Live(p) <=> state[p] \in {"READY", "BLOCKED"}
  BY DEF FlowInv, SuspendedInv, PipeInv, TypeOK, ProcessTypeOK, Live
<1>2. ASSUME NEW K \in SUBSET Process, \A p \in K : Live(p), Kill(K), RunnerAwake'
      PROVE  FlowInv'
  <2> DEFINE ends == EndsOf(K)
  <2>1. ends \in SUBSET EndsOf({p \in Process : Live(p)})
    BY <1>2 DEF EndsOf
  <2>2. call' = call /\ pipe' = AfterClosing(ends) /\ Change(ReadersAtEnd(ends), K)
    BY <1>2 DEF Kill
  <2> HIDE DEF ends
  <2> QED
    BY <1>2, <2>1, <2>2, CalmWhenClosing
<1>3. CASE Exit
  <2>1. Live(nowRunning) /\ Kill({nowRunning}) /\ Dispatch(state')
    BY <1>1, <1>3, UserIsAwake DEF Exit
  <2>2. RunnerAwake'
    BY <2>1, NextIsAwake
  <2> QED
    BY <1>1, <1>2, <2>1, <2>2
<1>4. CASE Escape
  <2> DEFINE K == {p \in Foreground : Live(p)}
  <2>1. K \in SUBSET Process /\ (\A p \in K : Live(p)) /\ Kill(K)
    BY <1>4, ProcessAssumption DEF Escape
  <2>2. nowRunning' = nowRunning /\ call'[nowRunning] = NoCall
    BY <1>4 DEF Escape, InterruptsEnabled, Kill
  <2>3. RunnerAwake'
    BY <2>2, NextIsAwake
  <2> QED
    BY <1>2, <2>1, <2>3
<1>5. ASSUME NEW p \in Process, KillProcess(p) PROVE FlowInv'
  <2>1. Live(p) /\ Kill({p}) /\ Dispatch(state')
    BY <1>5 DEF KillProcess, Asks, OwnDescriptorsOnly
  <2>2. RunnerAwake'
    BY <2>1, NextIsAwake
  <2> QED
    BY <1>2, <2>1, <2>2
<1>6. ASSUME NEW fd \in Fd, CloseFd(fd) PROVE FlowInv'
  <2> DEFINE ends == {<<nowRunning, fd>>}
  <2>1. InUserCode /\ Live(nowRunning)
    BY <1>1, <1>6, UserIsAwake DEF CloseFd
  <2>2. ends \in SUBSET EndsOf({p \in Process : Live(p)})
    BY <1>1, <1>6, <2>1, PipeAssumption DEF EndsOf, CloseFd, Exists, File, STDERR
  <2> HIDE DEF ends
  <2>3. /\ call' = call /\ pipe' = AfterClosing(ends) /\ Change(ReadersAtEnd(ends), {})
        /\ nowRunning' = nowRunning
    BY <1>6 DEF CloseFd, Wake, ends
  <2>4. RunnerAwake'
    BY <2>1, <2>3, NextIsAwake DEF InUserCode
  <2> QED
    BY <2>2, <2>3, <2>4, CalmWhenClosing
<1> QED
  BY <1>3, <1>4, <1>5, <1>6

LEMMA CalmWhenIdle ==
    ASSUME FlowInv, SuspendedInv', OwnDescriptorsOnly,
           \/ \E p \in Process : Tick(p)
           \/ \E fd \in Fd : ReadEmpty(fd)
    PROVE  FlowInv'
<1>1. /\ nowRunning \in Process /\ call \in [Process -> suspendedCall] /\ PipeInv
      /\ ProcessTypeOK
  BY DEF FlowInv, SuspendedInv, PipeInv, TypeOK, ProcessTypeOK
<1>2. pipe' = pipe
  BY DEF Tick, ReadEmpty, fileVars
<1>3. CASE \E p \in Process : Tick(p)
  <2>1. state' = state /\ call' = call /\ blockedReason' = blockedReason
    BY <1>3 DEF Tick
  <2>2. Dispatch(state')
    BY <1>3, <2>1 DEF Tick, Dispatch
  <2>3. RunnerAwake'
    BY <2>2, NextIsAwake
  <2>4. ASSUME NEW p \in Process, InCall(state', call', p)
        PROVE  CalmFor({}, p)
    BY <1>2, <2>1, <2>4 DEF CalmFor, FlowInv, ReaderOK
  <2> QED
    BY <1>2, <2>1, <2>3, <2>4, CalmStep
<1>4. CASE \E fd \in Fd : ReadEmpty(fd)
  <2> DEFINE waiting == [NoCall EXCEPT !.op = "readEmpty"]
  <2>1. /\ call[nowRunning] = NoCall /\ MayBlock /\ BlockRunning(ReadReason(EMPTY))
        /\ call' = [call EXCEPT ![nowRunning].op = "readEmpty"]
    BY <1>4 DEF ReadEmpty, InUserCode
  <2>2. call' = [call EXCEPT ![nowRunning] = waiting]
    BY <2>1, Zenon
  <2>3. waiting.op = "readEmpty"
    BY DEF NoCall
  <2> HIDE DEF waiting
  <2>4. /\ call'[nowRunning].op = "readEmpty"
        /\ \A p \in Process \ {nowRunning} : call'[p] = call[p]
    BY <1>1, <2>2, <2>3
  <2>5. /\ \A p \in Process \ {nowRunning} :
              state'[p] = state[p] /\ blockedReason'[p] = blockedReason[p]
        /\ blockedReason'[nowRunning] = ReadReason(EMPTY)
        /\ Dispatch(state')
    BY <1>1, <2>1 DEF BlockRunning, ProcessTypeOK
  <2>6. RunnerAwake'
    BY <2>5, NextIsAwake
  <2>7. ASSUME NEW p \in Process, InCall(state', call', p)
        PROVE  CalmFor({}, p)
    <3>1. p # nowRunning
      BY <2>4, <2>7 DEF InCall
    <3>2. InCall(state, call, p)
      BY <2>4, <2>5, <2>7, <3>1 DEF InCall
    <3> QED
      BY <1>2, <2>4, <2>5, <3>1, <3>2 DEF CalmFor, FlowInv, ReaderOK
  <2> QED
    BY <1>2, <2>4, <2>5, <2>6, <2>7, CalmStep
<1> QED
  BY <1>3, <1>4

LEMMA CalmWhenStarting ==
    ASSUME FlowInv, SuspendedInv', OwnDescriptorsOnly, NEW q \in Process,
           StartChild(q) \/ StartParent(q)
    PROVE  FlowInv'
<1>1. PICK table : Start(q, table)
  BY DEF StartChild, StartParent
<1>2. /\ InUserCode /\ state[q] = "NONE" /\ state' = [state EXCEPT ![q] = "READY"]
      /\ call' = call /\ blockedReason' = blockedReason /\ nowRunning' = nowRunning
      /\ pipe' = CountedAgain(table)
  BY <1>1 DEF Start
<1>3. /\ PipeInv /\ state \in [Process -> {"NONE", "READY", "BLOCKED", "FINISHED"}]
      /\ call[q] = NoCall
  BY <1>2 DEF FlowInv, SuspendedInv, PipeInv, TypeOK, ProcessTypeOK
<1>4. RunnerAwake'
  BY <1>2, NextIsAwake DEF InUserCode
<1>5. ASSUME NEW f \in File
      PROVE  /\ SameData(pipe'[f], pipe[f])
             /\ pipe[f].writeOpenCount > 0 => pipe'[f].writeOpenCount > 0
  <2>1. pipe'[f] \in pipeFile /\ pipe[f] \in pipeFile
    BY <1>3 DEF SuspendedInv, PipeInv, TypeOK
  <2>2. \A r \in pipeFile : r.writeOpenCount \in Nat
    BY DEF pipeFile
  <2> QED
    BY <1>2, <1>3, <2>1, <2>2, CountedAgainData
<1>6. ASSUME NEW p \in Process, InCall(state', call', p)
      PROVE  CalmFor({}, p)
  <2>1. p # q
    BY <1>2, <1>3, <1>6 DEF InCall, NoCall
  <2>2. state'[p] = state[p] /\ InCall(state, call, p)
    BY <1>2, <1>3, <1>6, <2>1 DEF InCall
  <2>3. call[p].file \in File
    BY <2>2, InCallOpen DEF FlowInv
  <2> QED
    BY <1>2, <1>5, <2>2, <2>3, SameDistance DEF CalmFor, FlowInv, ReaderOK
<1>7. \A f \in File : Distance(pipe', f) \in {0, Distance(pipe, f)}
  BY <1>5, SameDistance
<1>8. \A p \in Process : state'[p] = "BLOCKED" => state[p] = "BLOCKED"
  BY <1>2, <1>3
<1> QED
  BY <1>2, <1>4, <1>6, <1>7, <1>8, CalmStep

-----------------------------------------------------------------------------
(* What write and read do to a ring.                                       *)

LEMMA AppendedData ==
    ASSUME NEW r \in pipeFile, NEW s \in Seq(Char)
    PROVE  /\ Appended(r, s).readingIndex = r.readingIndex
           /\ Appended(r, s).writingIndex = r.writingIndex + Len(s)
           /\ Appended(r, s).buffer = Filled(r.buffer, r.writingIndex, s)
<1> DEFINE buffers == [0 .. MAX_PIPE_BUFFER_SIZE - 1 -> Char \cup {""}]
           b == Filled(r.buffer, r.writingIndex, s)
           n == r.writingIndex + Len(s)
           new == Appended(r, s)
<1>1. r \in [name : Name \cup {NoName}, buffer : buffers, readingIndex : Nat,
             writingIndex : Nat, currentOpenCount : Nat, writeOpenCount : Nat]
  BY DEF pipeFile
<1> HIDE DEF buffers
<1>2. PICK t : t = [r EXCEPT !.writingIndex = n] /\ new = [t EXCEPT !.buffer = b]
  BY <1>1, Zenon DEF Appended
<1> HIDE DEF new, b, n
<1>3. t.readingIndex = r.readingIndex /\ t.writingIndex = n
  BY <1>1, <1>2
<1>4. new.readingIndex = t.readingIndex /\ new.writingIndex = t.writingIndex /\ new.buffer = b
  BY <1>1, <1>2
<1> QED
  BY <1>3, <1>4 DEF new, b, n

LEMMA DrainedData ==
    ASSUME PipeInv, NEW f \in File, NEW k \in Nat,
           pipe' = [pipe EXCEPT ![f].readingIndex = @ + k]
    PROVE  /\ \A g \in File \ {f} : pipe'[g] = pipe[g]
           /\ pipe'[f].readingIndex = pipe[f].readingIndex + k
           /\ pipe'[f].writingIndex = pipe[f].writingIndex
           /\ pipe'[f].buffer = pipe[f].buffer
<1> DEFINE buffers == [0 .. MAX_PIPE_BUFFER_SIZE - 1 -> Char \cup {""}]
           new == [pipe[f] EXCEPT !.readingIndex = @ + k]
<1>1. pipe \in [File -> pipeFile]
  BY DEF PipeInv, TypeOK
<1>2. pipe[f] \in [name : Name \cup {NoName}, buffer : buffers, readingIndex : Nat,
                   writingIndex : Nat, currentOpenCount : Nat, writeOpenCount : Nat]
  BY <1>1 DEF pipeFile
<1> HIDE DEF buffers
<1>3. pipe' = [pipe EXCEPT ![f] = new]
  BY Zenon
<1>4. /\ new.readingIndex = pipe[f].readingIndex + k
      /\ new.writingIndex = pipe[f].writingIndex /\ new.buffer = pipe[f].buffer
  BY <1>2
<1> HIDE DEF new
<1> QED
  BY <1>1, <1>3, <1>4

LEMMA SmallRemainder ==
    ASSUME NEW x \in Nat, x < MAX_PIPE_BUFFER_SIZE
    PROVE  x % MAX_PIPE_BUFFER_SIZE = x
BY PipeAssumption

\* write goes on until there is no room, and read until there is nothing left.
LEMMA WriteMoves ==
    ASSUME PipeInv, NEW f \in File, NEW s \in Seq(Char), NEW sure \in Nat,
           Pending(f) \in Nat, Pending(f) + sure <= Full, MayBlock, WriteOn(f, s, sure)
    PROVE  \E k \in Nat :
             /\ k <= Len(s) /\ pipe' = Stored(f, SubSeq(s, 1, k))
             /\ Distance(pipe', f) = Pending(f) + k /\ Pending(f) + k <= Full
             /\ \/ /\ k = Len(s) /\ Wake(BlockedFor(ReadReason(f)))
                   /\ call' = [call EXCEPT ![nowRunning] = NoCall]
                \/ /\ k < Len(s) /\ Pending(f) + k = Full
                   /\ BlockRunning(WriteReason(f))
                   /\ call' = [call EXCEPT ![nowRunning] =
                                 [op |-> "write", file |-> f,
                                  rest |-> SubSeq(s, k + 1, Len(s)), left |-> 0]]
<1> DEFINE room == sure + Fits(Pending(f) + sure)
           k == Min({Len(s), room})
<1>1. room = Full - Pending(f)
  <2>1. MAX_PIPE_BUFFER_SIZE \in Nat
    BY PipeAssumption
  <2>2. /\ MAX_PIPE_BUFFER_SIZE - 1 - (Pending(f) + sure) \in Nat
        /\ MAX_PIPE_BUFFER_SIZE - 1 - (Pending(f) + sure) < MAX_PIPE_BUFFER_SIZE
    BY <2>1 DEF Full
  <2>3. Fits(Pending(f) + sure) = MAX_PIPE_BUFFER_SIZE - 1 - (Pending(f) + sure)
    BY <2>2, SmallRemainder DEF Fits
  <2> QED
    BY <2>1, <2>3 DEF Full
<1>2. Full \in Nat /\ room \in Nat /\ Len(s) \in Nat
  <2>1. Full \in Nat /\ Len(s) \in Nat
    BY PipeAssumption, LenProperties DEF Full
  <2> HIDE DEF room
  <2> QED
    BY <1>1, <2>1
<1>3. /\ pipe' = Stored(f, SubSeq(s, 1, k))
      /\ \/ /\ k = Len(s) /\ Wake(BlockedFor(ReadReason(f)))
            /\ call' = [call EXCEPT ![nowRunning] = NoCall]
         \/ /\ k < Len(s) /\ BlockRunning(WriteReason(f))
            /\ call' = [call EXCEPT ![nowRunning] =
                          [op |-> "write", file |-> f,
                           rest |-> SubSeq(s, k + 1, Len(s)), left |-> 0]]
  BY DEF WriteOn, WakeReaders
<1> HIDE DEF room
<1>4. k \in Nat /\ k <= Len(s) /\ k <= room /\ (k < Len(s) => k = room)
  <2>1. {Len(s), room} \in SUBSET Nat /\ {Len(s), room} # {}
    BY <1>2
  <2>2. k \in {Len(s), room} /\ \A y \in {Len(s), room} : k <= y
    BY <2>1, MinProperties
  <2> QED
    BY <1>2, <2>2
<1> HIDE DEF k
<1>5. SubSeq(s, 1, k) \in Seq(Char) /\ Len(SubSeq(s, 1, k)) = k
  <2>1. DOMAIN s = 1 .. Len(s) /\ \A j \in 1 .. Len(s) : s[j] \in Char
    BY LenProperties, ElementOfSeq
  <2>2. \A j \in 1 .. k : s[j] \in Char
    BY <1>2, <1>4, <2>1
  <2> QED
    BY <1>2, <1>4, <2>2, SubSeqProperties
<1>6. Distance(pipe', f) = Pending(f) + k
  <2>1. pipe[f] \in pipeFile /\ pipe \in [File -> pipeFile]
    BY DEF PipeInv, TypeOK
  <2>2. pipe'[f] = Appended(pipe[f], SubSeq(s, 1, k))
    BY <1>3, <2>1 DEF Stored
  <2>3. /\ pipe'[f].readingIndex = pipe[f].readingIndex
        /\ pipe'[f].writingIndex = pipe[f].writingIndex + k
    <3>1. PICK t \in Seq(Char) : t = SubSeq(s, 1, k) /\ Len(t) = k
      BY <1>5
    <3>2. PICK r \in pipeFile : r = pipe[f] /\ pipe'[f] = Appended(r, t)
      BY <2>1, <2>2, <3>1
    <3>3. /\ Appended(r, t).readingIndex = r.readingIndex
          /\ Appended(r, t).writingIndex = r.writingIndex + Len(t)
      BY AppendedData
    <3> QED
      BY <3>1, <3>2, <3>3
  <2>4. pipe[f].readingIndex \in Nat /\ pipe[f].writingIndex \in Nat
    BY <2>1 DEF pipeFile
  <2>5. pipe'[f].writingIndex - pipe'[f].readingIndex
          = pipe[f].writingIndex - pipe[f].readingIndex + k
    BY <1>4, <2>3, <2>4
  <2> QED
    BY <2>5 DEF Distance, Pending
<1>7. Pending(f) + k <= Full /\ (k < Len(s) => Pending(f) + k = Full)
  BY <1>1, <1>2, <1>4
<1> QED
  BY <1>3, <1>4, <1>6, <1>7

LEMMA ReadMoves ==
    ASSUME PipeInv, NEW f \in File, NEW n \in Nat, Pending(f) \in 0 .. Full, MayBlock,
           ReadOn(f, n)
    PROVE  \E k \in Nat :
             /\ k <= n /\ k <= Pending(f)
             /\ pipe' = [pipe EXCEPT ![f].readingIndex = @ + k]
             /\ Distance(pipe', f) = Pending(f) - k
             /\ \/ /\ k = n /\ Wake(BlockedFor(WriteReason(f)))
                   /\ call' = [call EXCEPT ![nowRunning] = NoCall]
                   /\ atEnd' = [atEnd EXCEPT ![nowRunning] = FALSE]
                \/ /\ k < n /\ k = Pending(f) /\ pipe[f].writeOpenCount = 0
                   /\ call' = [call EXCEPT ![nowRunning] = NoCall]
                   /\ atEnd' = [atEnd EXCEPT ![nowRunning] = TRUE]
                   /\ UNCHANGED processVars
                \/ /\ k < n /\ k = Pending(f) /\ pipe[f].writeOpenCount # 0
                   /\ BlockRunning(ReadReason(f))
                   /\ call' = [call EXCEPT ![nowRunning] =
                                 [op |-> "read", file |-> f, rest |-> <<>>, left |-> n - k]]
                   /\ UNCHANGED atEnd
<1> DEFINE k == Min({n, Available(f)})
<1>1. Available(f) = Pending(f) /\ Pending(f) \in Nat
  <2>1. Pending(f) \in Nat /\ Pending(f) < MAX_PIPE_BUFFER_SIZE
    BY PipeAssumption DEF Full
  <2> QED
    BY <2>1, SmallRemainder DEF Available
<1>2. k \in Nat /\ k <= n /\ k <= Pending(f) /\ (k < n => k = Pending(f))
  <2>1. {n, Available(f)} \in SUBSET Nat /\ {n, Available(f)} # {}
    BY <1>1
  <2>2. k \in {n, Available(f)} /\ \A y \in {n, Available(f)} : k <= y
    BY <2>1, MinProperties
  <2> QED
    BY <1>1, <2>2
<1>3. /\ pipe' = [pipe EXCEPT ![f].readingIndex = @ + k]
      /\ \/ /\ k = n /\ Wake(BlockedFor(WriteReason(f)))
            /\ call' = [call EXCEPT ![nowRunning] = NoCall]
            /\ atEnd' = [atEnd EXCEPT ![nowRunning] = FALSE]
         \/ /\ k < n /\ pipe[f].writeOpenCount = 0
            /\ call' = [call EXCEPT ![nowRunning] = NoCall]
            /\ atEnd' = [atEnd EXCEPT ![nowRunning] = TRUE]
            /\ UNCHANGED processVars
         \/ /\ k < n /\ pipe[f].writeOpenCount # 0
            /\ BlockRunning(ReadReason(f))
            /\ call' = [call EXCEPT ![nowRunning] =
                          [op |-> "read", file |-> f, rest |-> <<>>, left |-> n - k]]
            /\ UNCHANGED atEnd
  BY DEF ReadOn, WakeWriters
<1> HIDE DEF k
<1>4. Distance(pipe', f) = Pending(f) - k
  <2>1. /\ pipe'[f].readingIndex = pipe[f].readingIndex + k
        /\ pipe'[f].writingIndex = pipe[f].writingIndex
    BY <1>2, <1>3, DrainedData
  <2>2. pipe[f].readingIndex \in Nat /\ pipe[f].writingIndex \in Nat
    BY DEF PipeInv, TypeOK, pipeFile
  <2> QED
    BY <1>2, <2>1, <2>2 DEF Distance, Pending
<1> QED
  BY <1>2, <1>3, <1>4

-----------------------------------------------------------------------------
(* Steps that move data.                                                   *)

\* The processes that are not running, in a call on a pipe that does not change.
LEMMA ElsewhereAfter ==
    ASSUME FlowInv, NEW p \in Process, NEW W, p # nowRunning, call'[p] = call[p],
           p \in W => state'[p] = "READY" /\ blockedReason[p].id # call[p].file,
           p \notin W => state'[p] = state[p] /\ blockedReason'[p] = blockedReason[p],
           state[p] = "BLOCKED" \/ p \notin W,
           pipe'[call[p].file] = pipe[call[p].file],
           \A q \in Process : state'[q] \in {"READY", "BLOCKED"} /\ call'[q].op = "write"
                                /\ call'[q].file = call[p].file => Inside(q, "write") /\ call[q].file = call[p].file
    PROVE  WriterAfter(p) /\ ReaderAfter(p)
<1>1. WriterOK(p) /\ ReaderOK(p)
  BY DEF FlowInv
<1>2. Distance(pipe', call[p].file) = Pending(call[p].file)
  BY DEF Distance, Pending
<1>3. \A f : ReadReason(f).id = f /\ WriteReason(f).id = f
  BY DEF ReadReason, WriteReason
<1>4. state'[p] \in {"READY", "BLOCKED"} => Live(p)
  BY DEF Live
<1>5. CASE p \in W
  BY <1>1, <1>2, <1>3, <1>4, <1>5 DEF WriterAfter, ReaderAfter, WriterOK, ReaderOK, Inside, Live
<1>6. CASE p \notin W
  BY <1>1, <1>2, <1>4, <1>6 DEF WriterAfter, ReaderAfter, WriterOK, ReaderOK, Inside, Live
<1> QED
  BY <1>5, <1>6

\* Who does not run keeps its call, and sleeps, wakes or stays.
LEMMA OthersWhenMoving ==
    ASSUME FlowInv, NEW c, call' = [call EXCEPT ![nowRunning] = c], NEW W,
           \A p \in W : state[p] = "BLOCKED",
           \A p \in Process \ {nowRunning} :
               /\ p \in W => state'[p] = "READY"
               /\ p \notin W => state'[p] = state[p] /\ blockedReason'[p] = blockedReason[p]
    PROVE  /\ nowRunning \in Process => call'[nowRunning] = c
           /\ \A p \in Process \ {nowRunning} :
                 /\ call'[p] = call[p]
                 /\ state'[p] \in {"READY", "BLOCKED"} <=> Live(p)
                 /\ SleeperAfter(p)
<1>1. call \in [Process -> suspendedCall]
  BY DEF FlowInv, SuspendedInv, PipeInv, TypeOK
<1>2. \A p \in Process \ {nowRunning} : call'[p] = call[p]
  BY <1>1
<1>3. \A p \in Process \ {nowRunning} : state'[p] \in {"READY", "BLOCKED"} <=> Live(p)
  BY DEF Live
<1>4. \A p \in Process \ {nowRunning} : SleeperAfter(p)
  BY <1>2 DEF SleeperAfter, FlowInv, SleeperOK, Inside
<1> QED
  BY <1>1, <1>2, <1>3, <1>4

LEMMA FlowWhenWriting ==
    ASSUME FlowInv, SuspendedInv', NEW f \in File, NEW s \in Seq(Char), NEW sure \in Nat,
           Len(s) \in 1 .. Full, Pending(f) + sure <= Full, MayBlock,
           ~Inside(nowRunning, "read"),
           \A q \in Process : Inside(q, "write") /\ call[q].file = f => q = nowRunning,
           WriteOn(f, s, sure)
    PROVE  FlowInv'
<1>1. /\ PipeInv /\ nowRunning \in Process /\ ProcessTypeOK /\ Full \in Nat /\ Pending(f) \in 0 .. Full
      /\ DOMAIN state = Process /\ DOMAIN blockedReason = Process /\ Len(s) \in Nat
      /\ pipe \in [File -> pipeFile]
  BY PipeAssumption DEF FlowInv, SuspendedInv, PipeInv, TypeOK, ProcessTypeOK, Full
<1>2. PICK k \in Nat :
         /\ k <= Len(s) /\ pipe' = Stored(f, SubSeq(s, 1, k))
         /\ Distance(pipe', f) = Pending(f) + k /\ Pending(f) + k <= Full
         /\ \/ /\ k = Len(s) /\ Wake(BlockedFor(ReadReason(f)))
               /\ call' = [call EXCEPT ![nowRunning] = NoCall]
            \/ /\ k < Len(s) /\ Pending(f) + k = Full
               /\ BlockRunning(WriteReason(f))
               /\ call' = [call EXCEPT ![nowRunning] =
                             [op |-> "write", file |-> f,
                              rest |-> SubSeq(s, k + 1, Len(s)), left |-> 0]]
  <2>1. Pending(f) \in Nat
    BY <1>1
  <2> QED
    BY <1>1, <2>1, WriteMoves, Zenon
<1>3. \A g \in File \ {f} : pipe'[g] = pipe[g]
  BY <1>1, <1>2 DEF Stored
<1>4. \A g \in File : Distance(pipe', g) \in 0 .. Full
  <2>1. \A g \in File : g # f => Distance(pipe', g) = Pending(g)
    BY <1>3 DEF Distance, Pending
  <2>2. Distance(pipe', f) \in 0 .. Full
    BY <1>1, <1>2
  <2> QED
    BY <2>1, <2>2 DEF FlowInv
<1>5. \A p \in Process : InCall(state, call, p) => call[p].file \in File
  BY InCallOpen DEF FlowInv
<1>6. CASE /\ k = Len(s) /\ Wake(BlockedFor(ReadReason(f)))
           /\ call' = [call EXCEPT ![nowRunning] = NoCall]
  <2> DEFINE W == BlockedFor(ReadReason(f))
  <2>1. \A p \in W : p \in Process /\ state[p] = "BLOCKED" /\ blockedReason[p] = ReadReason(f)
    BY DEF BlockedFor, IsBlockedFor
  <2>2. \A p \in Process : state[p] = "BLOCKED" /\ blockedReason[p] = ReadReason(f) => p \in W
    BY DEF BlockedFor, IsBlockedFor
  <2> HIDE DEF W
  <2>3. \A p \in Process :
           /\ p \in W => state'[p] = "READY"
           /\ p \notin W => state'[p] = state[p] /\ blockedReason'[p] = blockedReason[p]
    BY <1>6 DEF Wake, Change, W
  <2>4. /\ call'[nowRunning] = NoCall
        /\ \A p \in Process \ {nowRunning} :
              /\ call'[p] = call[p]
              /\ state'[p] \in {"READY", "BLOCKED"} <=> Live(p)
              /\ SleeperAfter(p)
    BY <1>1, <1>6, <2>1, <2>3, OthersWhenMoving
  <2>5. RunnerAwake'
    BY <1>6, <2>4, NextIsAwake DEF Wake
  <2>6. /\ state'[nowRunning] = "READY"
        /\ WriterAfter(nowRunning) /\ ReaderAfter(nowRunning) /\ SleeperAfter(nowRunning)
    BY <1>1, <2>1, <2>3, <2>4 DEF WriterAfter, ReaderAfter, SleeperAfter, NoCall, MayBlock
  <2>7. ASSUME NEW p \in Process, p # nowRunning
        PROVE  WriterAfter(p) /\ ReaderAfter(p)
    <3>1. call'[p] = call[p] /\ (state'[p] \in {"READY", "BLOCKED"} <=> Live(p))
      BY <2>4, <2>7
    <3>2. CASE call[p].op \notin {"read", "write"} \/ ~Live(p)
      BY <3>1, <3>2 DEF WriterAfter, ReaderAfter
    <3>3. CASE call[p].op = "write" /\ Live(p)
      <4>1. Inside(p, "write") /\ call[p].file \in File /\ call[p].file # f
        BY <1>5, <2>7, <3>3 DEF Inside, InCall, Live
      <4>2. WriterOK(p)
        BY DEF FlowInv
      <4>3. p \notin W
        BY <2>1, <4>1, <4>2, Reasons DEF WriterOK
      <4>4. \A q \in Process : state'[q] \in {"READY", "BLOCKED"} /\ call'[q].op = "write"
                                 /\ call'[q].file = call[p].file =>
                                   Inside(q, "write") /\ call[q].file = call[p].file
        BY <2>4 DEF NoCall, Inside
      <4> QED
        BY <1>3, <2>3, <2>7, <3>1, <4>1, <4>3, <4>4, ElsewhereAfter
    <3>4. CASE call[p].op = "read" /\ Live(p)
      <4>1. Inside(p, "read") /\ ReaderOK(p) /\ call[p].file \in File
        BY <1>5, <3>4 DEF FlowInv, Inside, InCall, Live
      <4>2. WriterAfter(p)
        BY <3>1, <3>4 DEF WriterAfter
      <4>3. CASE call[p].file = f
        <5>1. state'[p] # "BLOCKED"
          BY <2>2, <2>3, <4>1, <4>3 DEF ReaderOK
        <5> QED
          BY <3>1, <4>1, <4>2, <5>1 DEF ReaderOK, ReaderAfter
      <4>4. CASE call[p].file # f
        <5>1. state'[p] = "BLOCKED" => state[p] = "BLOCKED" /\ blockedReason'[p] = blockedReason[p]
          BY <2>1, <2>3
        <5>2. /\ Distance(pipe', call[p].file) = Pending(call[p].file)
              /\ pipe'[call[p].file] = pipe[call[p].file]
          BY <1>3, <4>1, <4>4 DEF Distance, Pending
        <5> QED
          BY <3>1, <4>1, <4>2, <5>1, <5>2 DEF ReaderOK, ReaderAfter
      <4> QED
        BY <4>3, <4>4
    <3> QED
      BY <3>2, <3>3, <3>4
  <2> QED
    BY <1>4, <2>4, <2>5, <2>6, <2>7, FlowAfter
<1>7. CASE /\ k < Len(s) /\ Pending(f) + k = Full
           /\ BlockRunning(WriteReason(f))
           /\ call' = [call EXCEPT ![nowRunning] =
                         [op |-> "write", file |-> f,
                          rest |-> SubSeq(s, k + 1, Len(s)), left |-> 0]]
  <2> DEFINE on == [op |-> "write", file |-> f, rest |-> SubSeq(s, k + 1, Len(s)), left |-> 0]
  <2>1. /\ \A p \in Process \ {nowRunning} :
              state'[p] = state[p] /\ blockedReason'[p] = blockedReason[p]
        /\ state'[nowRunning] = "BLOCKED" /\ blockedReason'[nowRunning] = WriteReason(f)
        /\ Dispatch(state')
    BY <1>1, <1>7 DEF BlockRunning
  <2>2. on.op = "write" /\ on.file = f /\ on.rest = SubSeq(s, k + 1, Len(s))
    OBVIOUS
  <2>3. call' = [call EXCEPT ![nowRunning] = on]
    BY <1>7
  <2> HIDE DEF on
  <2>4. /\ call'[nowRunning] = on
        /\ \A p \in Process \ {nowRunning} :
              /\ call'[p] = call[p]
              /\ state'[p] \in {"READY", "BLOCKED"} <=> Live(p)
              /\ SleeperAfter(p)
    <3>1. PICK W : W = {}
      OBVIOUS
    <3>2. /\ \A p \in W : state[p] = "BLOCKED"
          /\ \A p \in Process \ {nowRunning} :
                /\ p \in W => state'[p] = "READY"
                /\ p \notin W => state'[p] = state[p] /\ blockedReason'[p] = blockedReason[p]
      BY <2>1, <3>1
    <3> QED
      BY <1>1, <2>3, <3>2, OthersWhenMoving
  <2>5. RunnerAwake'
    BY <2>1, NextIsAwake
  <2>6. Len(on.rest) \in 1 .. Full
    <3>1. k + 1 \in 1 .. Len(s) + 1 /\ Len(s) <= Full
      BY <1>1, <1>7
    <3>2. Len(SubSeq(s, k + 1, Len(s))) = Len(s) - k
      <4>1. DOMAIN s = 1 .. Len(s) /\ \A j \in 1 .. Len(s) : s[j] \in Char
        BY LenProperties, ElementOfSeq
      <4>2. \A j \in k + 1 .. Len(s) : s[j] \in Char
        BY <1>1, <3>1, <4>1
      <4>3. Len(SubSeq(s, k + 1, Len(s))) =
               IF k + 1 <= Len(s) THEN Len(s) - (k + 1) + 1 ELSE 0
        BY <1>1, <3>1, <4>2, SubSeqProperties
      <4> QED
        BY <1>1, <1>7, <4>3
    <3> QED
      BY <1>1, <1>7, <2>2, <3>1, <3>2
  <2>7. \A q \in Process : state'[q] \in {"READY", "BLOCKED"} /\ call'[q].op = "write"
                             /\ call'[q].file = f => q = nowRunning
    BY <2>4 DEF Inside
  <2>8. WriterAfter(nowRunning) /\ ReaderAfter(nowRunning) /\ SleeperAfter(nowRunning)
    BY <1>2, <1>7, <2>1, <2>2, <2>4, <2>6, <2>7 DEF WriterAfter, ReaderAfter, SleeperAfter
  <2>9. ASSUME NEW p \in Process, p # nowRunning
        PROVE  WriterAfter(p) /\ ReaderAfter(p)
    <3>1. /\ call'[p] = call[p] /\ (state'[p] \in {"READY", "BLOCKED"} <=> Live(p))
          /\ state'[p] = state[p] /\ blockedReason'[p] = blockedReason[p]
      BY <2>1, <2>4, <2>9
    <3>2. CASE call[p].op \notin {"read", "write"} \/ ~Live(p)
      BY <3>1, <3>2 DEF WriterAfter, ReaderAfter
    <3>3. CASE call[p].op \in {"read", "write"} /\ Live(p) /\ call[p].file # f
      <4>1. call[p].file \in File
        BY <1>5, <3>3 DEF InCall, Live
      <4>2. \A q \in Process : state'[q] \in {"READY", "BLOCKED"} /\ call'[q].op = "write"
                                 /\ call'[q].file = call[p].file =>
                                   Inside(q, "write") /\ call[q].file = call[p].file
        BY <2>2, <2>4, <3>3 DEF Inside
      <4>3. pipe'[call[p].file] = pipe[call[p].file]
        BY <1>3, <3>3, <4>1
      <4>4. PICK W : W = {}
        OBVIOUS
      <4>5. p \notin W
        BY <4>4
      <4> QED
        BY <2>9, <3>1, <4>2, <4>3, <4>5, ElsewhereAfter
    <3>4. CASE call[p].op \in {"read", "write"} /\ Live(p) /\ call[p].file = f
      <4>1. call[p].op = "read"
        BY <2>9, <3>4 DEF Inside
      <4>2. ReaderOK(p) /\ Inside(p, "read")
        BY <3>4, <4>1 DEF FlowInv, Inside
      <4>3. state[p] # "BLOCKED"
        BY <1>1, <1>7, <3>4, <4>2 DEF ReaderOK
      <4> QED
        BY <3>1, <4>1, <4>2, <4>3 DEF WriterAfter, ReaderAfter, ReaderOK
    <3> QED
      BY <3>2, <3>3, <3>4
  <2> QED
    BY <1>4, <2>4, <2>5, <2>8, <2>9, FlowAfter
<1> QED
  BY <1>2, <1>6, <1>7

LEMMA FlowWhenReading ==
    ASSUME FlowInv, SuspendedInv', NEW f \in File, NEW n \in 1 .. MaxRead, MayBlock,
           ~Inside(nowRunning, "write"), ReadOn(f, n)
    PROVE  FlowInv'
<1>1. /\ PipeInv /\ nowRunning \in Process /\ ProcessTypeOK /\ Full \in Nat /\ Full > 0
      /\ Pending(f) \in 0 .. Full /\ n \in Nat /\ n >= 1 /\ n <= Full
      /\ DOMAIN state = Process /\ DOMAIN blockedReason = Process
  BY PipeAssumption DEF FlowInv, SuspendedInv, PipeInv, TypeOK, ProcessTypeOK, Full
<1>2. PICK k \in Nat :
         /\ k <= n /\ k <= Pending(f)
         /\ pipe' = [pipe EXCEPT ![f].readingIndex = @ + k]
         /\ Distance(pipe', f) = Pending(f) - k
         /\ \/ /\ k = n /\ Wake(BlockedFor(WriteReason(f)))
               /\ call' = [call EXCEPT ![nowRunning] = NoCall]
               /\ atEnd' = [atEnd EXCEPT ![nowRunning] = FALSE]
            \/ /\ k < n /\ k = Pending(f) /\ pipe[f].writeOpenCount = 0
               /\ call' = [call EXCEPT ![nowRunning] = NoCall]
               /\ atEnd' = [atEnd EXCEPT ![nowRunning] = TRUE]
               /\ UNCHANGED processVars
            \/ /\ k < n /\ k = Pending(f) /\ pipe[f].writeOpenCount # 0
               /\ BlockRunning(ReadReason(f))
               /\ call' = [call EXCEPT ![nowRunning] =
                             [op |-> "read", file |-> f, rest |-> <<>>, left |-> n - k]]
               /\ UNCHANGED atEnd
  BY <1>1, ReadMoves
<1>3. /\ \A g \in File \ {f} : pipe'[g] = pipe[g]
      /\ pipe'[f].writeOpenCount = pipe[f].writeOpenCount /\ pipe[f].writeOpenCount \in Nat
  <2>1. SameEnds([pipe EXCEPT ![f].readingIndex = @ + k])
    BY <1>1, DrainedEffect
  <2>2. SameEnds(pipe')
    BY <1>2, <2>1
  <2>3. pipe[f].writeOpenCount \in Nat
    BY <1>1 DEF PipeInv, TypeOK, pipeFile
  <2> QED
    BY <1>1, <1>2, <2>2, <2>3, DrainedData DEF SameEnds
<1>4. \A g \in File : Distance(pipe', g) \in 0 .. Full
  <2>1. \A g \in File : g # f => Distance(pipe', g) = Pending(g)
    BY <1>3 DEF Distance, Pending
  <2>2. Distance(pipe', f) \in 0 .. Full
    BY <1>1, <1>2
  <2> QED
    BY <2>1, <2>2 DEF FlowInv
<1>5. \A p \in Process : InCall(state, call, p) => call[p].file \in File
  BY InCallOpen DEF FlowInv
<1>6. CASE /\ k = n /\ Wake(BlockedFor(WriteReason(f)))
           /\ call' = [call EXCEPT ![nowRunning] = NoCall]
  <2> DEFINE W == BlockedFor(WriteReason(f))
  <2>1. \A p \in W : p \in Process /\ state[p] = "BLOCKED" /\ blockedReason[p] = WriteReason(f)
    BY DEF BlockedFor, IsBlockedFor
  <2>2. \A p \in Process : state[p] = "BLOCKED" /\ blockedReason[p] = WriteReason(f) => p \in W
    BY DEF BlockedFor, IsBlockedFor
  <2> HIDE DEF W
  <2>3. \A p \in Process :
           /\ p \in W => state'[p] = "READY"
           /\ p \notin W => state'[p] = state[p] /\ blockedReason'[p] = blockedReason[p]
    BY <1>6 DEF Wake, Change, W
  <2>4. /\ call'[nowRunning] = NoCall
        /\ \A p \in Process \ {nowRunning} :
              /\ call'[p] = call[p]
              /\ state'[p] \in {"READY", "BLOCKED"} <=> Live(p)
              /\ SleeperAfter(p)
    BY <1>1, <1>6, <2>1, <2>3, OthersWhenMoving
  <2>5. RunnerAwake'
    BY <1>6, <2>4, NextIsAwake DEF Wake
  <2>6. /\ state'[nowRunning] = "READY"
        /\ WriterAfter(nowRunning) /\ ReaderAfter(nowRunning) /\ SleeperAfter(nowRunning)
    BY <1>1, <2>1, <2>3, <2>4 DEF WriterAfter, ReaderAfter, SleeperAfter, NoCall, MayBlock
  <2>7. ASSUME NEW p \in Process, p # nowRunning
        PROVE  WriterAfter(p) /\ ReaderAfter(p)
    <3>1. call'[p] = call[p] /\ (state'[p] \in {"READY", "BLOCKED"} <=> Live(p))
      BY <2>4, <2>7
    <3>2. CASE call[p].op \notin {"read", "write"} \/ ~Live(p)
      BY <3>1, <3>2 DEF WriterAfter, ReaderAfter
    <3>3. CASE call[p].op = "read" /\ Live(p)
      <4>1. Inside(p, "read") /\ ReaderOK(p) /\ call[p].file \in File
        BY <1>5, <3>3 DEF FlowInv, Inside, InCall, Live
      <4>2. WriterAfter(p)
        BY <3>1, <3>3 DEF WriterAfter
      <4>3. state'[p] = "BLOCKED" => state[p] = "BLOCKED" /\ blockedReason'[p] = blockedReason[p]
        BY <2>1, <2>3
      <4>4. CASE call[p].file = f
        <5>1. state'[p] # "BLOCKED"
          BY <1>1, <1>2, <1>6, <4>1, <4>3, <4>4 DEF ReaderOK
        <5> QED
          BY <3>1, <4>1, <4>2, <5>1 DEF ReaderOK, ReaderAfter
      <4>5. CASE call[p].file # f
        <5>1. /\ Distance(pipe', call[p].file) = Pending(call[p].file)
              /\ pipe'[call[p].file] = pipe[call[p].file]
          BY <1>3, <4>1, <4>5 DEF Distance, Pending
        <5> QED
          BY <3>1, <4>1, <4>2, <4>3, <5>1 DEF ReaderOK, ReaderAfter
      <4> QED
        BY <4>4, <4>5
    <3>4. CASE call[p].op = "write" /\ Live(p)
      <4>1. Inside(p, "write") /\ WriterOK(p) /\ call[p].file \in File
        BY <1>5, <3>4 DEF FlowInv, Inside, InCall, Live
      <4>2. ReaderAfter(p)
        BY <3>1, <3>4 DEF ReaderAfter
      <4>3. \A q \in Process : state'[q] \in {"READY", "BLOCKED"} /\ call'[q].op = "write"
                                 /\ call'[q].file = call[p].file => q = p
        BY <2>4, <4>1 DEF NoCall, Inside, WriterOK
      <4>4. CASE call[p].file = f
        <5>1. state[p] = "READY" => Pending(f) < Full
          BY <4>1, <4>4 DEF WriterOK
        <5>2. state[p] = "BLOCKED" => state'[p] = "READY"
          BY <2>2, <2>3, <4>1, <4>4 DEF WriterOK
        <5>3. state[p] = "READY" => state'[p] = "READY"
          BY <2>1, <2>3
        <5>4. state'[p] = "READY"
          BY <3>4, <5>2, <5>3 DEF Live
        <5>5. Distance(pipe', f) < Full
          BY <1>1, <1>2, <1>6
        <5> QED
          BY <3>1, <4>1, <4>2, <4>3, <4>4, <5>4, <5>5 DEF WriterOK, WriterAfter
      <4>5. CASE call[p].file # f
        <5>1. p \notin W
          BY <2>1, <4>1, <4>5, Reasons DEF WriterOK
        <5>2. /\ Distance(pipe', call[p].file) = Pending(call[p].file)
              /\ state'[p] = state[p] /\ blockedReason'[p] = blockedReason[p]
          BY <1>3, <2>3, <4>1, <4>5, <5>1 DEF Distance, Pending
        <5> QED
          BY <3>1, <4>1, <4>2, <4>3, <5>2 DEF WriterOK, WriterAfter
      <4> QED
        BY <4>4, <4>5
    <3> QED
      BY <3>2, <3>3, <3>4
  <2> QED
    BY <1>4, <2>4, <2>5, <2>6, <2>7, FlowAfter
<1>7. ASSUME k < n, k = Pending(f), NEW c, call' = [call EXCEPT ![nowRunning] = c],
             \A p \in Process \ {nowRunning} :
                 state'[p] = state[p] /\ blockedReason'[p] = blockedReason[p],
             c.op # "write", RunnerAwake', ReaderAfter(nowRunning), SleeperAfter(nowRunning)
      PROVE  FlowInv'
  <2>1. PICK W : W = {}
    OBVIOUS
  <2>2. /\ \A p \in W : state[p] = "BLOCKED"
        /\ \A p \in Process \ {nowRunning} :
              /\ p \in W => state'[p] = "READY"
              /\ p \notin W => state'[p] = state[p] /\ blockedReason'[p] = blockedReason[p]
    BY <1>7, <2>1
  <2>3. /\ call'[nowRunning] = c
        /\ \A p \in Process \ {nowRunning} :
              /\ call'[p] = call[p]
              /\ state'[p] \in {"READY", "BLOCKED"} <=> Live(p)
              /\ SleeperAfter(p)
    BY <1>1, <1>7, <2>2, OthersWhenMoving
  <2>4. WriterAfter(nowRunning)
    BY <1>7, <2>3 DEF WriterAfter
  <2>5. ASSUME NEW p \in Process, p # nowRunning
        PROVE  WriterAfter(p) /\ ReaderAfter(p)
    <3>1. /\ call'[p] = call[p] /\ (state'[p] \in {"READY", "BLOCKED"} <=> Live(p))
          /\ state'[p] = state[p] /\ blockedReason'[p] = blockedReason[p]
      BY <1>7, <2>3, <2>5
    <3>2. CASE call[p].op \notin {"read", "write"} \/ ~Live(p)
      BY <3>1, <3>2 DEF WriterAfter, ReaderAfter
    <3>3. CASE call[p].op = "read" /\ Live(p)
      <4>1. Inside(p, "read") /\ ReaderOK(p) /\ call[p].file \in File
        BY <1>5, <3>3 DEF FlowInv, Inside, InCall, Live
      <4>2. WriterAfter(p)
        BY <3>1, <3>3 DEF WriterAfter
      <4>3. CASE call[p].file = f
        <5>1. /\ Distance(pipe', f) = 0
              /\ pipe'[f].writeOpenCount = pipe[f].writeOpenCount
          BY <1>1, <1>2, <1>3, <1>7
        <5> QED
          BY <3>1, <4>1, <4>2, <4>3, <5>1 DEF ReaderOK, ReaderAfter
      <4>4. CASE call[p].file # f
        <5>1. /\ Distance(pipe', call[p].file) = Pending(call[p].file)
              /\ pipe'[call[p].file] = pipe[call[p].file]
          BY <1>3, <4>1, <4>4 DEF Distance, Pending
        <5> QED
          BY <3>1, <4>1, <4>2, <5>1 DEF ReaderOK, ReaderAfter
      <4> QED
        BY <4>3, <4>4
    <3>4. CASE call[p].op = "write" /\ Live(p)
      <4>1. Inside(p, "write") /\ WriterOK(p) /\ call[p].file \in File
        BY <1>5, <3>4 DEF FlowInv, Inside, InCall, Live
      <4>2. ReaderAfter(p)
        BY <3>1, <3>4 DEF ReaderAfter
      <4>3. \A q \in Process : state'[q] \in {"READY", "BLOCKED"} /\ call'[q].op = "write"
                                 /\ call'[q].file = call[p].file => q = p
        BY <1>7, <2>3, <4>1 DEF Inside, WriterOK
      <4>4. CASE call[p].file = f
        <5>1. state[p] = "READY"
          BY <1>1, <1>7, <4>1, <4>4, <3>4 DEF WriterOK, Live
        <5>2. Distance(pipe', f) < Full
          BY <1>1, <1>2, <1>7
        <5> QED
          BY <3>1, <4>1, <4>2, <4>3, <4>4, <5>1, <5>2 DEF WriterOK, WriterAfter
      <4>5. CASE call[p].file # f
        <5>1. Distance(pipe', call[p].file) = Pending(call[p].file)
          BY <1>3, <4>1, <4>5 DEF Distance, Pending
        <5> QED
          BY <3>1, <4>1, <4>2, <4>3, <5>1 DEF WriterOK, WriterAfter
      <4> QED
        BY <4>4, <4>5
    <3> QED
      BY <3>2, <3>3, <3>4
  <2> QED
    BY <1>4, <1>7, <2>3, <2>4, <2>5, FlowAfter
<1>8. CASE /\ k < n /\ k = Pending(f) /\ pipe[f].writeOpenCount = 0
           /\ call' = [call EXCEPT ![nowRunning] = NoCall]
           /\ atEnd' = [atEnd EXCEPT ![nowRunning] = TRUE]
           /\ UNCHANGED processVars
  <2>1. state' = state /\ blockedReason' = blockedReason /\ nowRunning' = nowRunning
    BY <1>8 DEF processVars
  <2>2. call'[nowRunning] = NoCall /\ NoCall.op = "none"
    BY <1>1, <1>8 DEF PipeInv, TypeOK, NoCall
  <2>3. RunnerAwake'
    BY <2>1, <2>2, NextIsAwake
  <2>4. ReaderAfter(nowRunning) /\ SleeperAfter(nowRunning)
    BY <2>1, <2>2 DEF ReaderAfter, SleeperAfter, MayBlock
  <2> QED
    BY <1>7, <1>8, <2>1, <2>2, <2>3, <2>4
<1>9. CASE /\ k < n /\ k = Pending(f) /\ pipe[f].writeOpenCount # 0
           /\ BlockRunning(ReadReason(f))
           /\ call' = [call EXCEPT ![nowRunning] =
                         [op |-> "read", file |-> f, rest |-> <<>>, left |-> n - k]]
  <2> DEFINE on == [op |-> "read", file |-> f, rest |-> <<>>, left |-> n - k]
  <2>1. /\ \A p \in Process \ {nowRunning} :
              state'[p] = state[p] /\ blockedReason'[p] = blockedReason[p]
        /\ state'[nowRunning] = "BLOCKED" /\ blockedReason'[nowRunning] = ReadReason(f)
        /\ Dispatch(state')
    BY <1>1, <1>9 DEF BlockRunning
  <2>2. on.op = "read" /\ on.file = f /\ on.left = n - k /\ on.rest = <<>>
    OBVIOUS
  <2>3. call' = [call EXCEPT ![nowRunning] = on]
    BY <1>9
  <2> HIDE DEF on
  <2>4. call'[nowRunning] = on
    BY <1>1, <2>3 DEF PipeInv, TypeOK
  <2>5. RunnerAwake'
    BY <2>1, NextIsAwake
  <2>6. /\ n - k \in 1 .. MaxRead /\ Distance(pipe', f) = 0
        /\ pipe'[f].writeOpenCount > 0
    <3>1. n - k \in 1 .. MaxRead
      BY <1>1, <1>9, PipeAssumption
    <3>2. Distance(pipe', f) = 0
      BY <1>1, <1>2, <1>9
    <3>3. pipe'[f].writeOpenCount > 0
      BY <1>3, <1>9
    <3> QED
      BY <3>1, <3>2, <3>3
  <2>7. ReaderAfter(nowRunning) /\ SleeperAfter(nowRunning)
    BY <2>1, <2>2, <2>4, <2>6 DEF ReaderAfter, SleeperAfter
  <2> QED
    BY <1>7, <1>9, <2>1, <2>2, <2>3, <2>5, <2>7
<1> QED
  BY <1>2, <1>6, <1>8, <1>9

LEMMA FlowWithData ==
    ASSUME FlowInv, SuspendedInv', OwnDescriptorsOnly, OrderlyCalls,
           \/ ResumeWrite \/ ResumeRead
           \/ \E fd \in Fd : \/ \E s \in Text : Write(fd, s)
                             \/ \E n \in 1 .. MaxRead : Read(fd, n)
    PROVE  FlowInv'
<1>1. PipeInv /\ nowRunning \in Process /\ Full \in Nat
  BY PipeAssumption DEF FlowInv, SuspendedInv, PipeInv, TypeOK, ProcessTypeOK, Full
<1>2. ASSUME call[nowRunning].op \in {"read", "write"}
      PROVE  /\ MayBlock /\ Live(nowRunning) /\ call[nowRunning].file \in File
             /\ call[nowRunning].rest \in Seq(Char)
             /\ WriterOK(nowRunning) /\ ReaderOK(nowRunning)
  BY <1>1, <1>2, SuspendedCall DEF FlowInv, RunnerAwake, MayBlock, Live
<1>3. CASE ResumeWrite
  <2> DEFINE f == call[nowRunning].file
             s == call[nowRunning].rest
  <2>1. call[nowRunning].op = "write" /\ WriteOn(f, s, 1)
    BY <1>3 DEF ResumeWrite
  <2>2. /\ f \in File /\ s \in Seq(Char) /\ MayBlock /\ Inside(nowRunning, "write")
        /\ ~Inside(nowRunning, "read") /\ WriterOK(nowRunning)
    BY <1>2, <2>1 DEF Inside
  <2>3. /\ Len(s) \in 1 .. Full /\ Pending(f) < Full
        /\ \A q \in Process : Inside(q, "write") /\ call[q].file = f => q = nowRunning
    BY <2>2 DEF WriterOK, MayBlock
  <2> HIDE DEF f, s
  <2>4. Pending(f) + 1 <= Full
    BY <1>1, <2>2, <2>3 DEF FlowInv
  <2> QED
    BY <2>1, <2>2, <2>3, <2>4, FlowWhenWriting
<1>4. CASE ResumeRead
  <2>1. call[nowRunning].op = "read" /\ ReadOn(call[nowRunning].file, call[nowRunning].left)
    BY <1>4 DEF ResumeRead
  <2>2. /\ call[nowRunning].file \in File /\ call[nowRunning].left \in 1 .. MaxRead
        /\ MayBlock /\ ~Inside(nowRunning, "write")
    BY <1>2, <2>1 DEF Inside, ReaderOK
  <2> QED
    BY <2>1, <2>2, FlowWhenReading
<1>5. ASSUME NEW fd \in Fd, NEW s \in Text, Write(fd, s)
      PROVE  FlowInv'
  <2> DEFINE f == fds[nowRunning][fd].fileID
  <2>1. InUserCode /\ f \in File /\ WriteOn(f, s, 0)
    BY <1>5 DEF Write, Exists
  <2>2. Len(s) < MAX_PIPE_BUFFER_SIZE /\ SuspendedIn("write", f) = {}
    BY <1>5 DEF Write, Asks, OrderlyCalls
  <2> HIDE DEF f
  <2>3. \A q \in Process : Inside(q, "write") /\ call[q].file = f => q = nowRunning
    BY <2>2 DEF SuspendedIn, Inside
  <2>4. s \in Seq(Char) /\ s # <<>>
    BY PipeAssumption
  <2>5. Len(s) \in 1 .. Full
    <3>1. Len(s) \in Nat /\ Len(s) # 0
      BY <2>4, EmptySeq, LenProperties
    <3> QED
      BY <2>2, <3>1, PipeAssumption DEF Full
  <2>6. Pending(f) + 0 <= Full
    BY <1>1, <2>1 DEF FlowInv
  <2>7. MayBlock /\ ~Inside(nowRunning, "read")
    BY <1>1, <2>1, UserIsAwake DEF Inside
  <2> QED
    BY <2>1, <2>3, <2>4, <2>5, <2>6, <2>7, FlowWhenWriting
<1>6. ASSUME NEW fd \in Fd, NEW n \in 1 .. MaxRead, Read(fd, n)
      PROVE  FlowInv'
  <2> DEFINE f == fds[nowRunning][fd].fileID
  <2>1. InUserCode /\ f \in File /\ ReadOn(f, n)
    BY <1>6 DEF Read, Exists
  <2> HIDE DEF f
  <2>2. MayBlock /\ ~Inside(nowRunning, "write")
    BY <1>1, <2>1, UserIsAwake DEF Inside
  <2> QED
    BY <2>1, <2>2, FlowWhenReading
<1> QED
  BY <1>3, <1>4, <1>5, <1>6

-----------------------------------------------------------------------------
(* The theorems.                                                           *)

LEMMA FlowInit == Init => FlowInv
<1> SUFFICES ASSUME Init PROVE FlowInv
  OBVIOUS
<1>1. SuspendedInv
  BY PipeInvInit DEF Init, SuspendedInv, Held, InCall, NoCall
<1>2. \A p \in Process : state[p] # "BLOCKED" /\ call[p].op = "none"
  BY DEF Init, NoCall
<1>3. RunnerAwake
  BY <1>1, <1>2 DEF RunnerAwake, SuspendedInv, PipeInv, TypeOK, ProcessTypeOK
<1>4. \A f \in File : Pending(f) = 0
  <2>1. NoPipe.writingIndex = 0 /\ NoPipe.readingIndex = 0
    BY DEF NoPipe
  <2>2. \A f \in File : pipe[f] = NoPipe
    BY DEF Init
  <2> QED
    BY <2>1, <2>2 DEF Pending
<1>5. Full \in Nat
  BY PipeAssumption DEF Full
<1> QED
  BY <1>1, <1>2, <1>3, <1>4, <1>5 DEF FlowInv, WriterOK, ReaderOK, SleeperOK, Inside

LEMMA FlowStep ==
    ASSUME FlowInv, OwnDescriptorsOnly, MemoryLasts, OrderlyCalls, [Next]_pipeVars
    PROVE  FlowInv'
<1>1. SuspendedInv'
  BY SuspendedStep DEF FlowInv
<1>2. CASE UNCHANGED pipeVars
  BY <1>1, <1>2 DEF pipeVars, processVars, fileVars, FlowInv, RunnerAwake, WriterOK, ReaderOK,
                    SleeperOK, Inside, Live, Pending
<1>3. CASE \/ \E n \in Name : Mkpipe(n) \/ \E mode \in {"R", "W"} : Open(n, mode)
           \/ \E fromFd \in DupSource, toFd \in DupTarget : Dup2(fromFd, toFd)
           \/ RevertFdReplacements
  BY <1>1, <1>3, CalmWhenOpening
<1>4. CASE \/ ResumeWrite \/ ResumeRead
           \/ \E fd \in Fd : \/ \E s \in Text : Write(fd, s)
                             \/ \E n \in 1 .. MaxRead : Read(fd, n)
  BY <1>1, <1>4, FlowWithData
<1>5. CASE \/ \E p \in Process : Tick(p)
           \/ \E fd \in Fd : ReadEmpty(fd)
  BY <1>1, <1>5, CalmWhenIdle
<1>6. CASE \E p \in Process : StartChild(p) \/ StartParent(p)
  BY <1>1, <1>6, CalmWhenStarting
<1>7. CASE \/ Exit \/ Escape \/ \E p \in Process : KillProcess(p)
           \/ \E fd \in Fd : CloseFd(fd)
  BY <1>1, <1>7, CalmWhenEnding
<1> QED
  BY <1>2, <1>3, <1>4, <1>5, <1>6, <1>7 DEF Next

LEMMA FlowInvHolds ==
    ASSUME OwnDescriptorsOnly, MemoryLasts, OrderlyCalls
    PROVE  Spec => []FlowInv
<1>1. Init => FlowInv
  BY FlowInit
<1>2. FlowInv /\ [Next]_pipeVars => FlowInv'
  BY FlowStep
<1> QED
  BY <1>1, <1>2, PTL DEF Spec

\* Nobody sleeps in read on a pipe that has something for it, or that nobody can write
\* to any more: every write wakes the readers, and every way in which the last write
\* end goes does too.
THEOREM ReadersSleepForNothing ==
    ASSUME OwnDescriptorsOnly, MemoryLasts, OrderlyCalls
    PROVE  Spec => []ReadersSleepRightly
<1>1. FlowInv => ReadersSleepRightly
  BY FlowGives
<1> QED
  BY <1>1, FlowInvHolds, PTL

\* Nobody sleeps in write on a pipe that has room: every read that takes what it asked
\* for wakes the writer, and one that takes less finds no writer asleep.
THEOREM WritersSleepForRoom ==
    ASSUME OwnDescriptorsOnly, MemoryLasts, OrderlyCalls
    PROVE  Spec => []WritersSleepRightly
<1>1. FlowInv => WritersSleepRightly
  BY FlowGives
<1> QED
  BY <1>1, FlowInvHolds, PTL

-----------------------------------------------------------------------------
(* The ring as a sequence.  Its operators speak of a pipe as a record, so  *)
(* that they hold of it before and after a step.                           *)

Queued(r) == [i \in 1 .. r.writingIndex - r.readingIndex |->
                 r.buffer[(r.readingIndex + i - 1) % MAX_PIPE_BUFFER_SIZE]]

\* What is between the indices was written.
RingOK(r) ==
    /\ r.writingIndex - r.readingIndex \in 0 .. Full
    /\ \A i \in 1 .. r.writingIndex - r.readingIndex :
          r.buffer[(r.readingIndex + i - 1) % MAX_PIPE_BUFFER_SIZE] \in Char

RingsOK(files) ==
    \A f \in File : /\ RingOK(files[f])
                    /\ files[f].name = NoName => Distance(files, f) = 0

QueueInv == FlowInv /\ RingsOK(pipe)

\* A string that is put in a ring is in its own places, and leaves those before it, up
\* to a ring's length back, as they were.
LEMMA FilledPlaces ==
    ASSUME NEW ring, DOMAIN ring = 0 .. MAX_PIPE_BUFFER_SIZE - 1, NEW w \in Nat,
           NEW s \in Seq(Char), Len(s) < MAX_PIPE_BUFFER_SIZE
    PROVE  /\ \A j \in 1 .. Len(s) :
                 Filled(ring, w, s)[(w + j - 1) % MAX_PIPE_BUFFER_SIZE] = s[j]
           /\ \A x \in Nat : x < w /\ w + Len(s) - x <= MAX_PIPE_BUFFER_SIZE =>
                 Filled(ring, w, s)[x % MAX_PIPE_BUFFER_SIZE] = ring[x % MAX_PIPE_BUFFER_SIZE]
<1> DEFINE m == MAX_PIPE_BUFFER_SIZE
           at(i) == {j \in DOMAIN s : (w + j - 1) % m = i}
<1>1. m \in Nat /\ m > 1
  BY PipeAssumption
<1>2. Len(s) \in Nat /\ DOMAIN s = 1 .. Len(s) /\ Len(s) < m
  BY LenProperties
<1>3. \A x \in Nat : x % m \in DOMAIN ring
  <2>1. DOMAIN ring = 0 .. m - 1
    OBVIOUS
  <2> HIDE DEF m
  <2>2. \A x \in Nat : x % m \in 0 .. m - 1
    BY <1>1
  <2> QED
    BY <2>1, <2>2
<1>4. \A i \in DOMAIN ring :
         Filled(ring, w, s)[i] = IF at(i) = {} THEN ring[i] ELSE s[Max(at(i))]
  BY DEF Filled
<1>5. \A a, b \in Nat : a < b /\ b - a < m => a % m # b % m
  BY <1>1, OwnRemainders
<1> HIDE DEF m
<1>6. ASSUME NEW j \in 1 .. Len(s)
      PROVE  Filled(ring, w, s)[(w + j - 1) % m] = s[j]
  <2> DEFINE i == (w + j - 1) % m
  <2>0. w + j - 1 \in Nat
    BY <1>2
  <2>1. w + j - 1 \in Nat /\ i \in DOMAIN ring
    BY <1>3, <2>0, Zenon
  <2>2. ASSUME NEW k \in 1 .. Len(s), k # j PROVE (w + k - 1) % m # (w + j - 1) % m
    <3>1. w + k - 1 \in Nat /\ w + j - 1 \in Nat
      BY <1>2
    <3>2. CASE k < j
      <4>1. w + k - 1 < w + j - 1 /\ (w + j - 1) - (w + k - 1) < m
        BY <1>1, <1>2, <3>2
      <4> QED
        BY <1>5, <3>1, <4>1
    <3>3. CASE j < k
      <4>1. w + j - 1 < w + k - 1 /\ (w + k - 1) - (w + j - 1) < m
        BY <1>1, <1>2, <3>3
      <4> QED
        BY <1>5, <3>1, <4>1
    <3> QED
      BY <1>2, <2>2, <3>2, <3>3
  <2>3. at(i) = {j}
    BY <1>2, <2>2
  <2>4. Max({j}) = j
    <3>1. {j} \in SUBSET Nat /\ {j} # {} /\ Len(s) \in Nat /\ \A y \in {j} : y <= Len(s)
      BY <1>2
    <3> QED
      BY <3>1, MaxProperties
  <2> HIDE DEF i, at
  <2> QED
    BY <1>4, <2>1, <2>3, <2>4 DEF i
<1>7. ASSUME NEW x \in Nat, x < w, w + Len(s) - x <= m
      PROVE  Filled(ring, w, s)[x % m] = ring[x % m]
  <2>1. ASSUME NEW k \in 1 .. Len(s) PROVE (w + k - 1) % m # x % m
    <3>1. w + k - 1 \in Nat /\ x < w + k - 1 /\ (w + k - 1) - x < m
      BY <1>1, <1>2, <1>7
    <3> QED
      BY <1>5, <3>1
  <2>2. at(x % m) = {}
    BY <1>2, <2>1
  <2> HIDE DEF at
  <2> QED
    BY <1>3, <1>4, <2>2
<1> QED
  BY <1>6, <1>7 DEF m

-----------------------------------------------------------------------------
(* The ring as a queue: a write appends, a read takes from the front.      *)

LEMMA QueuedIs ==
    ASSUME NEW r, RingOK(r)
    PROVE  /\ Queued(r) \in Seq(Char)
           /\ Len(Queued(r)) = r.writingIndex - r.readingIndex
           /\ \A i \in 1 .. r.writingIndex - r.readingIndex :
                 Queued(r)[i] = r.buffer[(r.readingIndex + i - 1) % MAX_PIPE_BUFFER_SIZE]
<1> DEFINE n == r.writingIndex - r.readingIndex
           c(i) == r.buffer[(r.readingIndex + i - 1) % MAX_PIPE_BUFFER_SIZE]
<1>1. n \in Nat /\ \A i \in 1 .. n : c(i) \in Char
  BY PipeAssumption DEF RingOK, Full
<1>2. Queued(r) = [i \in 1 .. n |-> c(i)]
  BY DEF Queued
<1> HIDE DEF n, c
<1>3. Queued(r) \in [1 .. n -> Char] /\ \A i \in 1 .. n : Queued(r)[i] = c(i)
  BY <1>1, <1>2
<1>4. Queued(r) \in Seq(Char)
  BY <1>1, <1>3, SeqDef
<1>5. Len(Queued(r)) = n
  BY <1>1, <1>3, <1>4, LenProperties
<1> QED
  BY <1>3, <1>4, <1>5 DEF n, c

LEMMA QueuedWhenSame ==
    ASSUME NEW r, NEW s, SameData(r, s)
    PROVE  /\ Queued(r) = Queued(s)
           /\ RingOK(s) => RingOK(r)
BY DEF SameData, Queued, RingOK

LEMMA QueuedWhenEmpty ==
    ASSUME NEW r, r.writingIndex - r.readingIndex = 0
    PROVE  RingOK(r) /\ Queued(r) = <<>>
<1>1. RingOK(r)
  BY PipeAssumption DEF RingOK, Full
<1> QED
  BY <1>1, QueuedIs, EmptySeq

\* write puts a string at the end of the queue.
LEMMA QueuedWhenAppended ==
    ASSUME NEW r \in pipeFile, RingOK(r), NEW s \in Seq(Char),
           r.writingIndex - r.readingIndex + Len(s) <= Full
    PROVE  /\ RingOK(Appended(r, s))
           /\ Queued(Appended(r, s)) = Queued(r) \o s
<1> DEFINE new == Appended(r, s)
           m == MAX_PIPE_BUFFER_SIZE
<1>1. /\ r.readingIndex \in Nat /\ r.writingIndex \in Nat
      /\ DOMAIN r.buffer = 0 .. MAX_PIPE_BUFFER_SIZE - 1
  BY DEF pipeFile
<1>2. /\ m \in Nat /\ m > 1 /\ Full = m - 1
      /\ Len(s) \in Nat /\ r.writingIndex - r.readingIndex \in 0 .. Full
  BY PipeAssumption, LenProperties DEF Full, RingOK
<1>3. /\ new.readingIndex = r.readingIndex /\ new.writingIndex = r.writingIndex + Len(s)
      /\ new.buffer = Filled(r.buffer, r.writingIndex, s)
  BY AppendedData
<1>4. /\ \A j \in 1 .. Len(s) : new.buffer[(r.writingIndex + j - 1) % m] = s[j]
      /\ \A x \in Nat : x < r.writingIndex /\ r.writingIndex + Len(s) - x <= m =>
            new.buffer[x % m] = r.buffer[x % m]
  <2> DEFINE b == r.buffer
             w == r.writingIndex
  <2>1. Len(s) < m /\ DOMAIN b = 0 .. MAX_PIPE_BUFFER_SIZE - 1 /\ w \in Nat
    BY <1>1, <1>2
  <2> HIDE DEF b, w
  <2>2. /\ \A j \in 1 .. Len(s) : Filled(b, w, s)[(w + j - 1) % m] = s[j]
        /\ \A x \in Nat : x < w /\ w + Len(s) - x <= m => Filled(b, w, s)[x % m] = b[x % m]
    BY <2>1, FilledPlaces
  <2>3. new.buffer = Filled(b, w, s)
    BY <1>3 DEF b, w
  <2> HIDE DEF new, m
  <2> QED
    BY <2>2, <2>3 DEF b, w
<1> HIDE DEF new, m
<1> DEFINE d == r.writingIndex - r.readingIndex
           n == new.writingIndex - new.readingIndex
           old(i) == r.buffer[(r.readingIndex + i - 1) % m]
           now(i) == new.buffer[(new.readingIndex + i - 1) % m]
<1>5. d \in Nat /\ n = d + Len(s) /\ n \in 0 .. Full /\ d + Len(s) <= Full
  BY <1>1, <1>2, <1>3
<1>6. ASSUME NEW i \in 1 .. d
      PROVE  now(i) = old(i)
  <2> DEFINE x == r.readingIndex + i - 1
  <2>1. x \in Nat /\ x < r.writingIndex /\ r.writingIndex + Len(s) - x <= m
    <3> HIDE DEF n
    <3>1. i \in Nat /\ i >= 1 /\ i <= r.writingIndex - r.readingIndex
      BY <1>1, <1>5
    <3>2. r.writingIndex - r.readingIndex + Len(s) < m
      BY <1>2
    <3> DEFINE a == r.readingIndex
               w == r.writingIndex
               l == Len(s)
    <3>3. a \in Nat /\ w \in Nat /\ l \in Nat /\ m \in Nat
      BY <1>1, <1>2
    <3>4. i <= w - a /\ w - a + l < m
      BY <3>1, <3>2
    <3> HIDE DEF d, a, w, l
    <3>5. /\ a + i - 1 \in Nat /\ a + i - 1 < w
          /\ w + l - (a + i - 1) <= m
      BY <3>1, <3>3, <3>4
    <3> QED
      BY <3>5 DEF a, w, l
  <2> HIDE DEF x
  <2>2. new.buffer[x % m] = r.buffer[x % m]
    BY <1>4, <2>1
  <2> QED
    BY <1>3, <2>2 DEF x
<1>7. ASSUME NEW i \in d + 1 .. n
      PROVE  now(i) = s[i - d]
  <2>1. i - d \in 1 .. Len(s)
    <3> HIDE DEF d, n
    <3> QED
      BY <1>2, <1>5
  <2>2. i \in Int
    <3> HIDE DEF d, n
    <3> QED
      BY <1>5
  <2>3. r.readingIndex + i - 1 = r.writingIndex + (i - d) - 1
    <3> DEFINE a == r.readingIndex
               w == r.writingIndex
    <3>1. a \in Int /\ w \in Int
      BY <1>1
    <3>2. d = w - a
      OBVIOUS
    <3> HIDE DEF a, w, d
    <3>3. a + i - 1 = w + (i - d) - 1
      BY <2>2, <3>1, <3>2
    <3> QED
      BY <3>3, Zenon DEF a, w
  <2> HIDE DEF d, n
  <2>4. new.buffer[(r.writingIndex + (i - d) - 1) % m] = s[i - d]
    BY <1>4, <2>1
  <2>5. now(i) = new.buffer[(r.readingIndex + i - 1) % m]
    BY <1>3
  <2> HIDE DEF now
  <2> QED
    BY <2>3, <2>4, <2>5, Zenon
<1>8. /\ Queued(r) \in Seq(Char) /\ Len(Queued(r)) = d
      /\ \A i \in 1 .. d : Queued(r)[i] = old(i) /\ old(i) \in Char
  BY QueuedIs DEF RingOK, m
<1>9. \A j \in 1 .. Len(s) : s[j] \in Char
  BY ElementOfSeq
<1> HIDE DEF d, old, now
<1>10. \A i \in 1 .. n : now(i) = IF i <= d THEN old(i) ELSE s[i - d]
  <2> HIDE DEF n
  <2> QED
    BY <1>2, <1>5, <1>6, <1>7
<1>11. \A i \in 1 .. n : now(i) \in Char
  <2> HIDE DEF n
  <2>1. ASSUME NEW i \in 1 .. n, i > d PROVE i - d \in 1 .. Len(s)
    BY <1>2, <1>5, <2>1
  <2> QED
    BY <1>5, <1>8, <1>9, <1>10, <2>1
<1>12. RingOK(new)
  BY <1>5, <1>11 DEF RingOK, now, m
<1>13. /\ Queued(new) \in Seq(Char) /\ Len(Queued(new)) = n
       /\ \A i \in 1 .. n : Queued(new)[i] = now(i)
  BY <1>12, QueuedIs DEF now, m
<1>14. Queued(new) = Queued(r) \o s
  <2> HIDE DEF n
  <2>1. /\ Queued(r) \o s \in Seq(Char) /\ Len(Queued(r) \o s) = n
        /\ \A i \in 1 .. n : (Queued(r) \o s)[i] = IF i <= d THEN Queued(r)[i] ELSE s[i - d]
    BY <1>2, <1>5, <1>8, ConcatProperties
  <2> QED
    BY <1>5, <1>8, <1>10, <1>13, <2>1, SeqEqual
<1> QED
  BY <1>12, <1>14 DEF new

\* read takes characters from the front of the queue.
LEMMA QueuedWhenDrained ==
    ASSUME NEW r, NEW new, RingOK(r), NEW k \in Nat,
           r.readingIndex \in Nat, r.writingIndex \in Nat,
           k <= r.writingIndex - r.readingIndex,
           new.readingIndex = r.readingIndex + k, new.writingIndex = r.writingIndex,
           new.buffer = r.buffer
    PROVE  /\ RingOK(new)
           /\ Queued(new) = SubSeq(Queued(r), k + 1, Len(Queued(r)))
<1> DEFINE m == MAX_PIPE_BUFFER_SIZE
           d == r.writingIndex - r.readingIndex
           n == new.writingIndex - new.readingIndex
           old(i) == r.buffer[(r.readingIndex + i - 1) % m]
           now(i) == new.buffer[(new.readingIndex + i - 1) % m]
<1>1. d \in 0 .. Full /\ d \in Nat /\ n = d - k /\ n \in Nat /\ n \in 0 .. Full
  BY PipeAssumption DEF RingOK, Full
<1>2. /\ Queued(r) \in Seq(Char) /\ Len(Queued(r)) = d
      /\ \A i \in 1 .. d : Queued(r)[i] = old(i) /\ old(i) \in Char
  BY QueuedIs DEF RingOK
<1>3. ASSUME NEW i \in 1 .. n
      PROVE  now(i) = old(k + i) /\ k + i \in 1 .. d
  <2>1. i \in Nat /\ k + i \in 1 .. d
    <3> HIDE DEF n, d
    <3> QED
      BY <1>1
  <2>2. new.readingIndex + i - 1 = r.readingIndex + (k + i) - 1
    BY <2>1
  <2> HIDE DEF n, d
  <2> QED
    BY <2>1, <2>2
<1> HIDE DEF d, old, now
<1>4. \A i \in 1 .. n : now(i) \in Char
  <2> HIDE DEF n
  <2> QED
    BY <1>2, <1>3
<1>5. RingOK(new)
  BY <1>1, <1>4 DEF RingOK, now
<1>6. /\ Queued(new) \in Seq(Char) /\ Len(Queued(new)) = n
      /\ \A i \in 1 .. n : Queued(new)[i] = now(i)
  BY <1>5, QueuedIs DEF now
<1> HIDE DEF n
<1> DEFINE rest == SubSeq(Queued(r), k + 1, d)
<1>7. \A i \in k + 1 .. d : Queued(r)[i] \in Char
  BY <1>1, <1>2
<1>8. /\ rest \in Seq(Char) /\ Len(rest) = n
      /\ \A i \in 1 .. n : rest[i] = Queued(r)[k + i]
  <2>1. /\ SubSeq(Queued(r), k + 1, d) \in Seq(Char)
        /\ Len(SubSeq(Queued(r), k + 1, d)) = IF k + 1 <= d THEN d - (k + 1) + 1 ELSE 0
        /\ \A i \in 1 .. d - (k + 1) + 1 :
              SubSeq(Queued(r), k + 1, d)[i] = Queued(r)[(k + 1) + i - 1]
    BY <1>1, <1>7, SubSeqProperties
  <2>2. d - (k + 1) + 1 = n /\ \A i \in 1 .. n : (k + 1) + i - 1 = k + i
    BY <1>1
  <2>3. Len(rest) = n
    BY <1>1, <2>1
  <2> QED
    BY <2>1, <2>2, <2>3
<1>9. Queued(new) = rest
  <2> HIDE DEF rest
  <2>1. \A i \in 1 .. n : Queued(new)[i] = rest[i]
    BY <1>2, <1>3, <1>6, <1>8
  <2> QED
    BY <1>6, <1>8, <2>1, SeqEqual
<1> QED
  BY <1>2, <1>5, <1>9

-----------------------------------------------------------------------------
(* The steps of the promised queue, in the terms of the pipes.             *)

\* What every step keeps, and gives.
QueueKept == RingsOK(pipe') /\ [PromisedQueue!Next]_(PromisedQueue!queueVars)

LEMMA ContentsAre ==
    /\ \A f \in File : Contents(f) = Queued(pipe[f])
    /\ \A f \in File : Contents(f)' = Queued(pipe'[f])
BY DEF Contents, Queued, Pending

LEMMA HoldersAre ==
    \A f \in File : /\ Holding(LiveEnds(f)) \in SUBSET Process
                    /\ Holding(LiveEnds(f))' \in SUBSET Process
                    /\ Holding(ForWriting(LiveEnds(f))) \subseteq Holding(LiveEnds(f))
                    /\ Holding(ForWriting(LiveEnds(f)))' \subseteq Holding(LiveEnds(f))'
BY DEF Holding, ForWriting, LiveEnds, On, EndsOf

\* What ends do to pipes: nothing but a pipe that is made, or freed, with its last end.
EndsMove(f) ==
    \/ /\ SameData(pipe'[f], pipe[f])
       /\ pipe'[f].name = NoName => pipe[f].name = NoName
    \/ Distance(pipe', f) = 0 /\ Distance(pipe, f) = 0
    \/ pipe'[f] = NoPipe /\ EndsIn(state', fds', f, Either) = {}

LEMMA EndsChange ==
    ASSUME QueueInv, PipeInv', \A f \in File : EndsMove(f),
           \A p \in Process : call'[p].rest = call[p].rest, atEnd' = atEnd
    PROVE  QueueKept
<1>1. NoPipe.writingIndex - NoPipe.readingIndex = 0
  BY DEF NoPipe
<1>2. ASSUME NEW f \in File
      PROVE  /\ RingOK(pipe'[f])
             /\ pipe'[f].name = NoName => Distance(pipe', f) = 0
             /\ \/ Queued(pipe'[f]) = Queued(pipe[f])
                \/ Queued(pipe'[f]) = <<>> /\ EndsIn(state', fds', f, Either) = {}
  <2>1. CASE /\ SameData(pipe'[f], pipe[f])
             /\ pipe'[f].name = NoName => pipe[f].name = NoName
    <3>1. RingOK(pipe[f]) /\ (pipe[f].name = NoName => Distance(pipe, f) = 0)
      BY DEF QueueInv, RingsOK
    <3>2. RingOK(pipe'[f]) /\ Queued(pipe'[f]) = Queued(pipe[f])
      BY <2>1, <3>1, QueuedWhenSame
    <3>3. Distance(pipe', f) = Distance(pipe, f)
      BY <2>1, SameDistance
    <3> QED
      BY <2>1, <3>1, <3>2, <3>3
  <2>2. CASE Distance(pipe', f) = 0 /\ Distance(pipe, f) = 0
    <3>1. /\ pipe'[f].writingIndex - pipe'[f].readingIndex = 0
          /\ pipe[f].writingIndex - pipe[f].readingIndex = 0
      BY <2>2 DEF Distance
    <3>2. RingOK(pipe'[f]) /\ Queued(pipe'[f]) = <<>>
      BY <3>1, QueuedWhenEmpty
    <3>3. Queued(pipe[f]) = <<>>
      BY <3>1, QueuedWhenEmpty
    <3> QED
      BY <2>2, <3>2, <3>3
  <2>3. CASE pipe'[f] = NoPipe /\ EndsIn(state', fds', f, Either) = {}
    <3>1. pipe'[f].writingIndex - pipe'[f].readingIndex = 0
      BY <1>1, <2>3
    <3> QED
      BY <2>3, <3>1, QueuedWhenEmpty DEF Distance
  <2> QED
    BY <2>1, <2>2, <2>3 DEF EndsMove
<1>3. \A f \in File : EndsIn(state', fds', f, Either) = {} => Holding(LiveEnds(f))' = {}
  <2>1. \A p \in Process, fd \in Fd : fds'[p][fd].mode \in {"R", "W", "N"}
    BY DEF PipeInv, TypeOK, fileDescriptor
  <2>2. ASSUME NEW f \in File
        PROVE  LiveEnds(f)' = EndsIn(state', fds', f, Either)
    <3>1. f > STDERR
      BY PipeAssumption DEF File, STDERR
    <3> QED
      BY <2>1, <3>1 DEF LiveEnds, On, EndsOf, EndsIn, Live, Either
  <2> QED
    BY <2>2 DEF Holding
<1>4. \A f \in File : Queued(pipe'[f]) \in Seq(Char)
  BY <1>2, QueuedIs
<1>5. PromisedQueue!ChangeEnds
  <2>1. /\ [f \in File |-> Holding(LiveEnds(f))]' \in [File -> SUBSET Process]
        /\ [f \in File |-> Holding(ForWriting(LiveEnds(f)))]' \in [File -> SUBSET Process]
    BY HoldersAre
  <2>2. /\ [f \in File |-> Contents(f)]' \in [File -> Seq(Char)]
        /\ \A f \in File : \/ Contents(f)' = Contents(f)
                           \/ Contents(f)' = <<>> /\ Holding(LiveEnds(f))' = {}
    BY <1>2, <1>3, <1>4, ContentsAre
  <2>3. [p \in Process |-> call[p].rest]' = [p \in Process |-> call[p].rest]
    OBVIOUS
  <2>4. {p \in Process : atEnd[p]}' = {p \in Process : atEnd[p]}
    OBVIOUS
  <2> QED
    BY <2>1, <2>2, <2>3, <2>4, HoldersAre DEF PromisedQueue!ChangeEnds
<1> QED
  BY <1>2, <1>5 DEF QueueKept, RingsOK, PromisedQueue!Next

\* The data of one pipe moves, and all ends stay where they are.
MovesData(f) ==
    /\ fds' = fds /\ pipe'[f].name = pipe[f].name
    /\ \A p \in Process : state'[p] \in {"READY", "BLOCKED"} <=> state[p] \in {"READY", "BLOCKED"}
    /\ \A g \in File \ {f} : pipe'[g] = pipe[g]

LEMMA SameHolders ==
    ASSUME NEW f, MovesData(f)
    PROVE  \A g \in File : /\ LiveEnds(g)' = LiveEnds(g)
                           /\ ForWriting(LiveEnds(g))' = ForWriting(LiveEnds(g))
<1>1. fds' = fds /\ \A p \in Process : Live(p)' = Live(p)
  BY DEF MovesData, Live
<1>2. {p \in Process : Live(p)}' = {p \in Process : Live(p)}
  BY <1>1
<1> QED
  BY <1>1, <1>2 DEF LiveEnds, On, EndsOf, ForWriting

LEMMA RingsElsewhere ==
    ASSUME QueueInv, NEW f \in File, Exists(f), MovesData(f), RingOK(pipe'[f])
    PROVE  RingsOK(pipe')
<1>1. pipe'[f].name # NoName
  BY DEF Exists, MovesData
<1> QED
  BY <1>1 DEF RingsOK, MovesData, QueueInv, Distance

\* A write, as the promised queue sees it.
LEMMA PutSeen ==
    ASSUME NEW f \in File, NEW p \in Process, MovesData(f), NEW s,
           s \in Text \cup {call[p].rest}, call[p].rest \in {<<>>, s},
           p \in Holding(ForWriting(LiveEnds(f))),
           Queued(pipe'[f]) \o call'[p].rest = Queued(pipe[f]) \o s,
           Len(Queued(pipe[f])) <= Len(Queued(pipe'[f])),
           IF call'[p].rest = <<>> THEN Len(Queued(pipe'[f])) <= Full
                                   ELSE Len(Queued(pipe'[f])) = Full,
           \A q \in Process \ {p} : call'[q] = call[q], atEnd' = atEnd
    PROVE  PromisedQueue!Next
<1> DEFINE queue == [g \in File |-> Contents(g)]
           unwritten == [q \in Process |-> call[q].rest]
<1>1. /\ \A g \in File : queue[g] = Queued(pipe[g]) /\ queue'[g] = Queued(pipe'[g])
      /\ \A q \in Process : unwritten[q] = call[q].rest /\ unwritten'[q] = call'[q].rest
  BY ContentsAre
<1>2. /\ queue' = [queue EXCEPT ![f] = queue'[f]]
      /\ unwritten' = [unwritten EXCEPT ![p] = unwritten'[p]]
  <2>1. \A g \in File \ {f} : queue'[g] = queue[g]
    BY <1>1 DEF MovesData
  <2>2. \A q \in Process \ {p} : unwritten'[q] = unwritten[q]
    BY <1>1
  <2>3. DOMAIN queue = File /\ DOMAIN unwritten = Process
    OBVIOUS
  <2>4. queue' = [g \in File |-> Contents(g)'] /\ unwritten' = [q \in Process |-> call'[q].rest]
    OBVIOUS
  <2> QED
    BY <2>1, <2>2, <2>3, <2>4
<1>3. /\ [g \in File |-> Holding(LiveEnds(g))]' = [g \in File |-> Holding(LiveEnds(g))]
      /\ [g \in File |-> Holding(ForWriting(LiveEnds(g)))]'
            = [g \in File |-> Holding(ForWriting(LiveEnds(g)))]
      /\ {q \in Process : atEnd[q]}' = {q \in Process : atEnd[q]}
  BY SameHolders DEF Holding
<1>4. PromisedQueue!Put(f, p, s)
  BY <1>1, <1>2, <1>3 DEF PromisedQueue!Put, Full
<1> QED
  BY <1>1, <1>4 DEF PromisedQueue!Next

\* A read, as the promised queue sees it.
LEMMA TakeSeen ==
    ASSUME NEW f \in File, NEW p \in Process, MovesData(f),
           NEW k \in 0 .. Len(Queued(pipe[f])),
           p \in Holding(LiveEnds(f)),
           Queued(pipe'[f]) = SubSeq(Queued(pipe[f]), k + 1, Len(Queued(pipe[f]))),
           \A q \in Process : call'[q].rest = call[q].rest,
           \/ atEnd' = [atEnd EXCEPT ![p] = FALSE]
           \/ atEnd' = atEnd
           \/ /\ atEnd' = [atEnd EXCEPT ![p] = TRUE]
              /\ Queued(pipe'[f]) = <<>> /\ Holding(ForWriting(LiveEnds(f))) = {},
           DOMAIN atEnd = Process
    PROVE  PromisedQueue!Next
<1> DEFINE queue == [g \in File |-> Contents(g)]
           ended == {q \in Process : atEnd[q]}
<1>1. \A g \in File : queue[g] = Queued(pipe[g]) /\ queue'[g] = Queued(pipe'[g])
  BY ContentsAre
<1>2. queue' = [queue EXCEPT ![f] = SubSeq(queue[f], k + 1, Len(queue[f]))]
  <2>1. \A g \in File \ {f} : queue'[g] = queue[g]
    BY <1>1 DEF MovesData
  <2>2. DOMAIN queue = File /\ queue' = [g \in File |-> Contents(g)']
    OBVIOUS
  <2> QED
    BY <1>1, <2>1, <2>2
<1>3. /\ [g \in File |-> Holding(LiveEnds(g))]' = [g \in File |-> Holding(LiveEnds(g))]
      /\ [g \in File |-> Holding(ForWriting(LiveEnds(g)))]'
            = [g \in File |-> Holding(ForWriting(LiveEnds(g)))]
      /\ [q \in Process |-> call[q].rest]' = [q \in Process |-> call[q].rest]
  BY SameHolders DEF Holding
<1>4. \/ ended' = ended \ {p}
      \/ ended' = ended \cup {p} /\ queue'[f] = <<>> /\ Holding(ForWriting(LiveEnds(f))) = {}
      \/ ended' = ended
  BY <1>1
<1>5. PromisedQueue!Take(f, p, k)
  BY <1>1, <1>2, <1>3, <1>4 DEF PromisedQueue!Take
<1> QED
  BY <1>1, <1>5 DEF PromisedQueue!Next

-----------------------------------------------------------------------------
(* The steps that move data.                                               *)

\* Who has an end of a pipe holds it.
LEMMA OpenersHold ==
    ASSUME TypeOK, NEW f \in File, NEW p \in Process, Live(p)
    PROVE  /\ HasOpen(fds, p, f, Writing) => p \in Holding(ForWriting(LiveEnds(f)))
           /\ HasOpen(fds, p, f, Either) => p \in Holding(LiveEnds(f))
<1>1. ASSUME NEW modes, HasOpen(fds, p, f, modes)
      PROVE  \E e \in EndsIn(state, fds, f, modes) : e[1] = p
  <2>1. PICK fd \in Fd : fds[p][fd].fileID = f /\ fds[p][fd].mode \in modes
    BY <1>1 DEF HasOpen
  <2>2. <<p, fd>> \in EndsIn(state, fds, f, modes) /\ <<p, fd>>[1] = p
    BY <2>1 DEF EndsIn, Live
  <2> QED
    BY <2>2
<1> QED
  BY <1>1, LiveEndsAre DEF Holding

LEMMA JoinedStrings ==
    \A a, b, c \in Seq(Char) : (a \o b) \o c = a \o (b \o c)
BY ConcatAssociative

\* A string is what was written of it and what is left.
LEMMA TwoParts ==
    ASSUME NEW s \in Seq(Char), NEW k \in 0 .. Len(s)
    PROVE  /\ SubSeq(s, 1, k) \in Seq(Char) /\ SubSeq(s, k + 1, Len(s)) \in Seq(Char)
           /\ SubSeq(s, 1, k) \o SubSeq(s, k + 1, Len(s)) = s
           /\ Len(SubSeq(s, 1, k)) = k
           /\ k = Len(s) => SubSeq(s, k + 1, Len(s)) = <<>>
<1>1. Len(s) \in Nat /\ \A j \in 1 .. Len(s) : s[j] \in Char
  BY LenProperties, ElementOfSeq
<1>2. (\A j \in 1 .. k : s[j] \in Char) /\ \A j \in k + 1 .. Len(s) : s[j] \in Char
  BY <1>1
<1>3. /\ SubSeq(s, 1, k) \in Seq(Char) /\ SubSeq(s, k + 1, Len(s)) \in Seq(Char)
      /\ Len(SubSeq(s, 1, k)) = k
  BY <1>1, <1>2, SubSeqProperties
<1>4. SubSeq(s, 1, k) \o SubSeq(s, k + 1, Len(s)) = SubSeq(s, 1, Len(s))
  <2>1. 1 \in 1 .. Len(s) + 1 /\ k \in 1 - 1 .. Len(s) /\ Len(s) \in k .. Len(s)
    BY <1>1
  <2> QED
    BY <2>1, ConcatAdjacentSubSeq
<1>5. SubSeq(s, 1, Len(s)) = s
  BY SubSeqFull
<1>6. k = Len(s) => SubSeq(s, k + 1, Len(s)) = <<>>
  BY <1>1, SubSeqEmpty
<1> QED
  BY <1>3, <1>4, <1>5, <1>6

LEMMA WriteKept ==
    ASSUME QueueInv, NEW f \in File, Exists(f), NEW s \in Seq(Char), NEW sure \in Nat,
           s \in Text \cup {call[nowRunning].rest}, call[nowRunning].rest \in {<<>>, s},
           Pending(f) + sure <= Full, MayBlock, HasOpen(fds, nowRunning, f, Writing),
           WriteOn(f, s, sure)
    PROVE  QueueKept
<1>1. /\ PipeInv /\ TypeOK /\ ProcessTypeOK /\ nowRunning \in Process
      /\ call \in [Process -> suspendedCall] /\ pipe \in [File -> pipeFile]
      /\ Full \in Nat /\ Pending(f) \in 0 .. Full /\ Len(s) \in Nat /\ Live(nowRunning)
  BY PipeAssumption, LenProperties
     DEF QueueInv, FlowInv, SuspendedInv, PipeInv, TypeOK, ProcessTypeOK, Full, MayBlock, Live
<1>2. PICK p \in Process : p = nowRunning
  BY <1>1
<1>3. PICK k \in Nat :
         /\ k <= Len(s) /\ pipe' = Stored(f, SubSeq(s, 1, k))
         /\ Distance(pipe', f) = Pending(f) + k /\ Pending(f) + k <= Full
         /\ \/ /\ k = Len(s) /\ Wake(BlockedFor(ReadReason(f)))
               /\ call' = [call EXCEPT ![nowRunning] = NoCall]
            \/ /\ k < Len(s) /\ Pending(f) + k = Full
               /\ BlockRunning(WriteReason(f))
               /\ call' = [call EXCEPT ![nowRunning] =
                             [op |-> "write", file |-> f,
                              rest |-> SubSeq(s, k + 1, Len(s)), left |-> 0]]
  BY <1>1, WriteMoves
<1> DEFINE put == SubSeq(s, 1, k)
           left == SubSeq(s, k + 1, Len(s))
<1>4. /\ put \in Seq(Char) /\ left \in Seq(Char) /\ put \o left = s /\ Len(put) = k
      /\ k = Len(s) => left = <<>>
  <2>1. k \in 0 .. Len(s)
    BY <1>1, <1>3
  <2> QED
    BY <2>1, TwoParts
<1>5. /\ call'[p].rest = left
      /\ \A q \in Process \ {p} : call'[q] = call[q]
  <2>1. NoCall.rest = <<>>
    BY DEF NoCall
  <2> HIDE DEF left
  <2>2. CASE k = Len(s) /\ call' = [call EXCEPT ![nowRunning] = NoCall]
    BY <1>1, <1>2, <1>4, <2>1, <2>2
  <2>3. CASE call' = [call EXCEPT ![nowRunning] =
                        [op |-> "write", file |-> f, rest |-> left, left |-> 0]]
    BY <1>1, <1>2, <2>3
  <2> QED
    BY <1>3, <2>2, <2>3 DEF left
<1> HIDE DEF put, left
<1>6. MovesData(f)
  <2>1. SameEnds(pipe') /\ fds' = fds
    BY <1>1, WriteOnStep DEF WriteOn
  <2>2. \A q \in Process : state'[q] \in {"READY", "BLOCKED"} <=> state[q] \in {"READY", "BLOCKED"}
    <3>1. \A q \in BlockedFor(ReadReason(f)) : state[q] = "BLOCKED"
      BY DEF BlockedFor, IsBlockedFor
    <3> QED
      BY <1>1, <1>3, <3>1, WakeEffect, BlockEffect
  <2> QED
    BY <1>1, <1>3, <2>1, <2>2 DEF MovesData, SameEnds, Stored
<1>7. /\ RingOK(pipe'[f]) /\ Queued(pipe'[f]) = Queued(pipe[f]) \o put
  <2>1. pipe'[f] = Appended(pipe[f], put) /\ pipe[f] \in pipeFile /\ RingOK(pipe[f])
    BY <1>1, <1>3 DEF Stored, put, QueueInv, RingsOK
  <2>2. pipe[f].writingIndex - pipe[f].readingIndex + Len(put) <= Full
    BY <1>3, <1>4 DEF Pending
  <2> QED
    BY <1>4, <2>1, <2>2, QueuedWhenAppended
<1>8. /\ Queued(pipe[f]) \in Seq(Char) /\ Len(Queued(pipe[f])) = Pending(f)
      /\ Len(Queued(pipe'[f])) = Pending(f) + k
  <2>1. RingOK(pipe[f])
    BY DEF QueueInv, RingsOK
  <2> QED
    BY <1>3, <1>7, <2>1, QueuedIs DEF Pending, Distance
<1>9. Queued(pipe'[f]) \o call'[p].rest = Queued(pipe[f]) \o s
  <2>1. (Queued(pipe[f]) \o put) \o left = Queued(pipe[f]) \o (put \o left)
    <3>1. put \in Seq(Char) /\ left \in Seq(Char) /\ Queued(pipe[f]) \in Seq(Char)
      BY <1>4, <1>8
    <3> QED
      BY <3>1, JoinedStrings, Zenon
  <2>2. put \o left = s
    BY <1>4
  <2>3. Queued(pipe'[f]) \o call'[p].rest = (Queued(pipe[f]) \o put) \o left
    BY <1>5, <1>7
  <2> QED
    BY <2>1, <2>2, <2>3
<1>10. IF call'[p].rest = <<>> THEN Len(Queued(pipe'[f])) <= Full
                               ELSE Len(Queued(pipe'[f])) = Full
  BY <1>3, <1>4, <1>5, <1>8
<1>11. /\ p \in Holding(ForWriting(LiveEnds(f))) /\ call[p].rest \in {<<>>, s}
       /\ s \in Text \cup {call[p].rest} /\ atEnd' = atEnd
       /\ Len(Queued(pipe[f])) <= Len(Queued(pipe'[f]))
  BY <1>1, <1>2, <1>8, OpenersHold DEF WriteOn
<1>12. PromisedQueue!Next
  BY <1>5, <1>6, <1>9, <1>10, <1>11, PutSeen
<1> QED
  BY <1>6, <1>7, <1>12, RingsElsewhere DEF QueueKept

\* The end of a pipe without write ends.
LEMMA NobodyWrites ==
    ASSUME PipeInv, NEW f \in File, Exists(f), pipe[f].writeOpenCount = 0
    PROVE  Holding(ForWriting(LiveEnds(f))) = {}
<1>1. Cardinality(EndsIn(state, fds, f, Writing)) = 0
  BY DEF PipeInv, CountsFit, Exists
<1>2. EndsIn(state, fds, f, Writing) = {}
  BY <1>1, EndsFinite, FS_EmptySet
<1>3. ForWriting(LiveEnds(f)) = {}
  BY <1>2, LiveEndsAre DEF PipeInv
<1> QED
  BY <1>3 DEF Holding

LEMMA ReadKept ==
    ASSUME QueueInv, NEW f \in File, Exists(f), NEW n \in Nat, MayBlock,
           HasOpen(fds, nowRunning, f, Either), call[nowRunning].rest = <<>>, ReadOn(f, n)
    PROVE  QueueKept
<1>1. /\ PipeInv /\ TypeOK /\ ProcessTypeOK /\ nowRunning \in Process
      /\ call \in [Process -> suspendedCall] /\ pipe \in [File -> pipeFile]
      /\ Pending(f) \in 0 .. Full /\ Pending(f) \in Nat /\ Live(nowRunning)
      /\ atEnd \in [Process -> BOOLEAN]
  BY PipeAssumption
     DEF QueueInv, FlowInv, SuspendedInv, PipeInv, TypeOK, ProcessTypeOK, Full, MayBlock, Live
<1>2. PICK p \in Process : p = nowRunning
  BY <1>1
<1>3. PICK k \in Nat :
         /\ k <= n /\ k <= Pending(f)
         /\ pipe' = [pipe EXCEPT ![f].readingIndex = @ + k]
         /\ Distance(pipe', f) = Pending(f) - k
         /\ \/ /\ k = n /\ Wake(BlockedFor(WriteReason(f)))
               /\ call' = [call EXCEPT ![nowRunning] = NoCall]
               /\ atEnd' = [atEnd EXCEPT ![nowRunning] = FALSE]
            \/ /\ k < n /\ k = Pending(f) /\ pipe[f].writeOpenCount = 0
               /\ call' = [call EXCEPT ![nowRunning] = NoCall]
               /\ atEnd' = [atEnd EXCEPT ![nowRunning] = TRUE]
               /\ UNCHANGED processVars
            \/ /\ k < n /\ k = Pending(f) /\ pipe[f].writeOpenCount # 0
               /\ BlockRunning(ReadReason(f))
               /\ call' = [call EXCEPT ![nowRunning] =
                             [op |-> "read", file |-> f, rest |-> <<>>, left |-> n - k]]
               /\ UNCHANGED atEnd
  BY <1>1, ReadMoves
<1>4. \A q \in Process : call'[q].rest = call[q].rest
  <2>1. NoCall.rest = <<>>
    BY DEF NoCall
  <2>2. CASE call' = [call EXCEPT ![nowRunning] = NoCall]
    BY <1>1, <2>1, <2>2
  <2>3. CASE call' = [call EXCEPT ![nowRunning] =
                        [op |-> "read", file |-> f, rest |-> <<>>, left |-> n - k]]
    BY <1>1, <2>3
  <2> QED
    BY <1>3, <2>2, <2>3
<1>5. MovesData(f)
  <2>1. SameEnds(pipe') /\ fds' = fds
    BY <1>1, ReadOnStep DEF ReadOn
  <2>2. \A q \in Process : state'[q] \in {"READY", "BLOCKED"} <=> state[q] \in {"READY", "BLOCKED"}
    <3>1. \A q \in BlockedFor(WriteReason(f)) : state[q] = "BLOCKED"
      BY DEF BlockedFor, IsBlockedFor
    <3> QED
      BY <1>1, <1>3, <3>1, WakeEffect, BlockEffect DEF processVars
  <2>3. \A g \in File \ {f} : pipe'[g] = pipe[g]
    BY <1>1, <1>3, DrainedData
  <2> QED
    BY <2>1, <2>2, <2>3 DEF MovesData, SameEnds
<1>6. /\ RingOK(pipe[f]) /\ RingOK(pipe'[f])
      /\ Queued(pipe'[f]) = SubSeq(Queued(pipe[f]), k + 1, Len(Queued(pipe[f])))
  <2>1. /\ pipe'[f].readingIndex = pipe[f].readingIndex + k
        /\ pipe'[f].writingIndex = pipe[f].writingIndex
        /\ pipe'[f].buffer = pipe[f].buffer
    BY <1>1, <1>3, DrainedData
  <2>2. pipe[f].readingIndex \in Nat /\ pipe[f].writingIndex \in Nat
    BY <1>1 DEF pipeFile
  <2>3. RingOK(pipe[f])
    BY DEF QueueInv, RingsOK
  <2> QED
    BY <1>3, <2>1, <2>2, <2>3, QueuedWhenDrained DEF Pending
<1>7. k \in 0 .. Len(Queued(pipe[f]))
  BY <1>1, <1>3, <1>6, QueuedIs DEF Pending
<1>8. \/ atEnd' = [atEnd EXCEPT ![p] = FALSE]
      \/ atEnd' = atEnd
      \/ /\ atEnd' = [atEnd EXCEPT ![p] = TRUE]
         /\ Queued(pipe'[f]) = <<>> /\ Holding(ForWriting(LiveEnds(f))) = {}
  <2>1. CASE k = n /\ atEnd' = [atEnd EXCEPT ![nowRunning] = FALSE]
    BY <1>2, <2>1
  <2>2. CASE /\ k = Pending(f) /\ pipe[f].writeOpenCount = 0
             /\ atEnd' = [atEnd EXCEPT ![nowRunning] = TRUE]
    <3>1. pipe'[f].writingIndex - pipe'[f].readingIndex = 0
      BY <1>1, <1>3, <2>2 DEF Distance
    <3> QED
      BY <1>1, <1>2, <2>2, <3>1, QueuedWhenEmpty, NobodyWrites
  <2>3. CASE UNCHANGED atEnd
    BY <2>3
  <2> QED
    BY <1>3, <2>1, <2>2, <2>3
<1>9. p \in Holding(LiveEnds(f)) /\ DOMAIN atEnd = Process
  BY <1>1, <1>2, OpenersHold
<1>10. PromisedQueue!Next
  BY <1>4, <1>5, <1>6, <1>7, <1>8, <1>9, TakeSeen
<1> QED
  BY <1>5, <1>6, <1>10, RingsElsewhere DEF QueueKept

LEMMA KeptWithData ==
    ASSUME QueueInv, OwnDescriptorsOnly, OrderlyCalls,
           \/ ResumeWrite \/ ResumeRead
           \/ \E fd \in Fd : \/ \E s \in Text : Write(fd, s)
                             \/ \E n \in 1 .. MaxRead : Read(fd, n)
    PROVE  QueueKept
<1>1. FlowInv /\ SuspendedInv /\ PipeInv /\ nowRunning \in Process /\ Full \in Nat
  BY PipeAssumption DEF QueueInv, FlowInv, SuspendedInv, PipeInv, TypeOK, ProcessTypeOK, Full
<1>2. ASSUME call[nowRunning].op \in {"read", "write"}
      PROVE  /\ MayBlock /\ Live(nowRunning)
             /\ call[nowRunning].file \in File /\ Exists(call[nowRunning].file)
             /\ HasOpen(fds, nowRunning, call[nowRunning].file, NeededFor(call[nowRunning].op))
             /\ call[nowRunning].rest \in Seq(Char)
             /\ WriterOK(nowRunning) /\ ReaderOK(nowRunning)
  <2>1. MayBlock /\ Live(nowRunning) /\ InCall(state, call, nowRunning)
    BY <1>1, <1>2 DEF FlowInv, RunnerAwake, MayBlock, Live, InCall
  <2>2. call[nowRunning].rest \in Seq(Char)
    BY <1>1, <1>2, SuspendedCall
  <2> QED
    BY <1>1, <2>1, <2>2 DEF FlowInv, SuspendedInv, Held, Exists
<1>3. CASE ResumeWrite
  <2> DEFINE f == call[nowRunning].file
             s == call[nowRunning].rest
  <2>1. call[nowRunning].op = "write" /\ WriteOn(f, s, 1)
    BY <1>3 DEF ResumeWrite
  <2>2. /\ f \in File /\ Exists(f) /\ s \in Seq(Char) /\ MayBlock /\ Pending(f) < Full
        /\ HasOpen(fds, nowRunning, f, Writing)
    BY <1>2, <2>1 DEF Inside, WriterOK, MayBlock, NeededFor
  <2>3. s \in Text \cup {call[nowRunning].rest} /\ call[nowRunning].rest \in {<<>>, s}
    OBVIOUS
  <2> HIDE DEF f, s
  <2>4. Pending(f) + 1 <= Full
    BY <1>1, <2>2 DEF FlowInv
  <2> QED
    BY <2>1, <2>2, <2>3, <2>4, WriteKept
<1>4. CASE ResumeRead
  <2> DEFINE f == call[nowRunning].file
             n == call[nowRunning].left
  <2>1. call[nowRunning].op = "read" /\ ReadOn(f, n)
    BY <1>4 DEF ResumeRead
  <2>2. /\ f \in File /\ Exists(f) /\ n \in 1 .. MaxRead /\ MayBlock
        /\ call[nowRunning].rest = <<>> /\ HasOpen(fds, nowRunning, f, Either)
    BY <1>2, <2>1 DEF Inside, ReaderOK, NeededFor
  <2> HIDE DEF f, n
  <2>3. n \in Nat
    BY <2>2, PipeAssumption
  <2> QED
    BY <2>1, <2>2, <2>3, ReadKept
<1>5. ASSUME NEW fd \in Fd, NEW s \in Text, Write(fd, s)
      PROVE  QueueKept
  <2> DEFINE f == fds[nowRunning][fd].fileID
  <2>1. InUserCode /\ f \in File /\ Exists(f) /\ WriteOn(f, s, 0)
    BY <1>5 DEF Write, Exists
  <2>2. HasOpen(fds, nowRunning, f, Writing)
    BY <1>5 DEF Write, HasOpen, Writing
  <2>3. call[nowRunning].rest = <<>> /\ MayBlock
    BY <1>1, <2>1, UserIsAwake DEF InUserCode, NoCall
  <2>4. s \in Seq(Char) /\ s \in Text \cup {call[nowRunning].rest}
    BY PipeAssumption
  <2> HIDE DEF f
  <2>5. Pending(f) + 0 <= Full
    BY <1>1, <2>1 DEF FlowInv
  <2> QED
    BY <2>1, <2>2, <2>3, <2>4, <2>5, WriteKept
<1>6. ASSUME NEW fd \in Fd, NEW n \in 1 .. MaxRead, Read(fd, n)
      PROVE  QueueKept
  <2> DEFINE f == fds[nowRunning][fd].fileID
  <2>1. InUserCode /\ f \in File /\ Exists(f) /\ ReadOn(f, n)
    BY <1>6 DEF Read, Exists
  <2>2. HasOpen(fds, nowRunning, f, Either)
    BY <1>6 DEF Read, HasOpen, Either
  <2>3. call[nowRunning].rest = <<>> /\ MayBlock
    BY <1>1, <2>1, UserIsAwake DEF InUserCode, NoCall
  <2>4. n \in Nat
    BY PipeAssumption
  <2> HIDE DEF f
  <2> QED
    BY <2>1, <2>2, <2>3, <2>4, ReadKept
<1> QED
  BY <1>3, <1>4, <1>5, <1>6

-----------------------------------------------------------------------------
(* The steps that move ends.                                               *)

LEMMA KeptWhenIdle ==
    ASSUME QueueInv, PipeInv',
           \/ \E p \in Process : Tick(p)
           \/ \E fd \in Fd : ReadEmpty(fd)
    PROVE  QueueKept
<1>1. pipe' = pipe /\ atEnd' = atEnd
  BY DEF Tick, ReadEmpty, fileVars
<1>2. \A f \in File : EndsMove(f)
  BY <1>1 DEF EndsMove, SameData
<1>3. \A p \in Process : call'[p].rest = call[p].rest
  <2>1. CASE \E p \in Process : Tick(p)
    BY <2>1 DEF Tick
  <2>2. CASE \E fd \in Fd : ReadEmpty(fd)
    <3> DEFINE waiting == [NoCall EXCEPT !.op = "readEmpty"]
    <3>1. /\ call[nowRunning] = NoCall
          /\ call' = [call EXCEPT ![nowRunning].op = "readEmpty"]
      BY <2>2 DEF ReadEmpty, InUserCode
    <3>2. call' = [call EXCEPT ![nowRunning] = waiting]
      BY <3>1, Zenon
    <3>3. waiting.rest = NoCall.rest
      BY DEF NoCall
    <3>4. call \in [Process -> suspendedCall]
      BY DEF QueueInv, FlowInv, SuspendedInv, PipeInv, TypeOK
    <3> HIDE DEF waiting
    <3> QED
      BY <3>1, <3>2, <3>3, <3>4
  <2> QED
    BY <2>1, <2>2
<1> QED
  BY <1>1, <1>2, <1>3, EndsChange

LEMMA KeptWhenStarting ==
    ASSUME QueueInv, PipeInv', NEW q \in Process, StartChild(q) \/ StartParent(q)
    PROVE  QueueKept
<1>1. PICK table : Start(q, table)
  BY DEF StartChild, StartParent
<1>2. pipe' = CountedAgain(table) /\ call' = call /\ atEnd' = atEnd
  BY <1>1 DEF Start
<1>3. PipeInv /\ \A f \in File : pipe'[f].name = pipe[f].name
  BY StartStep DEF QueueInv, FlowInv, SuspendedInv
<1>4. \A f \in File : EndsMove(f)
  BY <1>2, <1>3, CountedAgainData DEF EndsMove
<1> QED
  BY <1>2, <1>4, EndsChange

LEMMA KeptWhenOpening ==
    ASSUME QueueInv, PipeInv', OwnDescriptorsOnly, MemoryLasts,
           \/ \E n \in Name : Mkpipe(n) \/ \E mode \in {"R", "W"} : Open(n, mode)
           \/ \E fromFd \in DupSource, toFd \in DupTarget : Dup2(fromFd, toFd)
           \/ RevertFdReplacements
    PROVE  QueueKept
<1>1. InUserCode /\ call' = call /\ atEnd' = atEnd
  BY DEF Mkpipe, Open, Dup2, RevertFdReplacements
<1>2. PipeInv /\ pipe \in [File -> pipeFile]
  BY DEF QueueInv, FlowInv, SuspendedInv, PipeInv, TypeOK
<1>3. ASSUME NEW f \in File
      PROVE  EndsMove(f)
  <2>1. pipe' = pipe => EndsMove(f)
    BY DEF EndsMove, SameData
  <2>2. ASSUME NEW n \in Name, Mkpipe(n)
        PROVE  EndsMove(f)
    <3> DEFINE new == [NoPipe EXCEPT !.name = n]
    <3>1. pipe' = [pipe EXCEPT ![fileIdToGive] = new]
      BY <2>2 DEF Mkpipe, MemoryLasts, Asks
    <3>2. new.writingIndex - new.readingIndex = 0
      BY DEF NoPipe
    <3> HIDE DEF new
    <3>3. CASE f = fileIdToGive
      <4>1. pipe[f].name = NoName
        BY <1>2, <3>3 DEF PipeInv, KnownFiles, TypeOK
      <4>2. Distance(pipe, f) = 0
        BY <4>1 DEF QueueInv, RingsOK
      <4>3. Distance(pipe', f) = 0
        BY <1>2, <3>1, <3>2, <3>3 DEF Distance
      <4> QED
        BY <4>2, <4>3 DEF EndsMove
    <3>4. CASE f # fileIdToGive
      BY <1>2, <3>1, <3>4 DEF EndsMove, SameData
    <3> QED
      BY <3>3, <3>4
  <2>3. ASSUME NEW g, NEW mode, pipe' = Opened(g, mode)
        PROVE  EndsMove(f)
    <3>1. CASE g \in File
      BY <1>2, <2>3, <3>1, OpenedData, OpenedEffect DEF EndsMove
    <3>2. CASE g \notin File
      <4>1. pipe' = pipe
        BY <1>2, <2>3, <3>2 DEF Opened
      <4> QED
        BY <2>1, <4>1
    <3> QED
      BY <3>1, <3>2
  <2>4. ASSUME RevertFdReplacements
        PROVE  EndsMove(f)
    <3> DEFINE ends == EndsOf({nowRunning}) \cap ({nowRunning} \X Replaced)
    <3>1. pipe' = Discounted(ends)
      BY <2>4 DEF RevertFdReplacements
    <3>2. ends \in SUBSET EndsOf({p \in Process : Live(p)})
      BY <1>1, <1>2, UserIsAwake DEF EndsOf
    <3> HIDE DEF ends
    <3> QED
      BY <1>2, <3>1, <3>2, DiscountedData, DiscountEffect DEF EndsMove
  <2>5. CASE \E n \in Name : Mkpipe(n)
    BY <2>2, <2>5
  <2>6. CASE \E n \in Name, mode \in {"R", "W"} : Open(n, mode)
    BY <2>3, <2>6 DEF Open
  <2>7. CASE \E fromFd \in DupSource, toFd \in DupTarget : Dup2(fromFd, toFd)
    <3>1. pipe' = pipe \/ \E g, mode : pipe' = Opened(g, mode)
      BY <2>7 DEF Dup2
    <3> QED
      BY <2>1, <2>3, <3>1
  <2>8. CASE RevertFdReplacements
    BY <2>4, <2>8
  <2> QED
    BY <2>5, <2>6, <2>7, <2>8
<1> QED
  BY <1>1, <1>3, EndsChange

\* A pipe that ends go from is freed with its last one, or keeps what it has.
LEMMA ClosingMoves ==
    ASSUME PipeInv, NEW ends \in SUBSET EndsOf({p \in Process : Live(p)}), NEW f \in File,
           pipe'[f] = AfterClosing(ends)[f],
           EndsIn(state', fds', f, Either) \subseteq EndsIn(state, fds, f, Either) \ ends
    PROVE  EndsMove(f)
<1>1. NoPipe.name = NoName
  BY NoPipeType
<1>2. CASE ~Exists(f)
  <2>1. pipe'[f] = pipe[f]
    BY <1>2 DEF AfterClosing
  <2> QED
    BY <2>1 DEF EndsMove, SameData
<1>3. CASE Exists(f) /\ pipe'[f].name # NoName
  BY <1>3, ClosingData DEF EndsMove
<1>4. CASE Exists(f) /\ pipe'[f].name = NoName
  <2>1. pipe'[f] = NoPipe
    <3>1. \/ pipe'[f] = NoPipe
          \/ pipe'[f] = Counted(pipe[f], -Cardinality(On(ends, f)),
                                -Cardinality(ForWriting(On(ends, f))))
      BY <1>4 DEF AfterClosing
    <3>2. ASSUME NEW all, NEW writers PROVE Counted(pipe[f], all, writers).name = pipe[f].name
      <4>1. \A r \in pipeFile : Counted(r, all, writers).name = r.name
        BY Zenon DEF Counted, pipeFile
      <4> QED
        BY <4>1 DEF PipeInv, TypeOK
    <3> QED
      BY <1>4, <3>1, <3>2 DEF Exists
  <2>2. EndsIn(state, fds, f, Either) \subseteq ends
    BY <1>4, NamedWhileOpen
  <2> QED
    BY <2>1, <2>2 DEF EndsMove
<1> QED
  BY <1>2, <1>3, <1>4

LEMMA KeptWhenEnding ==
    ASSUME QueueInv, PipeInv', OwnDescriptorsOnly,
           \/ Exit \/ Escape \/ \E p \in Process : KillProcess(p)
           \/ \E fd \in Fd : CloseFd(fd)
    PROVE  QueueKept
<1>1. /\ PipeInv /\ nowRunning \in Process /\ ProcessTypeOK
      /\ fds \in [Process -> [Fd -> fileDescriptor]]
  BY DEF QueueInv, FlowInv, SuspendedInv, PipeInv, TypeOK, ProcessTypeOK
<1>2. ASSUME NEW K \in SUBSET Process, \A p \in K : Live(p), Kill(K), nowRunning' \in Process
      PROVE  QueueKept
  <2> DEFINE ends == EndsOf(K)
             W == ReadersAtEnd(ends)
  <2>1. ends \in SUBSET EndsOf({p \in Process : Live(p)})
    BY <1>2 DEF EndsOf
  <2>2. /\ call' = call /\ atEnd' = atEnd /\ fds' = fds /\ pipe' = AfterClosing(ends)
        /\ Change(W, K)
    BY <1>2 DEF Kill
  <2>3. \A e \in ends : e[1] \in K
    BY DEF EndsOf
  <2>4. \A p \in W : state[p] = "BLOCKED"
    BY DEF ReadersAtEnd, BlockedFor, IsBlockedFor
  <2> HIDE DEF ends, W
  <2>5. \A p \in Process : state'[p] \in {"READY", "BLOCKED"}
                             <=> p \notin K /\ state[p] \in {"READY", "BLOCKED"}
    BY <1>1, <1>2, <2>2, <2>4, ChangeEffect
  <2>6. \A f \in File : EndsIn(state', fds', f, Either) \subseteq EndsIn(state, fds, f, Either) \ ends
    BY <2>2, <2>3, <2>5 DEF EndsIn
  <2>7. \A f \in File : EndsMove(f)
    BY <1>1, <2>1, <2>2, <2>6, ClosingMoves
  <2> QED
    BY <2>2, <2>7, EndsChange
<1>3. CASE Exit
  <2>1. Live(nowRunning) /\ Kill({nowRunning}) /\ nowRunning' \in Process
    BY <1>1, <1>3, UserIsAwake DEF Exit, Dispatch
  <2> QED
    BY <1>1, <1>2, <2>1
<1>4. CASE Escape
  <2> DEFINE K == {p \in Foreground : Live(p)}
  <2>1. K \in SUBSET Process /\ (\A p \in K : Live(p)) /\ Kill(K) /\ nowRunning' \in Process
    BY <1>1, <1>4, ProcessAssumption DEF Escape
  <2> QED
    BY <1>2, <2>1
<1>5. ASSUME NEW p \in Process, KillProcess(p) PROVE QueueKept
  <2>1. Live(p) /\ Kill({p}) /\ nowRunning' \in Process
    BY <1>5 DEF KillProcess, Asks, OwnDescriptorsOnly, Dispatch
  <2> QED
    BY <1>2, <2>1
<1>6. ASSUME NEW fd \in Fd, CloseFd(fd) PROVE QueueKept
  <2> DEFINE ends == {<<nowRunning, fd>>}
             W == ReadersAtEnd(ends)
  <2>1. InUserCode /\ Live(nowRunning)
    BY <1>1, <1>6, UserIsAwake DEF CloseFd
  <2>2. ends \in SUBSET EndsOf({p \in Process : Live(p)})
    BY <1>1, <1>6, <2>1, PipeAssumption DEF EndsOf, CloseFd, Exists, File, STDERR
  <2>3. \A p \in W : state[p] = "BLOCKED"
    BY DEF ReadersAtEnd, BlockedFor, IsBlockedFor
  <2>4. /\ call' = call /\ atEnd' = atEnd /\ pipe' = AfterClosing(ends) /\ Wake(W)
        /\ fds' = [fds EXCEPT ![nowRunning][fd] = Closed]
    BY <1>6 DEF CloseFd
  <2> HIDE DEF W
  <2>5. \A p \in Process : state'[p] \in {"READY", "BLOCKED"} <=> state[p] \in {"READY", "BLOCKED"}
    BY <1>1, <2>3, <2>4, WakeEffect
  <2>6. ASSUME NEW f \in File
        PROVE  EndsIn(state', fds', f, Either) \subseteq EndsIn(state, fds, f, Either) \ ends
    <3>1. Closed.mode = "N"
      BY DEF Closed
    <3>2. \A p \in Process, d \in Fd :
             fds'[p][d] = IF p = nowRunning /\ d = fd THEN Closed ELSE fds[p][d]
      BY <1>1, <2>4
    <3>3. ASSUME NEW p \in Process, NEW d \in Fd, <<p, d>> \in EndsIn(state', fds', f, Either)
          PROVE  <<p, d>> \in EndsIn(state, fds, f, Either) /\ ~(p = nowRunning /\ d = fd)
      BY <2>5, <3>1, <3>2, <3>3 DEF EndsIn, Either
    <3> QED
      BY <3>3 DEF EndsIn
  <2> HIDE DEF ends
  <2>7. \A f \in File : EndsMove(f)
    BY <1>1, <2>2, <2>4, <2>6, ClosingMoves
  <2> QED
    BY <2>4, <2>7, EndsChange
<1> QED
  BY <1>3, <1>4, <1>5, <1>6

-----------------------------------------------------------------------------
(* The theorem.                                                            *)

LEMMA QueueInit == Init => RingsOK(pipe) /\ PromisedQueue!Init
<1> SUFFICES ASSUME Init PROVE RingsOK(pipe) /\ PromisedQueue!Init
  OBVIOUS
<1>1. NoPipe.writingIndex - NoPipe.readingIndex = 0 /\ NoCall.rest = <<>>
  BY DEF NoPipe, NoCall
<1>2. ASSUME NEW f \in File
      PROVE  RingOK(pipe[f]) /\ Queued(pipe[f]) = <<>> /\ Distance(pipe, f) = 0
  <2>1. pipe[f].writingIndex - pipe[f].readingIndex = 0
    BY <1>1 DEF Init
  <2> QED
    BY <2>1, QueuedWhenEmpty DEF Distance
<1>3. ASSUME NEW f \in File
      PROVE  LiveEnds(f) = {}
  <2>1. f > STDERR /\ \A fd \in Fd : DefaultFds[fd].fileID <= STDERR
    BY DefaultTable, PipeAssumption DEF File, STDERR
  <2>2. \A p \in Process, fd \in Fd : fds[p][fd].fileID # f
    <3>1. \A fd \in Fd : DefaultFds[fd].fileID \in Int
      BY DefaultTable DEF fileDescriptor
    <3> QED
      BY <2>1, <3>1 DEF Init, File, STDERR
  <2> QED
    BY <2>2 DEF LiveEnds, On, EndsOf
<1>4. \A f \in File : Holding(LiveEnds(f)) = {} /\ Holding(ForWriting(LiveEnds(f))) = {}
  BY <1>3 DEF Holding, ForWriting
<1>5. /\ [f \in File |-> Contents(f)] = [f \in File |-> <<>>]
      /\ [p \in Process |-> call[p].rest] = [p \in Process |-> <<>>]
      /\ {p \in Process : atEnd[p]} = {}
  BY <1>1, <1>2, ContentsAre DEF Init
<1> QED
  BY <1>2, <1>4, <1>5 DEF RingsOK, PromisedQueue!Init

LEMMA QueueStep ==
    ASSUME QueueInv, OwnDescriptorsOnly, MemoryLasts, OrderlyCalls, [Next]_pipeVars
    PROVE  QueueKept
<1>1. PipeInv'
  BY FlowStep DEF QueueInv, FlowInv, SuspendedInv
<1>2. CASE UNCHANGED pipeVars
  <2>1. pipe' = pipe /\ atEnd' = atEnd /\ call' = call
    BY <1>2 DEF pipeVars, fileVars
  <2>2. \A f \in File : EndsMove(f)
    BY <2>1 DEF EndsMove, SameData
  <2> QED
    BY <1>1, <2>1, <2>2, EndsChange
<1>3. CASE \/ \E n \in Name : Mkpipe(n) \/ \E mode \in {"R", "W"} : Open(n, mode)
           \/ \E fromFd \in DupSource, toFd \in DupTarget : Dup2(fromFd, toFd)
           \/ RevertFdReplacements
  BY <1>1, <1>3, KeptWhenOpening
<1>4. CASE \/ ResumeWrite \/ ResumeRead
           \/ \E fd \in Fd : \/ \E s \in Text : Write(fd, s)
                             \/ \E n \in 1 .. MaxRead : Read(fd, n)
  BY <1>4, KeptWithData
<1>5. CASE \/ \E p \in Process : Tick(p)
           \/ \E fd \in Fd : ReadEmpty(fd)
  BY <1>1, <1>5, KeptWhenIdle
<1>6. CASE \E p \in Process : StartChild(p) \/ StartParent(p)
  BY <1>1, <1>6, KeptWhenStarting
<1>7. CASE \/ Exit \/ Escape \/ \E p \in Process : KillProcess(p)
           \/ \E fd \in Fd : CloseFd(fd)
  BY <1>1, <1>7, KeptWhenEnding
<1> QED
  BY <1>2, <1>3, <1>4, <1>5, <1>6, <1>7 DEF Next

\* What is read from a pipe was written to it, in order and once; a string that does
\* not fit goes in later, and whole; and a reader meets the end of a pipe only when it
\* is empty and nobody can write to it any more.
THEOREM PipesAreQueues ==
    ASSUME OwnDescriptorsOnly, MemoryLasts, OrderlyCalls
    PROVE  Spec => ImplementsPipeQueue
<1>1. Init => RingsOK(pipe) /\ PromisedQueue!Init
  BY QueueInit
<1>2. FlowInv /\ RingsOK(pipe) /\ [Next]_pipeVars
        => RingsOK(pipe)' /\ [PromisedQueue!Next]_(PromisedQueue!queueVars)
  BY QueueStep DEF QueueInv, QueueKept, RingsOK, Distance
<1> QED
  BY <1>1, <1>2, FlowInvHolds, PTL DEF Spec, ImplementsPipeQueue, PromisedQueue!Spec
=============================================================================
