------------------------------- MODULE IpcProofs -----------------------------
(***************************************************************************)
(* The two halves of the IPC layer, for every size of it.  SeqlockSlot     *)
(* implements LatestValue for any number of readers, words, attempts and   *)
(* stores, and wherever the writer dies.  SharedMemory keeps its regions   *)
(* inside their objects and its mappings owned, for any number of          *)
(* processes and regions and wherever a process dies.                      *)
(***************************************************************************)
EXTENDS SeqlockSlot, SharedMemory, TLAPS

(* While sequence_ is even every word belongs to the last complete store;  *)
(* while it is odd, to that one or to the one in progress.                 *)
SlotInv ==
  /\ writer.at = "idle" => ~Odd(sequence)
  /\ writer.at = "words" =>
       /\ ~Odd(writer.start) /\ sequence = writer.start + 1
       /\ \A w \in Words : w < writer.index => words[w] = generation + 1
  /\ ~Odd(sequence) => \A w \in Words : words[w] = generation

(* What the second sample decides: if sequence_ has not moved since the    *)
(* first, the words copied so far are those of the store it names.         *)
CopyInv ==
  \A r \in Readers :
    reader[r].at \in {"words", "recheck"} =>
      /\ ~Odd(reader[r].before)
      /\ reader[r].before <= sequence
      /\ reader[r].at = "words" => reader[r].index \in Words
      /\ sequence = reader[r].before =>
           \A w \in Words :
             (w < reader[r].index \/ reader[r].at = "recheck")
               => reader[r].staging[w] = generation

SeqlockInv == TypeOK /\ SlotInv /\ CopyInv

(* Parity and halving, the only arithmetic of the counter.                 *)
LEMMA Halves ==
  ASSUME NEW n \in Nat
  PROVE  /\ n \div 2 \in Nat
         /\ Odd(n + 1) <=> ~Odd(n)
         /\ Odd(n + 2) <=> Odd(n)
         /\ ~Odd(n) => (n + 1) \div 2 = n \div 2
         /\ (n + 2) \div 2 = n \div 2 + 1
BY DEF Odd

(* An empty slot, with every thread outside it.                            *)
LEMMA InitInv == Init => SeqlockInv
BY SeqlockAssumption
   DEF Init, SeqlockInv, TypeOK, SlotInv, CopyInv, WriterState, ReaderState,
       Words, Odd, generation

(* The steps of store(), and the writer's death.                           *)
LEMMA WriterStepInv ==
  ASSUME SeqlockInv, Store \/ Crash
  PROVE  SeqlockInv'
<1>1. /\ sequence \in Nat /\ writer \in WriterState /\ words \in [Words -> Nat]
      /\ reader' = reader /\ result' = result /\ called' = called
  BY DEF SeqlockInv, TypeOK, Store, StoreBegin, StoreWord, StoreEnd, Crash
<1>2. /\ generation \in Nat
      /\ writer.at \in {"idle", "words", "dead"}
      /\ writer.index \in 1 .. WordCount + 1 /\ writer.start \in Nat
  BY <1>1, Halves DEF WriterState, generation
<1>3. CASE StoreBegin
  <2>1. ~Odd(sequence) /\ sequence' = sequence + 1 /\ words' = words
    BY <1>3 DEF StoreBegin, SeqlockInv, SlotInv
  <2>2. Odd(sequence') /\ generation' = generation /\ sequence' \in Nat
    BY <1>1, <2>1, Halves DEF generation
  <2>3. writer' = [at |-> "words", index |-> 1, start |-> sequence]
    BY <1>3 DEF StoreBegin
  <2>4. writer' \in WriterState
    BY <1>1, <2>3, SeqlockAssumption DEF WriterState
  <2>5. TypeOK'
    BY <1>1, <2>1, <2>2, <2>4 DEF SeqlockInv, TypeOK
  <2>6. SlotInv'
    BY <2>1, <2>2, <2>3 DEF SlotInv, Words
  <2>7. CopyInv'
    <3> SUFFICES ASSUME NEW r \in Readers, reader[r].at \in {"words", "recheck"}
                 PROVE  /\ ~Odd(reader[r].before)
                        /\ reader[r].before <= sequence'
                        /\ reader[r].at = "words" => reader[r].index \in Words
                        /\ sequence' # reader[r].before
      BY <1>1 DEF CopyInv
    <3>1. reader[r].before \in Nat
      BY DEF SeqlockInv, TypeOK, ReaderState
    <3> QED BY <1>1, <2>1, <2>2, <3>1 DEF SeqlockInv, CopyInv
  <2> QED BY <2>5, <2>6, <2>7 DEF SeqlockInv
<1>4. CASE StoreWord
  <2>1. /\ sequence' = sequence /\ sequence = writer.start + 1 /\ ~Odd(writer.start)
        /\ writer.at = "words" /\ writer.index <= WordCount
        /\ words' = [words EXCEPT ![writer.index] = writer.start \div 2 + 1]
        /\ writer' = [writer EXCEPT !.index = @ + 1]
    BY <1>4 DEF StoreWord, SeqlockInv, SlotInv
  <2>2. /\ generation' = generation /\ generation = writer.start \div 2
        /\ Odd(sequence)
    BY <1>2, <2>1, Halves DEF generation
  <2>3. /\ writer' \in WriterState /\ writer'.at = "words"
        /\ writer'.start = writer.start /\ writer'.index = writer.index + 1
    BY <1>1, <1>2, <2>1, SeqlockAssumption DEF WriterState
  <2>4. TypeOK'
    <3>1. writer.start \div 2 + 1 \in Nat
      BY <1>2, <2>2
    <3>2. words' \in [Words -> Nat]
      BY <1>1, <2>1, <3>1
    <3> QED BY <1>1, <2>1, <2>3, <3>2 DEF SeqlockInv, TypeOK
  <2>5. \A w \in Words : w < writer'.index => words'[w] = generation + 1
    BY <1>1, <1>2, <2>1, <2>2, <2>3 DEF SeqlockInv, SlotInv, Words
  <2>6. SlotInv'
    BY <2>1, <2>2, <2>3, <2>5 DEF SlotInv
  <2>7. CopyInv'
    BY <1>1, <2>1, <2>2 DEF SeqlockInv, CopyInv
  <2> QED BY <2>4, <2>6, <2>7 DEF SeqlockInv
<1>5. CASE StoreEnd
  <2>1. /\ sequence' = writer.start + 2 /\ sequence = writer.start + 1
        /\ ~Odd(writer.start) /\ words' = words
        /\ \A w \in Words : w < writer.index => words[w] = generation + 1
        /\ writer.index > WordCount
        /\ writer' = [writer EXCEPT !.at = "idle"]
    BY <1>5 DEF StoreEnd, SeqlockInv, SlotInv
  <2>2. /\ generation' = generation + 1 /\ ~Odd(sequence') /\ sequence' \in Nat
        /\ sequence' = sequence + 1 /\ Odd(sequence)
    BY <1>2, <2>1, Halves DEF generation
  <2>3. writer' \in WriterState /\ writer'.at = "idle"
    BY <1>1, <2>1 DEF WriterState
  <2>4. TypeOK'
    BY <1>1, <2>1, <2>2, <2>3 DEF SeqlockInv, TypeOK
  <2>5. \A w \in Words : w < writer.index
    BY <1>2, <2>1, SeqlockAssumption DEF Words
  <2>6. SlotInv'
    BY <2>1, <2>2, <2>3, <2>5 DEF SlotInv
  <2>7. CopyInv'
    <3> SUFFICES ASSUME NEW r \in Readers, reader[r].at \in {"words", "recheck"}
                 PROVE  /\ ~Odd(reader[r].before)
                        /\ reader[r].before <= sequence'
                        /\ reader[r].at = "words" => reader[r].index \in Words
                        /\ sequence' # reader[r].before
      BY <1>1 DEF CopyInv
    <3>1. reader[r].before \in Nat
      BY DEF SeqlockInv, TypeOK, ReaderState
    <3> QED BY <1>1, <2>2, <3>1 DEF SeqlockInv, CopyInv
  <2> QED BY <2>4, <2>6, <2>7 DEF SeqlockInv
<1>6. CASE Crash
  <2>1. sequence' = sequence /\ words' = words /\ generation' = generation
    BY <1>6 DEF Crash, slot, generation
  <2>2. writer' \in WriterState /\ writer'.at = "dead"
    BY <1>1, <1>6 DEF Crash, WriterState
  <2> QED BY <1>1, <2>1, <2>2 DEF SeqlockInv, TypeOK, SlotInv, CopyInv
<1> QED BY <1>3, <1>4, <1>5, <1>6 DEF Store

(* The steps of tryLoad(), and what a step may do to its result.           *)
LEMMA ReaderStepInv ==
  ASSUME SeqlockInv, NEW r \in Readers, LoadBegin(r) \/ Step(r)
  PROVE  /\ SeqlockInv'
         /\ \/ result' = result
            \/ result' = [result EXCEPT ![r] = NoValue]
            \/ result' = [result EXCEPT ![r] = [w \in Words |-> generation]]
<1>1. /\ sequence \in Nat /\ words \in [Words -> Nat]
      /\ reader \in [Readers -> ReaderState]
      /\ sequence' = sequence /\ words' = words /\ writer' = writer
      /\ generation' = generation /\ generation \in Nat
  BY Halves DEF SeqlockInv, TypeOK, LoadBegin, Step, Sample, LoadFail, LoadWord,
                Recheck, slot, generation
<1>2. /\ reader[r] \in ReaderState
      /\ reader[r].at \in {"idle", "sample", "words", "recheck"}
      /\ reader[r].attempt \in Nat /\ reader[r].before \in Nat
      /\ reader[r].index \in 1 .. WordCount + 1
      /\ reader[r].staging \in [Words -> Nat]
  BY <1>1 DEF ReaderState
<1> DEFINE Copied(s) ==
      s.at \in {"words", "recheck"} =>
        /\ ~Odd(s.before)
        /\ s.before <= sequence
        /\ s.at = "words" => s.index \in Words
        /\ sequence = s.before =>
             \A w \in Words : (w < s.index \/ s.at = "recheck") => s.staging[w] = generation
<1> HIDE DEF Copied
<1>3. \A q \in Readers : Copied(reader[q])
  BY DEF SeqlockInv, CopyInv, Copied
<1>4. ASSUME NEW s \in ReaderState, reader' = [reader EXCEPT ![r] = s], Copied(s),
             called' \in [Readers -> Nat],
             result' \in [Readers -> [Words -> Nat] \cup {NoValue}]
      PROVE  SeqlockInv'
  <2>1. reader' \in [Readers -> ReaderState]
    BY <1>1, <1>4
  <2>2. TypeOK'
    BY <1>1, <1>4, <2>1 DEF SeqlockInv, TypeOK
  <2>3. SlotInv'
    BY <1>1 DEF SeqlockInv, SlotInv
  <2>4. \A q \in Readers : Copied(reader'[q])
    BY <1>1, <1>3, <1>4
  <2>5. CopyInv'
    BY <1>1, <2>4 DEF CopyInv, Copied
  <2> QED BY <2>2, <2>3, <2>5 DEF SeqlockInv
<1>5. result \in [Readers -> [Words -> Nat] \cup {NoValue}] /\ called \in [Readers -> Nat]
  BY DEF SeqlockInv, TypeOK
<1>6. CASE LoadBegin(r)
  <2> DEFINE s == [reader[r] EXCEPT !.at = "sample", !.attempt = 0]
  <2>1. s \in ReaderState /\ s.at = "sample"
    BY <1>2 DEF ReaderState
  <2>2. reader' = [reader EXCEPT ![r] = s] /\ result' = result
    BY <1>1, <1>6 DEF LoadBegin
  <2>3. called' \in [Readers -> Nat]
    BY <1>1, <1>5, <1>6 DEF LoadBegin
  <2> HIDE DEF s
  <2> QED BY <1>4, <1>5, <2>1, <2>2, <2>3 DEF Copied
<1>7. CASE Sample(r)
  <2>1. CASE Odd(sequence)
    <3> DEFINE s == [reader[r] EXCEPT !.attempt = reader[r].attempt + 1]
    <3>1. reader' = [reader EXCEPT ![r] = s] /\ result' = result /\ called' = called
      BY <1>7, <2>1 DEF Sample
    <3>2. reader[r].attempt + 1 \in Nat /\ reader[r].at = "sample"
      BY <1>2, <1>7 DEF Sample
    <3>3. s \in ReaderState
      BY <1>2, <3>2 DEF ReaderState
    <3>4. s.at = "sample"
      BY <1>2, <3>2 DEF ReaderState
    <3> HIDE DEF s
    <3> QED BY <1>4, <1>5, <3>1, <3>3, <3>4 DEF Copied
  <2>2. CASE ~Odd(sequence)
    <3> DEFINE s == [reader[r] EXCEPT !.at = "words", !.before = sequence, !.index = 1]
    <3>1. reader' = [reader EXCEPT ![r] = s] /\ result' = result /\ called' = called
      BY <1>7, <2>2 DEF Sample
    <3>2. 1 \in 1 .. WordCount + 1 /\ 1 \in Words
      BY SeqlockAssumption DEF Words
    <3>3. s \in ReaderState
      BY <1>1, <1>2, <3>2 DEF ReaderState
    <3>4. s.at = "words" /\ s.before = sequence /\ s.index = 1
      BY <1>2 DEF ReaderState
    <3> HIDE DEF s
    <3>5. Copied(s)
      BY <1>1, <2>2, <3>2, <3>4 DEF Copied, Words
    <3> QED BY <1>4, <1>5, <3>1, <3>3, <3>5
  <2> QED BY <2>1, <2>2
<1>8. CASE LoadFail(r)
  <2> DEFINE s == [reader[r] EXCEPT !.at = "idle"]
  <2>1. s \in ReaderState /\ s.at = "idle"
    BY <1>2 DEF ReaderState
  <2>2. /\ reader' = [reader EXCEPT ![r] = s] /\ called' = called
        /\ result' = [result EXCEPT ![r] = NoValue]
    BY <1>1, <1>8 DEF LoadFail
  <2> HIDE DEF s
  <2>3. result' \in [Readers -> [Words -> Nat] \cup {NoValue}]
    BY <1>5, <2>2
  <2> QED BY <1>4, <1>5, <2>1, <2>2, <2>3 DEF Copied
<1>9. CASE LoadWord(r)
  <2> DEFINE i == reader[r].index
             s == [reader[r] EXCEPT !.staging[i] = words[i], !.index = @ + 1,
                                    !.at = IF i = WordCount THEN "recheck" ELSE "words"]
  <2>1. reader[r].at = "words" /\ i \in Words
    BY <1>3, <1>9 DEF LoadWord, Copied
  <2>2. /\ reader' = [reader EXCEPT ![r] = s] /\ result' = result /\ called' = called
    BY <1>1, <1>9 DEF LoadWord
  <2>3. /\ s \in ReaderState
        /\ s.before = reader[r].before /\ s.index = i + 1
        /\ s.at = IF i = WordCount THEN "recheck" ELSE "words"
        /\ s.staging = [reader[r].staging EXCEPT ![i] = words[i]]
    <3>1. words[i] \in Nat /\ i + 1 \in 1 .. WordCount + 1
      BY <1>1, <2>1, SeqlockAssumption DEF Words
    <3>2. [reader[r].staging EXCEPT ![i] = words[i]] \in [Words -> Nat]
      BY <1>2, <2>1, <3>1
    <3>3. s = [reader[r] EXCEPT !.staging = [reader[r].staging EXCEPT ![i] = words[i]],
                                !.index = i + 1,
                                !.at = IF i = WordCount THEN "recheck" ELSE "words"]
      BY <1>2 DEF ReaderState
    <3> HIDE DEF s
    <3>4. s \in ReaderState
      BY <1>2, <3>1, <3>2, <3>3 DEF ReaderState
    <3> QED BY <1>2, <3>3, <3>4 DEF ReaderState
  <2> HIDE DEF s
  <2>4. sequence = s.before => \A w \in Words : w < s.index => s.staging[w] = generation
    <3> SUFFICES ASSUME sequence = s.before, NEW w \in Words, w < s.index
                 PROVE  s.staging[w] = generation
      OBVIOUS
    <3>1. ~Odd(sequence) /\ words[i] = generation
      BY <1>3, <2>1, <2>3 DEF SeqlockInv, SlotInv, Copied
    <3>2. w = i \/ w < i
      BY <2>1, <2>3 DEF Words
    <3>3. w < i => reader[r].staging[w] = generation
      BY <1>3, <2>1, <2>3 DEF Copied
    <3> QED BY <1>2, <2>1, <2>3, <3>1, <3>2, <3>3
  <2>5. /\ s.at = "words" => s.index \in Words
        /\ s.at = "recheck" => \A w \in Words : w < s.index
    BY <2>1, <2>3, SeqlockAssumption DEF Words
  <2>6. ~Odd(s.before) /\ s.before <= sequence
    BY <1>3, <2>1, <2>3 DEF Copied
  <2>7. Copied(s)
    BY <2>4, <2>5, <2>6 DEF Copied
  <2> QED BY <1>4, <1>5, <2>2, <2>3, <2>7
<1>10. CASE Recheck(r)
  <2>1. CASE sequence = reader[r].before
    <3> DEFINE s == [reader[r] EXCEPT !.at = "idle"]
    <3>1. s \in ReaderState /\ s.at = "idle"
      BY <1>2 DEF ReaderState
    <3>2. /\ reader' = [reader EXCEPT ![r] = s] /\ called' = called
          /\ result' = [result EXCEPT ![r] = reader[r].staging]
          /\ reader[r].at = "recheck"
      BY <1>1, <1>10, <2>1 DEF Recheck
    <3> HIDE DEF s
    <3>3. reader[r].staging = [w \in Words |-> generation]
      BY <1>2, <1>3, <2>1, <3>2 DEF Copied
    <3>4. result' \in [Readers -> [Words -> Nat] \cup {NoValue}]
      BY <1>2, <1>5, <3>2
    <3> QED BY <1>4, <1>5, <3>1, <3>2, <3>3, <3>4 DEF Copied
  <2>2. CASE sequence # reader[r].before
    <3> DEFINE s == [reader[r] EXCEPT !.at = "sample", !.attempt = @ + 1]
    <3>1. reader[r].attempt + 1 \in Nat
      BY <1>2
    <3>2. s \in ReaderState /\ s.at = "sample"
      BY <1>2, <3>1 DEF ReaderState
    <3>3. reader' = [reader EXCEPT ![r] = s] /\ called' = called /\ result' = result
      BY <1>1, <1>10, <2>2 DEF Recheck
    <3> HIDE DEF s
    <3> QED BY <1>4, <1>5, <3>2, <3>3 DEF Copied
  <2> QED BY <2>1, <2>2
<1> QED BY <1>6, <1>7, <1>8, <1>9, <1>10 DEF Step

(* The inductive invariant holds of every behaviour.                       *)
THEOREM SeqlockInvariant == Spec => []SeqlockInv
<1>1. SeqlockInv /\ [Next]_vars => SeqlockInv'
  <2> SUFFICES ASSUME SeqlockInv, [Next]_vars PROVE SeqlockInv'
    OBVIOUS
  <2>1. CASE UNCHANGED vars
    BY <2>1 DEF vars, slot, SeqlockInv, TypeOK, SlotInv, CopyInv, generation
  <2> QED BY <2>1, WriterStepInv, ReaderStepInv DEF Next
<1> QED BY <1>1, InitInv, PTL DEF Spec

(* REQ-IPC-006: the word-by-word slot implements the atomic register, so   *)
(* that no reader ever gets a torn or an outdated value.                   *)
THEOREM SeqlockImplementsRegister == Spec => ImplementsLatestValue
<1>1. Init => Register!Init
  BY DEF Init, Register!Init, generation
<1>2. SeqlockInv /\ [Next]_vars => [Register!Next]_<<generation, result>>
  <2> SUFFICES ASSUME SeqlockInv, [Next]_vars
               PROVE  [Register!Next]_<<generation, result>>
    OBVIOUS
  <2>1. CASE Store \/ Crash
    <3>1. /\ sequence \in Nat /\ writer.start \in Nat
          /\ writer.at = "words" => ~Odd(writer.start) /\ sequence = writer.start + 1
          /\ writer.at = "idle" => ~Odd(sequence)
      BY DEF SeqlockInv, TypeOK, SlotInv, WriterState
    <3>2. CASE StoreEnd
      <4>1. sequence' = writer.start + 2 /\ writer.at = "words" /\ result' = result
        BY <3>2 DEF StoreEnd
      <4>2. generation' = generation + 1
        BY <3>1, <4>1, Halves DEF generation
      <4> QED BY <4>1, <4>2 DEF Register!Next, Register!Publish
    <3>3. CASE StoreBegin
      BY <3>1, <3>3, Halves DEF StoreBegin, generation
    <3>4. CASE StoreWord \/ Crash
      BY <3>4 DEF StoreWord, Crash, slot, generation
    <3> QED BY <2>1, <3>2, <3>3, <3>4 DEF Store
  <2>2. ASSUME NEW r \in Readers, LoadBegin(r) \/ Step(r)
        PROVE  [Register!Next]_<<generation, result>>
    <3>1. generation' = generation
      BY <2>2 DEF LoadBegin, Step, Sample, LoadFail, LoadWord, Recheck, slot, generation
    <3>2. \/ result' = result
          \/ result' = [result EXCEPT ![r] = NoValue]
          \/ result' = [result EXCEPT ![r] = [w \in Words |-> generation]]
      BY <2>2, ReaderStepInv
    <3> QED BY <3>1, <3>2 DEF Register!Next, Register!Load, Register!Fail, Register!Whole
  <2>3. CASE UNCHANGED vars
    BY <2>3 DEF vars, slot, generation
  <2> QED BY <2>1, <2>2, <2>3 DEF Next
<1> QED BY <1>1, <1>2, SeqlockInvariant, PTL DEF Spec, ImplementsLatestValue, Register!Spec

(* Since a load was called the sequence has not gone back, and an attempt  *)
(* that failed met a store: one in progress, or one that has moved it.     *)
CollisionInv ==
  \A r \in Readers :
    reader[r].at # "idle" =>
      /\ called[r] <= sequence
      /\ reader[r].at \in {"words", "recheck"} => called[r] <= reader[r].before
      /\ reader[r].attempt > 0 => Odd(sequence) \/ sequence # called[r]

(* Every step keeps it: only a store makes sequence_ odd or moves it.      *)
LEMMA CollisionStep ==
  ASSUME SeqlockInv, CollisionInv, [Next]_vars
  PROVE  CollisionInv'
<1>1. /\ sequence \in Nat /\ called \in [Readers -> Nat]
      /\ reader \in [Readers -> ReaderState]
  BY DEF SeqlockInv, TypeOK
<1>2. \A r \in Readers : /\ reader[r].attempt \in Nat /\ reader[r].before \in Nat
                         /\ called[r] \in Nat
  BY <1>1 DEF ReaderState
<1>3. CASE Store \/ Crash \/ UNCHANGED vars
  <2>1. reader' = reader /\ called' = called
    BY <1>3 DEF Store, StoreBegin, StoreWord, StoreEnd, Crash, vars
  <2>2. sequence' \in {sequence, sequence + 1}
    <3>1. writer.at = "words" => sequence = writer.start + 1
      BY DEF SeqlockInv, SlotInv
    <3>2. writer.start \in Nat
      BY DEF SeqlockInv, TypeOK, WriterState
    <3> QED BY <1>1, <1>3, <3>1, <3>2
            DEF Store, StoreBegin, StoreWord, StoreEnd, Crash, vars, slot
  <2> SUFFICES ASSUME NEW r \in Readers, reader[r].at # "idle"
               PROVE  /\ called[r] <= sequence'
                      /\ reader[r].at \in {"words", "recheck"} =>
                           called[r] <= reader[r].before
                      /\ reader[r].attempt > 0 => Odd(sequence') \/ sequence' # called[r]
    BY <2>1 DEF CollisionInv
  <2>3. /\ called[r] <= sequence
        /\ reader[r].at \in {"words", "recheck"} => called[r] <= reader[r].before
        /\ reader[r].attempt > 0 => Odd(sequence) \/ sequence # called[r]
    BY DEF CollisionInv
  <2>4. CASE sequence' = sequence
    BY <2>3, <2>4
  <2>5. CASE sequence' = sequence + 1
    BY <1>1, <1>2, <2>3, <2>5
  <2> QED BY <2>2, <2>4, <2>5
<1>4. ASSUME NEW r \in Readers, LoadBegin(r) \/ Step(r)
      PROVE  CollisionInv'
  <2>1. sequence' = sequence
    BY <1>4 DEF LoadBegin, Step, Sample, LoadFail, LoadWord, Recheck, slot
  <2>2. \A o \in Readers \ {r} : reader'[o] = reader[o] /\ called'[o] = called[o]
    BY <1>1, <1>4 DEF LoadBegin, Step, Sample, LoadFail, LoadWord, Recheck
  <2>3. /\ reader[r].at # "idle" => called[r] <= sequence
        /\ reader[r].at \in {"words", "recheck"} =>
             called[r] <= reader[r].before /\ reader[r].before <= sequence
        /\ (reader[r].at # "idle" /\ reader[r].attempt > 0) =>
             Odd(sequence) \/ sequence # called[r]
    BY DEF CollisionInv, SeqlockInv, CopyInv
  <2>4. reader'[r].at # "idle" =>
          /\ called'[r] <= sequence
          /\ reader'[r].at \in {"words", "recheck"} => called'[r] <= reader'[r].before
          /\ reader'[r].attempt > 0 => Odd(sequence) \/ sequence # called'[r]
    <3>1. CASE LoadBegin(r)
      <4>1. reader'[r].at = "sample" /\ reader'[r].attempt = 0 /\ called'[r] = sequence
        BY <1>1, <3>1 DEF LoadBegin, ReaderState
      <4> QED BY <1>1, <4>1
    <3>2. CASE Sample(r)
      <4>1. /\ reader[r].at = "sample" /\ called'[r] = called[r]
            /\ IF Odd(sequence)
               THEN reader'[r].at = "sample" /\ reader'[r].attempt = reader[r].attempt + 1
               ELSE /\ reader'[r].at = "words" /\ reader'[r].before = sequence
                    /\ reader'[r].attempt = reader[r].attempt
        BY <1>1, <3>2 DEF Sample, ReaderState
      <4> QED BY <2>3, <4>1
    <3>3. CASE LoadFail(r)
      BY <1>1, <3>3 DEF LoadFail, ReaderState
    <3>4. CASE LoadWord(r)
      <4>1. /\ reader[r].at = "words" /\ reader'[r].at \in {"words", "recheck"}
            /\ reader'[r].before = reader[r].before /\ called'[r] = called[r]
            /\ reader'[r].attempt = reader[r].attempt
        BY <1>1, <3>4 DEF LoadWord, ReaderState
      <4> QED BY <2>3, <4>1
    <3>5. CASE Recheck(r)
      <4>1. /\ reader[r].at = "recheck" /\ called'[r] = called[r]
            /\ IF sequence = reader[r].before THEN reader'[r].at = "idle"
               ELSE reader'[r].at = "sample"
        BY <1>1, <3>5 DEF Recheck, ReaderState
      <4>2. sequence # reader[r].before => sequence # called[r]
        BY <1>1, <1>2, <2>3, <4>1
      <4> QED BY <2>3, <4>1, <4>2
    <3> QED BY <1>4, <3>1, <3>2, <3>3, <3>4, <3>5 DEF Step
  <2> QED BY <2>1, <2>2, <2>4 DEF CollisionInv
<1> QED BY <1>3, <1>4 DEF Next

(* A load that gives up overlapped a store, if it may try at all.          *)
THEOREM FailedLoadsCollided ==
  ASSUME MaxAttempts > 0
  PROVE  Spec => FailureMeansCollision
<1>1. Init => CollisionInv
  BY DEF Init, CollisionInv
<1>2. SeqlockInv /\ CollisionInv /\ [Next]_vars => CollisionInv'
  BY CollisionStep
<1>3. SeqlockInv /\ CollisionInv /\ [Next]_vars =>
        [\A r \in Readers :
           (reader[r].at = "sample" /\ reader'[r].at = "idle") =>
             Odd(sequence) \/ sequence # called[r]]_vars
  <2> SUFFICES ASSUME SeqlockInv, CollisionInv, Next, NEW r \in Readers,
                      reader[r].at = "sample", reader'[r].at = "idle"
               PROVE  Odd(sequence) \/ sequence # called[r]
    OBVIOUS
  <2>1. reader \in [Readers -> ReaderState] /\ reader[r].attempt \in Nat
    BY DEF SeqlockInv, TypeOK, ReaderState
  <2>2. LoadFail(r)
    <3>1. ~(Store \/ Crash)
      BY DEF Store, StoreBegin, StoreWord, StoreEnd, Crash
    <3>2. PICK o \in Readers : LoadBegin(o) \/ Step(o)
      BY <3>1 DEF Next
    <3>3. o = r
      BY <2>1, <3>2 DEF LoadBegin, Step, Sample, LoadFail, LoadWord, Recheck
    <3> QED BY <2>1, <3>2, <3>3
            DEF LoadBegin, Step, Sample, LoadWord, Recheck, ReaderState
  <2>3. reader[r].attempt > 0
    BY <2>1, <2>2, SeqlockAssumption DEF LoadFail
  <2> QED BY <2>3 DEF CollisionInv
<1> QED BY <1>1, <1>2, <1>3, SeqlockInvariant, PTL DEF Spec, FailureMeansCollision

-----------------------------------------------------------------------------
(* An object has no size until its creator, which is alone in this, has    *)
(* given it one, and no object shrinks; so the size checked by             *)
(* openExisting() is still there when the object is mapped.                *)
CallsInv ==
  /\ bound <= created
  /\ \A o \in Objects : o > created => size[o] = 0
  /\ \A p \in Processes :
       /\ call[p].step # "idle" => call[p].object \in 1 .. created
       /\ call[p].step = "truncate" => size[call[p].object] = 0
       /\ call[p].step = "truncate" => call[p].bytes # 0
       /\ call[p].step \in {"map", "attach"} => call[p].bytes <= size[call[p].object]
  /\ \A p, q \in Processes :
       /\ call[p].step = "truncate" /\ call[q].step = "truncate"
       /\ call[p].object = call[q].object
       => p = q

SizesInv ==
  /\ CallsInv
  /\ \A p \in Processes, h \in Handles :
       Valid(regions[p][h]) => regions[p][h].object \in 1 .. created

(* A mapping is numbered once, and the region a call will fill is empty,   *)
(* so that nothing is overwritten: each mapping stays with one region.     *)
Owned(p) ==
  /\ live[p] \subseteq 1 .. made
  /\ call[p].step # "idle" => regions[p][call[p].handle].mapping = 0
  /\ \A m \in live[p] : \E h \in Handles : regions[p][h].mapping = m
  /\ \A h \in Handles : regions[p][h].mapping \in live[p] \cup {0}
  /\ \A h, k \in Handles :
       (regions[p][h].mapping = regions[p][k].mapping /\ regions[p][h].mapping # 0) => h = k

(* Every process owns its mappings so.                                     *)
OwnersInv == \A p \in Processes : Owned(p)

(* The assumption on the constants, and the values that are not any state. *)
LEMMA MemoryTypes ==
  /\ Handles # {} /\ Bytes \subseteq Nat /\ 0 \notin Bytes
  /\ MaxObjects \in Nat /\ MaxMappings \in Nat
  /\ NoRegion \in Region /\ Failed \in Region
  /\ NoRegion.mapping = 0 /\ Failed.mapping = 0
  /\ Idle.step = "idle"
  /\ Idle \in Call
<1>1. /\ Handles # {} /\ Bytes \subseteq Nat /\ 0 \notin Bytes
      /\ MaxObjects \in Nat /\ MaxMappings \in Nat
  BY SharedMemoryAssumption
<1>2. NoRegion \in Region
  BY <1>1 DEF NoRegion, Region
<1>4. Failed \in Region
  BY <1>2, Zenon DEF Failed, Region
<1>3. (CHOOSE h \in Handles : TRUE) \in Handles
  BY <1>1, Zenon
<1>5. NoRegion.mapping = 0 /\ Failed.mapping = 0
  BY DEF Failed, NoRegion
<1> QED BY <1>1, <1>2, <1>3, <1>4, <1>5 DEF Idle, Call

(* Every step keeps the type invariant.                                    *)
LEMMA MemoryTypeStep ==
  ASSUME MemoryType, SizesInv, [MemoryNext]_memory
  PROVE  MemoryType'
<1> USE DEF MemoryType
<1>0. /\ Handles # {} /\ Bytes \subseteq Nat /\ 0 \notin Bytes
      /\ MaxObjects \in Nat /\ MaxMappings \in Nat
      /\ NoRegion \in Region /\ Failed \in Region
      /\ Idle \in Call
  BY MemoryTypes
<1> USE <1>0
<1>a. \A p \in Processes :
        /\ call[p].step \in {"idle", "truncate", "map", "remove", "stat", "attach"}
        /\ call[p].handle \in Handles /\ call[p].bytes \in {0} \cup Bytes
        /\ call[p].object \in 0 .. MaxObjects
  BY DEF Call
<1>1. ASSUME NEW p \in Processes, NEW h \in Handles, NEW bytes \in Bytes,
             CreateOpen(p, h, bytes)
      PROVE  MemoryType'
  BY <1>1 DEF CreateOpen, Enter, Call
<1>2. ASSUME NEW p \in Processes, NEW h \in Handles, NEW bytes \in Bytes,
             OpenExisting(p, h, bytes)
      PROVE  MemoryType'
  BY <1>2 DEF OpenExisting, Enter, Call
<1>3. ASSUME NEW p \in Processes, NEW h \in Handles, OpenFails(p, h)
      PROVE  MemoryType'
  BY <1>3 DEF OpenFails
<1>4. ASSUME NEW p \in Processes, NEW h \in Handles, Close(p, h)
      PROVE  MemoryType'
  <2>1. [regions[p][h] EXCEPT !.mapping = 0, !.object = 0, !.size = 0] \in Region
    <3>1. 0 \in 0 .. MaxMappings /\ 0 \in 0 .. MaxObjects /\ regions[p][h] \in Region
      OBVIOUS
    <3> QED BY <3>1, Zenon DEF Region
  <2> QED BY <1>4, <2>1 DEF Close
<1>5. ASSUME NEW p \in Processes, NEW h \in Handles, NEW from \in Handles,
             Move(p, h, from)
      PROVE  MemoryType'
  <2>1. [NoRegion EXCEPT !.ok = regions[p][from].ok] \in Region
    <3>1. regions[p][from] \in Region
      OBVIOUS
    <3> QED BY <3>1, <1>0, Zenon DEF Region
  <2> QED BY <1>5, <2>1 DEF Move
<1>6. ASSUME NEW p \in Processes, Fails(p)
      PROVE  regions' \in [Processes -> [Handles -> Region]] /\ live' = live /\ made' = made
  BY <1>a, <1>6 DEF Fails
<1>7. ASSUME NEW p \in Processes, Maps(p)
      PROVE  /\ regions' \in [Processes -> [Handles -> Region]]
             /\ live' \in [Processes -> SUBSET (1 .. MaxMappings)]
             /\ made' \in Nat
  <2>1. /\ made < MaxMappings /\ made' = made + 1 /\ made' \in 1 .. MaxMappings
        /\ live' = [live EXCEPT ![p] = @ \cup {made'}]
    BY <1>7 DEF Maps
  <2>2. [mapping |-> made', object |-> call[p].object, size |-> call[p].bytes, ok |-> TRUE]
          \in Region
    BY <1>a, <2>1 DEF Region
  <2>3. regions' \in [Processes -> [Handles -> Region]]
    BY <1>7, <1>a, <2>2 DEF Maps
  <2>4. live[p] \cup {made'} \in SUBSET (1 .. MaxMappings)
    BY <2>1
  <2>5. live' \in [Processes -> SUBSET (1 .. MaxMappings)]
    BY <2>1, <2>4, Zenon
  <2> QED BY <2>1, <2>3, <2>5
<1>8. ASSUME NEW p \in Processes,
             NEW s \in {"idle", "truncate", "map", "remove", "stat", "attach"},
             call' = [call EXCEPT ![p].step = s] \/ Leave(p)
      PROVE  call' \in [Processes -> Call]
  <2>1. [call[p] EXCEPT !.step = s] \in Call
    BY Zenon DEF Call
  <2> QED BY <1>8, <2>1, Zenon DEF Leave
<1>9. ASSUME NEW p \in Processes, Truncate(p) PROVE MemoryType'
  <2>1. call' = [call EXCEPT ![p].step = "map"] \/ call' = [call EXCEPT ![p].step = "remove"]
    BY <1>9 DEF Truncate
  <2>2. size' \in [Objects -> {0} \cup Bytes]
    BY <1>a, <1>9 DEF Truncate
  <2> QED BY <1>6, <1>8, <1>9, <2>1, <2>2 DEF Truncate
<1>10. ASSUME NEW p \in Processes,
             CreateMap(p) \/ Remove(p) \/ Stat(p) \/ Attach(p)
       PROVE MemoryType'
  <2>1. \/ call' = [call EXCEPT ![p].step = "remove"]
        \/ call' = [call EXCEPT ![p].step = "attach"]
        \/ Leave(p)
    BY <1>10 DEF CreateMap, Remove, Stat, Attach
  <2>2. Maps(p) \/ Fails(p) \/ UNCHANGED <<regions, live, made>>
    BY <1>10 DEF CreateMap, Remove, Stat, Attach
  <2>3. bound' \in {bound, 0} /\ UNCHANGED <<size, created, orphaned>>
    BY <1>10 DEF CreateMap, Remove, Stat, Attach
  <2> QED BY <1>6, <1>7, <1>8, <2>1, <2>2, <2>3
<1>12. ASSUME NEW p \in Processes, UnlinkName(p) PROVE MemoryType'
  BY <1>12 DEF UnlinkName
<1>13. ASSUME NEW p \in Processes, Die(p) PROVE MemoryType'
  <2>1. call[p].step # "idle" => call[p].object \in Objects
    BY DEF SizesInv, CallsInv, Objects
  <2> QED BY <1>a, <1>13, <2>1 DEF Die, Leave
<1>14. CASE UNCHANGED memory
  BY <1>14 DEF memory
<1> QED BY <1>1, <1>2, <1>3, <1>4, <1>5, <1>9, <1>10, <1>12, <1>13,
           <1>14 DEF MemoryNext

(* The type invariant, value by value.                                     *)
LEMMA MemoryValues ==
  ASSUME MemoryType
  PROVE  /\ bound \in Nat /\ bound <= MaxObjects
         /\ created \in Nat /\ created <= MaxObjects
         /\ \A o \in 1 .. MaxObjects : size[o] \in Nat
         /\ \A p \in Processes :
              call[p].bytes \in Nat /\ call[p].object \in 0 .. MaxObjects
         /\ \A p \in Processes, h \in Handles :
              regions[p][h].mapping \in Nat /\ regions[p][h].size \in Nat
<1>1. {0} \cup Bytes \subseteq Nat /\ MaxObjects \in Nat /\ MaxMappings \in Nat
  BY MemoryTypes
<1>2. \A o \in 1 .. MaxObjects : size[o] \in {0} \cup Bytes
  BY DEF MemoryType, Objects
<1>3. \A p \in Processes :
        call[p].bytes \in {0} \cup Bytes /\ call[p].object \in 0 .. MaxObjects
  BY DEF MemoryType, Call
<1>4. \A p \in Processes, h \in Handles : regions[p][h] \in Region
  BY DEF MemoryType
<1>5. \A p \in Processes, h \in Handles :
        /\ regions[p][h].mapping \in 0 .. MaxMappings
        /\ regions[p][h].size \in {0} \cup Bytes
  BY <1>4 DEF Region
<1>6. bound \in 0 .. MaxObjects /\ created \in 0 .. MaxObjects
  BY DEF MemoryType
<1>7. 0 .. MaxObjects \subseteq Nat /\ 0 .. MaxMappings \subseteq Nat
  BY <1>1
<1>8. bound \in Nat /\ bound <= MaxObjects /\ created \in Nat /\ created <= MaxObjects
  BY <1>1, <1>6
<1> QED BY <1>1, <1>2, <1>3, <1>5, <1>7, <1>8, Zenon

(* A region that is valid after a step was so before, perhaps under        *)
(* another handle, or has just been mapped.                                *)
LEMMA RegionsAfter ==
  ASSUME MemoryType, [MemoryNext]_memory,
         NEW q \in Processes, NEW k \in Handles, Valid(regions'[q][k])
  PROVE  \/ \E h \in Handles : regions'[q][k] = regions[q][h]
         \/ /\ call[q].step \in {"map", "attach"}
            /\ regions'[q][k].object = call[q].object
            /\ regions'[q][k].size = call[q].bytes
<1>1. /\ NoRegion.mapping = 0 /\ Failed.mapping = 0
      /\ regions \in [Processes -> [Handles -> Region]]
      /\ \A p \in Processes : call[p].handle \in Handles
  BY MemoryTypes DEF MemoryType, Call
<1>2. CASE UNCHANGED regions
  BY <1>2
<1>3. ASSUME NEW p \in Processes, NEW h \in Handles, NEW r,
             regions' = [regions EXCEPT ![p][h] = r], r.mapping = 0
      PROVE  \E x \in Handles : regions'[q][k] = regions[q][x]
  BY <1>1, <1>3 DEF Valid
<1>4. ASSUME NEW p \in Processes, Fails(p)
      PROVE  \E x \in Handles : regions'[q][k] = regions[q][x]
  BY <1>1, <1>3, <1>4 DEF Fails
<1>5. ASSUME NEW p \in Processes, NEW h \in Handles, OpenFails(p, h)
      PROVE  \E x \in Handles : regions'[q][k] = regions[q][x]
  BY <1>1, <1>3, <1>5 DEF OpenFails
<1>6. ASSUME NEW p \in Processes, NEW h \in Handles, Close(p, h)
      PROVE  \E x \in Handles : regions'[q][k] = regions[q][x]
  <2> DEFINE r == [regions[p][h] EXCEPT !.mapping = 0, !.object = 0, !.size = 0]
  <2>1. r.mapping = 0
    BY <1>1 DEF Region
  <2>2. regions' = [regions EXCEPT ![p][h] = r]
    BY <1>6 DEF Close
  <2> HIDE DEF r
  <2> QED BY <1>3, <2>1, <2>2
<1>7. ASSUME NEW p \in Processes, NEW h \in Handles, NEW from \in Handles,
             Move(p, h, from)
      PROVE  \E x \in Handles : regions'[q][k] = regions[q][x]
  <2> DEFINE r == [NoRegion EXCEPT !.ok = regions[p][from].ok]
  <2>1. r.mapping = 0
    BY DEF NoRegion
  <2>2. /\ regions' = [regions EXCEPT ![p][h] = regions[p][from], ![p][from] = r]
        /\ h # from
    BY <1>7 DEF Move
  <2> HIDE DEF r
  <2> QED BY <1>1, <2>1, <2>2 DEF Valid
<1>8. ASSUME NEW p \in Processes, Maps(p), call[p].step \in {"map", "attach"}
      PROVE  \/ \E x \in Handles : regions'[q][k] = regions[q][x]
             \/ /\ call[q].step \in {"map", "attach"}
                /\ regions'[q][k].object = call[q].object
                /\ regions'[q][k].size = call[q].bytes
  BY <1>1, <1>8 DEF Maps
<1>9. ASSUME NEW p \in Processes, Die(p)
      PROVE  \E x \in Handles : regions'[q][k] = regions[q][x]
  BY <1>1, <1>9 DEF Die, Valid
<1> QED BY <1>2, <1>4, <1>5, <1>6, <1>7, <1>8, <1>9
        DEF MemoryNext, CreateOpen, OpenExisting, Truncate, CreateMap,
            Remove, Stat, Attach, UnlinkName, memory

(* Every step keeps what the calls under way rely on.                      *)
LEMMA MemorySizesStep ==
  ASSUME MemoryType, SizesInv, [MemoryNext]_memory
  PROVE  /\ CallsInv'
         /\ created <= created' /\ \A o \in Objects : size[o] <= size'[o]
<1>0. /\ Bytes \subseteq Nat /\ 0 \notin Bytes /\ MaxObjects \in Nat
      /\ Idle.step = "idle"
  BY MemoryTypes
<1>1. /\ bound \in Nat /\ created \in Nat /\ created <= MaxObjects
      /\ \A o \in 1 .. MaxObjects : size[o] \in Nat
      /\ \A p \in Processes : call[p].bytes \in Nat /\ call[p].object \in 0 .. MaxObjects
  BY MemoryValues
<1>2. CallsInv
  BY DEF SizesInv
<1>3. call \in [Processes -> Call] /\ DOMAIN size = 1 .. MaxObjects
  BY DEF MemoryType, Objects
<1> USE <1>0, <1>1, <1>2 DEF CallsInv, Objects
<1>4. ASSUME NEW p \in Processes, NEW h \in Handles, NEW bytes \in Bytes,
             CreateOpen(p, h, bytes)
      PROVE  CallsInv' /\ created <= created' /\ \A o \in Objects : size[o] <= size'[o]
  <2>1. /\ created < MaxObjects /\ created' = created + 1 /\ bound' = created' /\ size' = size
        /\ call'[p].step = "truncate" /\ call'[p].object = created' /\ call'[p].bytes = bytes
        /\ \A q \in Processes \ {p} : call'[q] = call[q]
    BY <1>3, <1>4 DEF CreateOpen, Enter
  <2> QED BY <2>1
<1>5. ASSUME NEW p \in Processes, NEW h \in Handles, NEW bytes \in Bytes,
             OpenExisting(p, h, bytes)
      PROVE  CallsInv' /\ created <= created' /\ \A o \in Objects : size[o] <= size'[o]
  <2>1. /\ bound # 0 /\ UNCHANGED <<bound, size, created>>
        /\ call'[p].step = "stat" /\ call'[p].object = bound
        /\ \A q \in Processes \ {p} : call'[q] = call[q]
    BY <1>3, <1>5 DEF OpenExisting, Enter
  <2> QED BY <2>1
<1>6. ASSUME NEW p \in Processes, bound' \in {bound, 0}, UNCHANGED <<size, created>>,
             call' = call \/ Leave(p)
      PROVE  CallsInv' /\ created <= created' /\ \A o \in Objects : size[o] <= size'[o]
  <2>1. /\ call'[p] = call[p] \/ call'[p].step = "idle"
        /\ \A q \in Processes \ {p} : call'[q] = call[q]
    BY <1>3, <1>6 DEF Leave
  <2> QED BY <1>6, <2>1
<1>7. ASSUME NEW p \in Processes, NEW s \in {"remove", "attach"},
             call[p].step # "idle",
             call' = [call EXCEPT ![p].step = s], UNCHANGED <<bound, size, created>>,
             s = "attach" => LargeEnough(p)
      PROVE  CallsInv' /\ created <= created' /\ \A o \in Objects : size[o] <= size'[o]
  <2>1. /\ call'[p].step = s /\ call'[p].object = call[p].object
        /\ call'[p].bytes = call[p].bytes
        /\ \A q \in Processes \ {p} : call'[q] = call[q]
    BY <1>3, <1>7 DEF Call
  <2> QED BY <1>7, <2>1 DEF LargeEnough
<1>8. ASSUME NEW p \in Processes, call[p].step = "truncate",
             size' = [size EXCEPT ![call[p].object] = call[p].bytes],
             call' = [call EXCEPT ![p].step = "map"], UNCHANGED <<bound, created>>
      PROVE  CallsInv' /\ created <= created' /\ \A o \in Objects : size[o] <= size'[o]
  <2>1. /\ call'[p].step = "map" /\ call'[p].object = call[p].object
        /\ call'[p].bytes = call[p].bytes
        /\ \A q \in Processes \ {p} : call'[q] = call[q]
    BY <1>3, <1>8 DEF Call
  <2>2. /\ call[p].object \in 1 .. created /\ size[call[p].object] = 0
        /\ size'[call[p].object] = call[p].bytes
        /\ \A o \in 1 .. MaxObjects : o # call[p].object => size'[o] = size[o]
    BY <1>3, <1>8
  <2> QED BY <1>8, <2>1, <2>2
<1>9. CASE UNCHANGED memory
  BY <1>9 DEF memory
<1>10. ASSUME NEW p \in Processes,
              \/ Truncate(p) \/ CreateMap(p) \/ Remove(p) \/ Stat(p)
              \/ Attach(p) \/ UnlinkName(p) \/ Die(p)
              \/ \E h \in Handles : OpenFails(p, h) \/ Close(p, h)
              \/ \E h \in Handles, from \in Handles : Move(p, h, from)
       PROVE  CallsInv' /\ created <= created' /\ \A o \in Objects : size[o] <= size'[o]
  <2> HIDE DEF CallsInv
  <2> QED BY <1>6, <1>7, <1>8, <1>10
          DEF Truncate, CreateMap, Remove, Stat, Attach,
              UnlinkName, Die, OpenFails, Close, Move
<1> QED BY <1>4, <1>5, <1>9, <1>10 DEF MemoryNext

(* And so every region stays inside its object.                            *)
LEMMA MemoryRegionsStep ==
  ASSUME MemoryType, SizesInv, MappedInside,
         [MemoryNext]_memory
  PROVE  SizesInv' /\ MappedInside'
<1>1. /\ CallsInv' /\ created <= created'
      /\ \A o \in 1 .. MaxObjects : size[o] <= size'[o]
  BY MemorySizesStep DEF Objects
<1>2. /\ created \in Nat /\ created <= MaxObjects /\ MaxObjects \in Nat
      /\ \A o \in 1 .. MaxObjects : size[o] \in Nat
  BY MemoryTypes, MemoryValues
<1>6. created' \in Nat /\ \A o \in 1 .. MaxObjects : size'[o] \in Nat
  <2>1. MemoryType'
    BY MemoryTypeStep
  <2>2. {0} \cup Bytes \subseteq Nat
    BY MemoryTypes
  <2>3. \A o \in 1 .. MaxObjects : size'[o] \in {0} \cup Bytes
    BY <2>1 DEF MemoryType, Objects
  <2>4. created' \in Nat
    BY <1>2, <2>1 DEF MemoryType
  <2> QED BY <2>2, <2>3, <2>4
<1>3. \A p \in Processes, h \in Handles : regions[p][h].size \in Nat
  BY MemoryValues
<1>4. \A p \in Processes : call[p].bytes \in Nat
  BY MemoryValues
<1>5. ASSUME NEW p \in Processes, NEW h \in Handles, Valid(regions'[p][h])
      PROVE  /\ regions'[p][h].object \in 1 .. created'
             /\ regions'[p][h].size <= size'[regions'[p][h].object]
  <2>1. CASE \E k \in Handles : regions'[p][h] = regions[p][k]
    <3>1. PICK k \in Handles : regions'[p][h] = regions[p][k]
      BY <2>1
    <3>2. Valid(regions[p][k])
      BY <1>5, <3>1 DEF Valid
    <3>3. /\ regions[p][k].object \in 1 .. created
          /\ regions[p][k].size <= size[regions[p][k].object]
      BY <3>2 DEF SizesInv, MappedInside
    <3> QED BY <1>1, <1>2, <1>3, <1>6, <3>1, <3>3
  <2>2. CASE /\ call[p].step \in {"map", "attach"}
             /\ regions'[p][h].object = call[p].object
             /\ regions'[p][h].size = call[p].bytes
    <3>1. call[p].object \in 1 .. created /\ call[p].bytes <= size[call[p].object]
      BY <2>2 DEF SizesInv, CallsInv
    <3> QED BY <1>1, <1>2, <1>4, <1>6, <2>2, <3>1
  <2> QED BY <1>5, <2>1, <2>2, RegionsAfter
<1> QED BY <1>1, <1>5 DEF SizesInv, MappedInside, Valid

(* Nor does the name ever keep an object without a size, unless its        *)
(* creator is at work or has died.                                         *)
LEMMA MemoryTrapStep ==
  ASSUME MemoryType, SizesInv, NoZeroLengthTrap,
         [MemoryNext]_memory
  PROVE  NoZeroLengthTrap'
<1>0. /\ Bytes \subseteq Nat /\ MaxObjects \in Nat /\ 0 \notin Bytes
      /\ Idle.step = "idle"
  BY MemoryTypes
<1>1. bound \in Nat /\ created \in Nat /\ created <= MaxObjects /\ bound <= created
  BY MemoryValues DEF SizesInv, CallsInv
<1>2. \A p \in Processes : call[p].step # "idle" =>
        call[p].object \in 1 .. MaxObjects
  BY <1>0, <1>1 DEF SizesInv, CallsInv
<1>3. call \in [Processes -> Call] /\ DOMAIN size = 1 .. MaxObjects
  BY DEF MemoryType, Objects
<1> USE <1>0, <1>1, <1>2 DEF NoZeroLengthTrap
<1>4. ASSUME NEW p \in Processes, NEW h \in Handles, NEW bytes \in Bytes,
             CreateOpen(p, h, bytes)
      PROVE  NoZeroLengthTrap'
  <2>1. bound' = created + 1 /\ call'[p].step = "truncate" /\ call'[p].object = bound'
    BY <1>3, <1>4 DEF CreateOpen, Enter
  <2> QED BY <2>1
<1>5. ASSUME NEW p \in Processes, UNCHANGED <<bound, size, orphaned>>,
             call[p].step \notin {"truncate", "remove"},
             \A q \in Processes \ {p} : call'[q] = call[q]
      PROVE  NoZeroLengthTrap'
  BY <1>5
<1>6. ASSUME NEW p \in Processes, Truncate(p)
      PROVE  NoZeroLengthTrap'
  <2>1. /\ call'[p].object = call[p].object /\ call[p].step = "truncate"
        /\ \A q \in Processes \ {p} : call'[q] = call[q]
        /\ UNCHANGED <<bound, orphaned>>
    BY <1>3, <1>6 DEF Truncate, Call
  <2>2. CASE size' = size /\ call'[p].step = "remove"
    BY <2>1, <2>2
  <2>3. CASE size' = [size EXCEPT ![call[p].object] = call[p].bytes]
    <3>1. call[p].bytes # 0
      BY <2>1 DEF SizesInv, CallsInv
    <3>2. /\ size'[call[p].object] # 0
          /\ \A o \in 1 .. MaxObjects : o # call[p].object => size'[o] = size[o]
      BY <1>3, <2>1, <2>3, <3>1
    <3>3. bound # 0 => bound \in 1 .. MaxObjects
      OBVIOUS
    <3> QED BY <2>1, <3>2, <3>3
  <2> QED BY <1>3, <1>6, <2>2, <2>3 DEF Truncate, Call
<1>7. ASSUME NEW p \in Processes, Die(p)
      PROVE  NoZeroLengthTrap'
  <2>1. /\ \A q \in Processes \ {p} : call'[q] = call[q]
        /\ call[p].step \in {"truncate", "remove"} => call[p].object \in orphaned'
        /\ orphaned \subseteq orphaned' /\ UNCHANGED <<bound, size>>
    BY <1>3, <1>7 DEF Die, Leave
  <2> QED BY <2>1
<1>8. ASSUME NEW p \in Processes, NEW h \in Handles, NEW bytes \in Bytes,
             OpenExisting(p, h, bytes)
      PROVE  NoZeroLengthTrap'
  BY <1>3, <1>5, <1>8 DEF OpenExisting, Enter
<1>9. ASSUME NEW p \in Processes, CreateMap(p) \/ Stat(p) \/ Attach(p)
      PROVE  NoZeroLengthTrap'
  BY <1>3, <1>5, <1>9 DEF CreateMap, Stat, Attach, Leave
<1>10. ASSUME NEW p \in Processes, Remove(p) \/ UnlinkName(p)
       PROVE  NoZeroLengthTrap'
  BY <1>10 DEF Remove, UnlinkName
<1>11. CASE UNCHANGED <<bound, size, call, orphaned>>
  BY <1>11
<1> QED BY <1>4, <1>6, <1>7, <1>8, <1>9, <1>10, <1>11
        DEF MemoryNext, OpenFails, Close, Move, memory

(* Where regions never share a mapping, a mapping has one region.          *)
LEMMA OwnersOwnOnce == OwnersInv => OwnedOnce
<1> SUFFICES ASSUME OwnersInv, NEW p \in Processes
             PROVE  /\ \A m \in live[p] :
                         \E h \in Handles : {k \in Handles : regions[p][k].mapping = m} = {h}
                    /\ \A h \in Handles : Valid(regions[p][h]) =>
                         regions[p][h].mapping \in live[p]
  BY DEF OwnedOnce
<1>1. Owned(p)
  BY DEF OwnersInv
<1>2. ASSUME NEW m \in live[p]
      PROVE  \E h \in Handles : {k \in Handles : regions[p][k].mapping = m} = {h}
  <2>1. PICK h \in Handles : regions[p][h].mapping = m
    BY <1>1 DEF Owned
  <2>2. m # 0
    BY <1>1 DEF Owned
  <2> QED BY <1>1, <2>1, <2>2 DEF Owned
<1> QED BY <1>1, <1>2 DEF Owned, Valid

(* Every step keeps the ownership of the mappings.                         *)
LEMMA MemoryOwnersStep ==
  ASSUME MemoryType, OwnersInv, [MemoryNext]_memory
  PROVE  OwnersInv'
<1>0. NoRegion.mapping = 0 /\ Failed.mapping = 0 /\ Idle.step = "idle"
  BY MemoryTypes
<1>1. /\ regions \in [Processes -> [Handles -> Region]]
      /\ live \in [Processes -> SUBSET (1 .. MaxMappings)]
      /\ call \in [Processes -> Call] /\ made \in Nat
  BY DEF MemoryType
<1>2. /\ \A p \in Processes : call[p].handle \in Handles
      /\ \A p \in Processes, h \in Handles : regions[p][h].mapping \in Nat
  BY <1>1, MemoryValues DEF Call
<1>3. ASSUME NEW p \in Processes, Owned(p)', made' \in {made, made + 1},
             \A q \in Processes \ {p} :
               live'[q] = live[q] /\ regions'[q] = regions[q] /\ call'[q] = call[q]
      PROVE  OwnersInv'
  <2>1. ASSUME NEW q \in Processes \ {p} PROVE Owned(q)'
    <3>1. 1 .. made \subseteq 1 .. made'
      BY <1>1, <1>3
    <3>2. Owned(q) /\ live'[q] = live[q] /\ regions'[q] = regions[q] /\ call'[q] = call[q]
      BY <1>3 DEF OwnersInv
    <3> QED BY <3>1, <3>2 DEF Owned
  <2> QED BY <1>3, <2>1 DEF OwnersInv
<1>4. ASSUME NEW p \in Processes, NEW h \in Handles, NEW r,
             regions' = [regions EXCEPT ![p][h] = r] \/ regions' = regions,
             r.mapping = 0, regions[p][h].mapping = 0, UNCHANGED <<live, made>>,
             \A q \in Processes \ {p} : call'[q] = call[q],
             call'[p].step # "idle" => call'[p].handle = h
      PROVE  OwnersInv'
  <2>1. /\ live'[p] = live[p] /\ made' = made
        /\ \A k \in Handles : regions'[p][k].mapping = regions[p][k].mapping
        /\ \A q \in Processes \ {p} : live'[q] = live[q] /\ regions'[q] = regions[q]
    BY <1>1, <1>4
  <2>2. Owned(p)
    BY DEF OwnersInv
  <2>3. Owned(p)'
    BY <1>4, <2>1, <2>2 DEF Owned
  <2> QED BY <1>3, <1>4, <2>1, <2>3
<1>5. ASSUME NEW p \in Processes, Maps(p), Leave(p), call[p].step # "idle"
      PROVE  OwnersInv'
  <2> DEFINE h == call[p].handle
  <2>1. /\ made' = made + 1 /\ live'[p] = live[p] \cup {made'}
        /\ \A q \in Processes \ {p} :
             live'[q] = live[q] /\ regions'[q] = regions[q] /\ call'[q] = call[q]
        /\ call'[p].step = "idle"
    BY <1>0, <1>1, <1>5 DEF Maps, Leave
  <2>2. /\ regions'[p][h].mapping = made'
        /\ \A k \in Handles \ {h} : regions'[p][k].mapping = regions[p][k].mapping
    BY <1>1, <1>2, <1>5 DEF Maps
  <2>3. Owned(p) /\ regions[p][h].mapping = 0 /\ h \in Handles
    BY <1>2, <1>5 DEF OwnersInv, Owned
  <2> HIDE DEF h
  <2>4. made' \notin live[p] /\ live'[p] \subseteq 1 .. made' /\ made' # 0
    BY <1>1, <2>1, <2>3 DEF Owned
  <2>5. Owned(p)'
    <3>1. \A m \in live'[p] : \E k \in Handles : regions'[p][k].mapping = m
      <4>1. ASSUME NEW m \in live[p] PROVE \E k \in Handles : regions'[p][k].mapping = m
        <5>1. PICK k \in Handles : regions[p][k].mapping = m
          BY <2>3 DEF Owned
        <5>2. m # 0
          BY <1>1, <2>3 DEF Owned
        <5> QED BY <2>2, <2>3, <5>1, <5>2
      <4> QED BY <2>1, <2>2, <2>3, <4>1
    <3>2. \A k \in Handles : regions'[p][k].mapping \in live'[p] \cup {0}
      BY <2>1, <2>2, <2>3 DEF Owned
    <3>3. \A j, k \in Handles :
            regions'[p][j].mapping = regions'[p][k].mapping /\ regions'[p][j].mapping # 0 => j = k
      BY <2>2, <2>3, <2>4 DEF Owned
    <3> QED BY <2>1, <2>4, <3>1, <3>2, <3>3 DEF Owned
  <2> QED BY <1>3, <2>1, <2>5
<1>6. ASSUME NEW p \in Processes, NEW h \in Handles, Close(p, h)
      PROVE  OwnersInv'
  <2>1. /\ live'[p] = live[p] \ {regions[p][h].mapping} /\ made' = made /\ call' = call
        /\ \A q \in Processes \ {p} : live'[q] = live[q] /\ regions'[q] = regions[q]
        /\ regions'[p][h].mapping = 0
        /\ \A k \in Handles \ {h} : regions'[p][k] = regions[p][k]
        /\ call[p].step = "idle"
    BY <1>1, <1>6 DEF Close, Region
  <2>2. Owned(p)
    BY DEF OwnersInv
  <2>3. Owned(p)'
    BY <2>1, <2>2 DEF Owned
  <2> QED BY <1>3, <2>1, <2>3
<1>7. ASSUME NEW p \in Processes, NEW h \in Handles, NEW from \in Handles,
             Move(p, h, from)
      PROVE  OwnersInv'
  <2> DEFINE r == [NoRegion EXCEPT !.ok = regions[p][from].ok]
  <2>1. r.mapping = 0
    BY DEF NoRegion
  <2>2. /\ regions' = [regions EXCEPT ![p][h] = regions[p][from], ![p][from] = r]
        /\ h # from /\ call[p].step = "idle" /\ UNCHANGED <<call, made>>
        /\ live' = [live EXCEPT ![p] = @ \ {regions[p][h].mapping}]
    BY <1>7 DEF Move
  <2> HIDE DEF r
  <2>3. /\ live'[p] = live[p] \ {regions[p][h].mapping}
        /\ \A q \in Processes \ {p} : live'[q] = live[q] /\ regions'[q] = regions[q]
        /\ regions'[p][h] = regions[p][from] /\ regions'[p][from].mapping = 0
        /\ \A k \in Handles \ {h, from} : regions'[p][k] = regions[p][k]
    BY <1>1, <2>1, <2>2
  <2>4. Owned(p)
    BY DEF OwnersInv
  <2>5. ASSUME NEW m \in live'[p] PROVE \E k \in Handles : regions'[p][k].mapping = m
    <3>1. PICK k \in Handles : regions[p][k].mapping = m
      BY <2>3, <2>4 DEF Owned
    <3>2. k # h
      BY <2>3, <3>1
    <3> QED BY <2>3, <3>1, <3>2
  <2>6. ASSUME NEW k \in Handles PROVE regions'[p][k].mapping \in live'[p] \cup {0}
    <3>1. CASE k = h
      <4> DEFINE x == regions[p][from].mapping
                 y == regions[p][h].mapping
      <4>1. regions'[p][k].mapping = x /\ live'[p] = live[p] \ {y}
        BY <2>3, <3>1
      <4>2. x \in live[p] \cup {0}
        BY <2>4 DEF Owned
      <4>3. x = y => x = 0
        BY <2>2, <2>4 DEF Owned
      <4> HIDE DEF x, y
      <4> QED BY <4>1, <4>2, <4>3
    <3>2. CASE k = from
      BY <2>3, <3>2
    <3>3. CASE k # h /\ k # from
      BY <2>3, <2>4, <3>3 DEF Owned
    <3> QED BY <3>1, <3>2, <3>3
  <2>7. ASSUME NEW j \in Handles, NEW k \in Handles,
               regions'[p][j].mapping = regions'[p][k].mapping, regions'[p][j].mapping # 0
        PROVE  j = k
    <3>1. j # from /\ k # from
      BY <2>3, <2>7
    <3> QED BY <2>3, <2>4, <2>7, <3>1 DEF Owned
  <2>8. Owned(p)'
    <3>1. live'[p] \subseteq 1 .. made' /\ call'[p].step = "idle"
      BY <2>2, <2>3, <2>4 DEF Owned
    <3> QED BY <2>5, <2>6, <2>7, <3>1 DEF Owned
  <2>9. made' = made /\ call' = call
    BY <2>2
  <2> QED BY <1>3, <2>3, <2>8, <2>9
<1>8. ASSUME NEW p \in Processes, Die(p)
      PROVE  OwnersInv'
  <2>1. /\ live'[p] = {} /\ made' = made /\ call'[p].step = "idle"
        /\ \A k \in Handles : regions'[p][k].mapping = 0
        /\ \A q \in Processes \ {p} :
             live'[q] = live[q] /\ regions'[q] = regions[q] /\ call'[q] = call[q]
    BY <1>0, <1>1, <1>8 DEF Die, Leave
  <2> QED BY <1>3, <2>1 DEF Owned
<1>9. ASSUME NEW p \in Processes, NEW h \in Handles, NEW bytes \in Bytes,
             CreateOpen(p, h, bytes) \/ OpenExisting(p, h, bytes)
      PROVE  OwnersInv'
  BY <1>0, <1>1, <1>4, <1>9
     DEF CreateOpen, OpenExisting, Enter, Valid
<1>10. ASSUME NEW p \in Processes, call[p].step # "idle",
              Fails(p) \/ UNCHANGED <<regions, live, made>>,
              Leave(p) \/ \E s \in {"map", "remove", "attach"} :
                                call' = [call EXCEPT ![p].step = s]
       PROVE  OwnersInv'
  <2>1. /\ \A q \in Processes \ {p} : call'[q] = call[q]
        /\ call'[p].step # "idle" => call'[p].handle = call[p].handle
    BY <1>0, <1>1, <1>10 DEF Leave, Call
  <2>2. regions[p][call[p].handle].mapping = 0 /\ call[p].handle \in Handles
    BY <1>2, <1>10 DEF OwnersInv, Owned
  <2>3. /\ \/ regions' = [regions EXCEPT ![p][call[p].handle] = Failed]
           \/ regions' = regions
        /\ UNCHANGED <<live, made>>
    BY <1>10 DEF Fails
  <2> QED BY <1>0, <1>4, <2>1, <2>2, <2>3
<1>11. ASSUME NEW p \in Processes,
              \/ Truncate(p) \/ CreateMap(p) \/ Remove(p)
              \/ Stat(p) \/ Attach(p)
       PROVE  OwnersInv'
  BY <1>5, <1>10, <1>11
     DEF Truncate, CreateMap, Remove, Stat, Attach
<1>12. ASSUME NEW p \in Processes, NEW h \in Handles, OpenFails(p, h)
       PROVE  OwnersInv'
  BY <1>0, <1>4, <1>12 DEF OpenFails, Valid
<1>13. CASE UNCHANGED <<regions, call, live, made>>
  BY <1>13 DEF OwnersInv, Owned
<1> QED BY <1>6, <1>7, <1>8, <1>9, <1>11, <1>12, <1>13 DEF MemoryNext, UnlinkName, memory

(* Before any call there are no objects and no mappings.                   *)
LEMMA MemoryInitInv ==
  ASSUME MemoryInit
  PROVE  MemoryType /\ SizesInv /\ OwnersInv /\ MappedInside /\ NoZeroLengthTrap
<1>1. MemoryType
  BY MemoryTypes DEF MemoryInit, MemoryType, Objects
<1>2. /\ \A p \in Processes, h \in Handles : regions[p][h].mapping = 0
      /\ \A p \in Processes : call[p].step = "idle" /\ live[p] = {}
      /\ \A o \in Objects : size[o] = 0
      /\ bound = 0 /\ created = 0
  BY MemoryTypes DEF MemoryInit
<1>3. SizesInv
  BY <1>2 DEF SizesInv, CallsInv, Valid
<1>4. OwnersInv
  BY <1>2 DEF OwnersInv, Owned
<1> QED BY <1>1, <1>2, <1>3, <1>4 DEF MappedInside, NoZeroLengthTrap, Valid

(* What every state of SharedMemory satisfies.                             *)
MemoryInv ==
  MemoryType /\ SizesInv /\ OwnersInv /\ MappedInside /\ NoZeroLengthTrap

(* The invariant is inductive.                                             *)
LEMMA MemoryInvariant == MemorySpec => []MemoryInv
<1>1. MemoryInit => MemoryInv
  BY MemoryInitInv DEF MemoryInv
<1>2. MemoryInv /\ [MemoryNext]_memory => MemoryInv'
  BY MemoryTypeStep, MemorySizesStep, MemoryRegionsStep, MemoryTrapStep, MemoryOwnersStep DEF MemoryInv
<1> QED BY <1>1, <1>2, PTL DEF MemorySpec

(* REQ-IPC-002, the size check of openExisting(): between fstat() and      *)
(* mmap() any process may act, and still no region reaches beyond its      *)
(* object.                                                                 *)
THEOREM RegionsStayInside == MemorySpec => []MappedInside
<1>1. MemoryInv => MappedInside
  BY DEF MemoryInv
<1> QED BY <1>1, MemoryInvariant, PTL

(* REQ-IPC-005, close(), the move operations and the death of a process:   *)
(* each mapping belongs to exactly one region, and each region's mapping   *)
(* is there.                                                               *)
THEOREM MappingsHaveOneOwner == MemorySpec => []OwnedOnce
<1>1. MemoryInv => OwnedOnce
  BY OwnersOwnOnce DEF MemoryInv
<1> QED BY <1>1, MemoryInvariant, PTL

(* The shm_unlink() after a failure in create(): an object of no length    *)
(* has the name only while its creator is at work or if it died.           *)
THEOREM NoLengthOnlyInCreation == MemorySpec => []NoZeroLengthTrap
<1>1. MemoryInv => NoZeroLengthTrap
  BY DEF MemoryInv
<1> QED BY <1>1, MemoryInvariant, PTL
=============================================================================
