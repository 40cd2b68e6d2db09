---------------------------- MODULE SeqlockSlot ------------------------------
(***************************************************************************)
(* ipc::SeqlockSlot of include/safeedge/ipc/seqlock_slot.hpp: one writer,  *)
(* any number of readers in other threads or processes, one atomic access  *)
(* per step.  A writer may die inside a store and never come back.         *)
(*                                                                         *)
(* A word holds the number of the store that wrote it, so a value is torn  *)
(* exactly when its words differ.                                          *)
(***************************************************************************)
EXTENDS Integers

CONSTANTS
  Readers,
  WordCount,    \* kWordCount
  MaxAttempts,  \* max_attempts of tryLoad
  MaxStores,    \* bound on the stores
  NoValue       \* what a reader has before its first load, and after a failed one

Words == 1 .. WordCount

ASSUME SeqlockAssumption ==
  /\ WordCount \in Nat \ {0}
  /\ MaxAttempts \in Nat
  /\ MaxStores \in Nat
  /\ NoValue \notin [Words -> Nat]

VARIABLES
  sequence, words,  \* the slot: sequence_ and words_
  writer,           \* where store() is: [at, index, start]
  reader,           \* where each tryLoad() is: [at, attempt, before, index, staging]
  result,           \* what each reader's last tryLoad() returned
  called            \* history: sequence_ when each reader's tryLoad() was called

slot == <<sequence, words>>
vars == <<slot, writer, reader, result, called>>

WriterState ==
  [at: {"idle", "words", "dead"}, index: 1 .. WordCount + 1, start: Nat]
ReaderState ==
  [at: {"idle", "sample", "words", "recheck"}, attempt: Nat, before: Nat,
   index: 1 .. WordCount + 1, staging: [Words -> Nat]]

TypeOK ==
  /\ sequence \in Nat
  /\ words \in [Words -> Nat]
  /\ writer \in WriterState
  /\ reader \in [Readers -> ReaderState]
  /\ result \in [Readers -> [Words -> Nat] \cup {NoValue}]
  /\ called \in [Readers -> Nat]

Odd(n) == n % 2 = 1

(* generation(): the number of completed stores.                           *)
generation == sequence \div 2

Init ==
  /\ sequence = 0
  /\ words = [w \in Words |-> 0]
  /\ writer = [at |-> "idle", index |-> 1, start |-> 0]
  /\ reader = [r \in Readers |->
                 [at |-> "idle", attempt |-> 0, before |-> 0, index |-> 1,
                  staging |-> [w \in Words |-> 0]]]
  /\ result = [r \in Readers |-> NoValue]
  /\ called = [r \in Readers |-> 0]
-----------------------------------------------------------------------------
(* store(): sequence_ is read once and made odd.  Only the writer writes   *)
(* it, so that the load and the store are one step.                        *)
StoreBegin ==
  /\ writer.at = "idle" /\ generation < MaxStores
  /\ sequence' = sequence + 1
  /\ writer' = [at |-> "words", index |-> 1, start |-> sequence]
  /\ UNCHANGED <<words, reader, result, called>>

StoreWord ==
  /\ writer.at = "words" /\ writer.index <= WordCount
  /\ words' = [words EXCEPT ![writer.index] = writer.start \div 2 + 1]
  /\ writer' = [writer EXCEPT !.index = @ + 1]
  /\ UNCHANGED <<sequence, reader, result, called>>

StoreEnd ==
  /\ writer.at = "words" /\ writer.index > WordCount
  /\ sequence' = writer.start + 2
  /\ writer' = [writer EXCEPT !.at = "idle"]
  /\ UNCHANGED <<words, reader, result, called>>

(* The writing process dies, between two stores or inside one.             *)
Crash ==
  /\ writer.at # "dead"
  /\ writer' = [writer EXCEPT !.at = "dead"]
  /\ UNCHANGED <<slot, reader, result, called>>
-----------------------------------------------------------------------------
(* tryLoad() is called.                                                    *)
LoadBegin(r) ==
  /\ reader[r].at = "idle"
  /\ reader' = [reader EXCEPT ![r].at = "sample", ![r].attempt = 0]
  /\ called' = [called EXCEPT ![r] = sequence]
  /\ UNCHANGED <<slot, writer, result>>

M_SampleForever(r) ==
  /\ reader[r].at = "sample"
  /\ reader' = [reader EXCEPT
       ![r] = IF Odd(sequence) THEN @
              ELSE [@ EXCEPT !.at = "words", !.before = sequence, !.index = 1]]
  /\ UNCHANGED <<slot, writer, result, called>>

(* The head of the retry loop with attempts left: an odd sample is         *)
(* retried, an even one starts the copy.                                   *)
Sample(r) ==
  /\ reader[r].at = "sample" /\ reader[r].attempt < MaxAttempts
  /\ reader' = [reader EXCEPT
       ![r] = IF Odd(sequence) THEN [@ EXCEPT !.attempt = reader[r].attempt + 1]
              ELSE [@ EXCEPT !.at = "words", !.before = sequence, !.index = 1]]
  /\ UNCHANGED <<slot, writer, result, called>>

(* No attempts left: tryLoad() returns false.                              *)
LoadFail(r) ==
  /\ reader[r].at = "sample" /\ reader[r].attempt >= MaxAttempts
  /\ reader' = [reader EXCEPT ![r].at = "idle"]
  /\ result' = [result EXCEPT ![r] = NoValue]
  /\ UNCHANGED <<slot, writer, called>>

LoadWord(r) ==
  /\ reader[r].at = "words"
  /\ reader' = [reader EXCEPT
       ![r].staging[reader[r].index] = words[reader[r].index],
       ![r].index = @ + 1,
       ![r].at = IF reader[r].index = WordCount THEN "recheck" ELSE "words"]
  /\ UNCHANGED <<slot, writer, result, called>>

M_RecheckParityOnly(r) ==
  /\ reader[r].at = "recheck"
  /\ IF ~Odd(sequence)
     THEN /\ reader' = [reader EXCEPT ![r].at = "idle"]
          /\ result' = [result EXCEPT ![r] = reader[r].staging]
     ELSE /\ reader' = [reader EXCEPT ![r].at = "sample", ![r].attempt = @ + 1]
          /\ UNCHANGED result
  /\ UNCHANGED <<slot, writer, called>>

M_RecheckAlwaysRetries(r) ==
  /\ reader[r].at = "recheck"
  /\ reader' = [reader EXCEPT ![r].at = "sample", ![r].attempt = @ + 1]
  /\ UNCHANGED <<slot, writer, result, called>>

(* The second sample of sequence_.                                         *)
Recheck(r) ==
  /\ reader[r].at = "recheck"
  /\ IF sequence = reader[r].before
     THEN /\ reader' = [reader EXCEPT ![r].at = "idle"]
          /\ result' = [result EXCEPT ![r] = reader[r].staging]
     ELSE /\ reader' = [reader EXCEPT ![r].at = "sample", ![r].attempt = @ + 1]
          /\ UNCHANGED result
  /\ UNCHANGED <<slot, writer, called>>

Store   == StoreBegin \/ StoreWord \/ StoreEnd
Step(r) == Sample(r) \/ LoadFail(r) \/ LoadWord(r) \/ Recheck(r)

Next == Store \/ Crash \/ \E r \in Readers : LoadBegin(r) \/ Step(r)

Spec == Init /\ [][Next]_vars

(* A reader's thread keeps running inside tryLoad(); of the writer, which  *)
(* may be dead, nothing is assumed.                                        *)
FairSpec == Spec /\ \A r \in Readers : WF_vars(Step(r))
-----------------------------------------------------------------------------
(* REQ-IPC-006, 009: a load that succeeds returns all the words of the last*)
(* store completed at the moment of its second sample: never torn, never   *)
(* older than what was complete when it was called, never going back.      *)
Register == INSTANCE LatestValue WITH value <- generation
ImplementsLatestValue == Register!Spec

(* REQ-IPC-007 and the comment of tryLoad(): a load returns, whatever the  *)
(* writer does, even when it died with sequence_ odd.                      *)
LoadReturns == \A r \in Readers : reader[r].at # "idle" ~> reader[r].at = "idle"

(* tryLoad() "Returns false if max_attempts collisions occur": a load that *)
(* fails overlapped a store.                                               *)
FailureMeansCollision ==
  [][\A r \in Readers :
       (reader[r].at = "sample" /\ reader'[r].at = "idle") =>
         Odd(sequence) \/ sequence # called[r]]_vars
=============================================================================
