--------------------------- MODULE UacpiHostProofs ---------------------------
(***************************************************************************)
(* For any locks and calls of uACPI the saved flags are enough: whoever    *)
(* holds a spinlock has interrupts off, so the power button's interrupt    *)
(* never waits for a spinlock of the code below it, and the flag comes     *)
(* back with the last lock.                                                *)
(***************************************************************************)
EXTENDS UacpiHost, TLAPS

\* The flag main has, or gets back from iretq.
MainFlag == IF at["sci"] = "none" THEN iflag ELSE TRUE

\* main's flag is on when it holds no lock, and on until the cli of its first.
MainFollows ==
    /\ at["main"] \in {"cli", "spin", "popfq"} => held["main"] # <<>>
    /\ at["main"] = "cli" => MainFlag = (Len(held["main"]) = 1)
    /\ at["main"] \in {"spin", "popfq"} => ~MainFlag
    /\ at["main"] \notin {"cli", "spin", "popfq"} => MainFlag = (held["main"] = <<>>)
    /\ \A i \in DOMAIN held["main"] : held["main"][i].flags = (i = 1)

\* The handler holds as many locks as its place in SciCalls says; once past the cli
\* of a lock its flag is off.
SciFollows ==
    /\ at["sci"] = "none" => pc = 1
    /\ Len(held["sci"]) = SciDepth[pc] + (IF at["sci"] = "popfq" THEN 1 ELSE 0)
    /\ at["sci"] \in {"cli", "spin"} => held["sci"] # <<>>
    /\ at["sci"] \in {"to_alloc", "alloc"} => held["sci"] = <<>>
    /\ at["sci"] \notin {"none", "cli"} /\ held["sci"] # <<>> => ~iflag
    /\ \A i \in DOMAIN held["sci"] : i > 1 => ~held["sci"][i].flags

\* A frame waits for the lock it has entered last.
WantsLast ==
    \A f \in Frames : at[f] \in {"cli", "spin"} => want[f] = held[f][Len(held[f])].lock

\* A spinlock that main has set is one of those it has entered, and not the one it
\* is entering or leaving.
MainHolds ==
    \A l \in Spinlocks : word[l] = "main" =>
        \E i \in DOMAIN held["main"] :
            /\ held["main"][i].lock = l
            /\ at["main"] \in {"cli", "spin", "popfq"} => i < Len(held["main"])

IInv ==
    /\ TypeOK
    /\ MainFollows
    /\ SciFollows
    /\ WantsLast
    /\ MainHolds

Entry == [lock : Spinlocks, flags : BOOLEAN]

-----------------------------------------------------------------------------
(* What entering and leaving a lock do to the locks of a frame.              *)

LEMMA Entered ==
    ASSUME NEW s \in Seq(Entry), NEW e \in Entry
    PROVE  /\ Append(s, e) \in Seq(Entry) /\ Append(s, e) # <<>>
           /\ Len(Append(s, e)) = Len(s) + 1
           /\ DOMAIN Append(s, e) = 1..(Len(s) + 1)
           /\ Append(s, e)[Len(s) + 1] = e
           /\ \A i \in DOMAIN s : i \in 1..Len(s) /\ Append(s, e)[i] = s[i]
OBVIOUS

LEMMA Empty ==
    ASSUME NEW s \in Seq(Entry)
    PROVE  s = <<>> <=> Len(s) = 0
OBVIOUS

LEMMA Left ==
    ASSUME NEW s \in Seq(Entry), s # <<>>
    PROVE  /\ Front(s) \in Seq(Entry)
           /\ Len(s) \in Nat \ {0} /\ Len(Front(s)) = Len(s) - 1
           /\ DOMAIN Front(s) = 1..(Len(s) - 1)
           /\ \A i \in DOMAIN Front(s) : i \in DOMAIN s /\ Front(s)[i] = s[i]
           /\ DOMAIN s = 1..Len(s) /\ Len(s) \in DOMAIN s
           /\ Last(s) = s[Len(s)] /\ Last(s) \in Entry
           /\ Last(s).lock \in Spinlocks /\ Last(s).flags \in BOOLEAN
<1>1. Len(s) \in Nat \ {0} /\ DOMAIN s = 1..Len(s) /\ Len(s) \in DOMAIN s
  OBVIOUS
<1>2. Last(s) = s[Len(s)] /\ Last(s) \in Entry
  BY <1>1 DEF Last
<1>3. Last(s).lock \in Spinlocks /\ Last(s).flags \in BOOLEAN
  BY <1>2 DEF Entry
<1>4. QED
  BY <1>1, <1>2, <1>3 DEF Front

LEMMA SciCall ==
    ASSUME NEW c, Calling("sci", c), TypeOK
    PROVE  /\ pc \in DOMAIN SciCalls /\ SciCalls[pc] = c
           /\ pc' = pc + 1 /\ pc' \in 1..(Len(SciCalls) + 1)
BY UacpiHostAssumption DEF Calling, TypeOK

USE DEF Nobody, At, Running, Goes, Within, memory, button, Frames, MainFlag, Entry

LEMMA MainLocks ==
    ASSUME IInv, NEW l \in Spinlocks, lock_spinlock("main", l)
    PROVE  IInv'
<1> DEFINE e == [lock |-> l, flags |-> iflag]
<1>1. /\ at["main"] = "run" /\ at["sci"] = "none"
      /\ at' = [at EXCEPT !["main"] = "cli"]
      /\ held' = [held EXCEPT !["main"] = Append(@, e)]
      /\ want' = [want EXCEPT !["main"] = l]
      /\ UNCHANGED <<iflag, word, mutex, avail, objects, installed, pending, presses, power, pc>>
  BY DEF lock_spinlock, Calling
<1>2. /\ TypeOK /\ e \in Entry /\ held["main"] \in Seq(Entry)
      /\ Append(held["main"], e) \in Seq(Entry)
  BY DEF IInv, TypeOK
<1>3. /\ at'["main"] = "cli" /\ at'["sci"] = "none"
      /\ held'["main"] = Append(held["main"], e) /\ held'["sci"] = held["sci"]
      /\ want'["main"] = l /\ want'["sci"] = want["sci"]
  BY <1>1, <1>2 DEF TypeOK
<1>4. TypeOK'
  BY <1>1, <1>2 DEF TypeOK, Locks
<1>5. MainFollows'
  <2>1. MainFollows /\ iflag = (held["main"] = <<>>)
    BY <1>1 DEF IInv, MainFollows
  <2>2. MainFlag' = (Len(held'["main"]) = 1)
    BY <1>1, <1>2, <1>3, <2>1, Entered
  <2>3. \A i \in DOMAIN held'["main"] : held'["main"][i].flags = (i = 1)
    <3>1. DOMAIN held'["main"] = 1..(Len(held["main"]) + 1)
      BY <1>2, <1>3, Entered
    <3>2. held'["main"][Len(held["main"]) + 1].flags = iflag
      BY <1>2, <1>3, Entered
    <3>3. \A i \in DOMAIN held["main"] : held'["main"][i].flags = (i = 1)
      BY <1>2, <1>3, <2>1, Entered DEF MainFollows
    <3>4. DOMAIN held["main"] = 1..Len(held["main"]) /\ Len(held["main"]) \in Nat
      BY <1>2
    <3>5. iflag = (Len(held["main"]) = 0)
      BY <1>2, <2>1
    <3>6. QED
      BY <3>1, <3>2, <3>3, <3>4, <3>5
  <2>4. QED
    BY <1>2, <1>3, <2>2, <2>3, Entered DEF MainFollows
<1>6. SciFollows'
  BY <1>1, <1>3 DEF IInv, SciFollows
<1>7. WantsLast'
  BY <1>1, <1>2, <1>3, Entered DEF IInv, WantsLast
<1>8. MainHolds'
  <2> SUFFICES ASSUME NEW k \in Spinlocks, word'[k] = "main"
               PROVE  \E i \in DOMAIN held'["main"] :
                         held'["main"][i].lock = k /\ i < Len(held'["main"])
    BY DEF MainHolds
  <2>1. PICK i \in DOMAIN held["main"] : held["main"][i].lock = k
    BY <1>1 DEF IInv, MainHolds
  <2>2. QED
    BY <1>2, <1>3, <2>1, Entered, SMTT(30)
<1>9. QED
  BY <1>4, <1>5, <1>6, <1>7, <1>8 DEF IInv

LEMMA SciLocks ==
    ASSUME IInv, NEW l \in Spinlocks, lock_spinlock("sci", l)
    PROVE  IInv'
<1> DEFINE e == [lock |-> l, flags |-> iflag]
<1>1. /\ at["sci"] = "run" /\ at' = [at EXCEPT !["sci"] = "cli"]
      /\ held' = [held EXCEPT !["sci"] = Append(@, e)]
      /\ want' = [want EXCEPT !["sci"] = l]
      /\ UNCHANGED <<iflag, word, mutex, avail, objects, installed, pending, presses, power>>
  BY DEF lock_spinlock, Calling
<1>2. /\ TypeOK /\ e \in Entry /\ held["sci"] \in Seq(Entry)
      /\ Append(held["sci"], e) \in Seq(Entry)
  BY DEF IInv, TypeOK
<1>3. /\ at'["main"] = at["main"] /\ at'["sci"] = "cli"
      /\ held'["sci"] = Append(held["sci"], e) /\ held'["main"] = held["main"]
      /\ want'["sci"] = l /\ want'["main"] = want["main"]
  BY <1>1, <1>2 DEF TypeOK
<1>4. /\ SciCalls[pc].call = "lock" /\ pc \in DOMAIN SciCalls
      /\ pc' = pc + 1 /\ pc' \in 1..(Len(SciCalls) + 1)
  BY <1>2, SciCall DEF lock_spinlock, Call
<1>5. TypeOK'
  BY <1>1, <1>2, <1>4 DEF TypeOK, Locks
<1>6. MainFollows'
  <2>1. MainFlag' = MainFlag /\ MainFollows
    BY <1>1, <1>3 DEF IInv
  <2>2. QED
    BY ONLY <1>3, <2>1 DEF MainFollows
<1>7. SciFollows'
  <2>0. SciDepth[pc] \in Nat
    BY <1>2, SciDepthAssumption DEF TypeOK
  <2>1. Len(held["sci"]) = SciDepth[pc] /\ (held["sci"] # <<>> => ~iflag)
    BY <1>1, <2>0 DEF IInv, SciFollows
  <2>2. Len(held'["sci"]) = SciDepth[pc'] /\ held'["sci"] # <<>>
    BY <1>2, <1>3, <1>4, <2>1, Entered, SciDepthAssumption
  <2>3. \A i \in DOMAIN held'["sci"] : i > 1 => ~held'["sci"][i].flags
    <3>1. DOMAIN held'["sci"] = 1..(Len(held["sci"]) + 1)
      BY <1>2, <1>3, Entered
    <3>2. held'["sci"][Len(held["sci"]) + 1].flags = iflag
      BY <1>2, <1>3, Entered
    <3>3. \A i \in DOMAIN held["sci"] : i > 1 => ~held'["sci"][i].flags
      BY <1>2, <1>3, Entered DEF IInv, SciFollows
    <3>4. DOMAIN held["sci"] = 1..Len(held["sci"]) /\ Len(held["sci"]) \in Nat
      BY <1>2
    <3>5. Len(held["sci"]) # 0 => ~iflag
      BY <1>2, <2>1
    <3>6. QED
      BY <3>1, <3>2, <3>3, <3>4, <3>5
  <2>4. QED
    BY <1>3, <2>2, <2>3 DEF SciFollows
<1>8. WantsLast'
  BY <1>1, <1>2, <1>3, Entered DEF IInv, WantsLast
<1>9. MainHolds'
  BY <1>1, <1>3 DEF IInv, MainHolds
<1>10. QED
  BY <1>5, <1>6, <1>7, <1>8, <1>9 DEF IInv

-----------------------------------------------------------------------------
(* Steps that enter and leave no spinlock.                                   *)

Entering == {"cli", "spin", "popfq"}

LEMMA MainElsewhere ==
    ASSUME IInv, TypeOK', at["main"] \notin Entering, at'["main"] \notin Entering,
           at'["sci"] = at["sci"], UNCHANGED <<held, want, iflag, pc>>,
           \A l \in Spinlocks : word'[l] = "main" => word[l] = "main"
    PROVE  IInv'
<1>1. MainFollows'
  BY DEF IInv, MainFollows, Entering
<1>2. SciFollows'
  BY DEF IInv, SciFollows
<1>3. WantsLast'
  BY DEF IInv, WantsLast, Entering
<1>4. MainHolds'
  BY DEF IInv, MainHolds, Entering
<1>5. QED
  BY <1>1, <1>2, <1>3, <1>4 DEF IInv

LEMMA SciElsewhere ==
    ASSUME IInv, TypeOK', at["sci"] \notin Entering \cup {"none"},
           at'["sci"] \notin Entering \cup {"none"},
           at'["main"] = at["main"], UNCHANGED <<held, want>>,
           SciDepth[pc'] = SciDepth[pc],
           iflag' => iflag \/ held["sci"] = <<>>,
           at'["sci"] \in {"to_alloc", "alloc"} => held["sci"] = <<>>,
           \A l \in Spinlocks : word'[l] = "main" => word[l] = "main"
    PROVE  IInv'
<1>1. MainFollows'
  BY DEF IInv, MainFollows
<1>2. SciFollows'
  BY DEF IInv, SciFollows, Entering
<1>3. WantsLast'
  BY DEF IInv, WantsLast, Entering
<1>4. MainHolds'
  BY DEF IInv, MainHolds
<1>5. QED
  BY <1>1, <1>2, <1>3, <1>4 DEF IInv

-----------------------------------------------------------------------------
(* The other steps of a lock.                                                *)

LEMMA MainCli ==
    ASSUME IInv, lock_cli("main")
    PROVE  IInv'
<1>1. /\ TypeOK /\ at["main"] = "cli" /\ at["sci"] = "none"
      /\ at'["main"] = "spin" /\ at'["sci"] = "none" /\ iflag' = FALSE
      /\ UNCHANGED <<word, want, held, pc>>
  BY DEF IInv, TypeOK, lock_cli, masked
<1>2. TypeOK'
  BY DEF IInv, TypeOK, lock_cli, masked
<1>3. MainFollows'
  BY <1>1 DEF IInv, MainFollows
<1>4. SciFollows'
  BY <1>1 DEF IInv, SciFollows
<1>5. WantsLast' /\ MainHolds'
  BY <1>1 DEF IInv, WantsLast, MainHolds
<1>6. QED
  BY <1>2, <1>3, <1>4, <1>5 DEF IInv

LEMMA SciCli ==
    ASSUME IInv, lock_cli("sci")
    PROVE  IInv'
<1>1. /\ TypeOK /\ at["sci"] = "cli" /\ at'["sci"] = "spin" /\ at'["main"] = at["main"]
      /\ iflag' = FALSE
      /\ UNCHANGED <<word, want, held, pc>>
  BY DEF IInv, TypeOK, lock_cli, masked
<1>2. TypeOK'
  BY DEF IInv, TypeOK, lock_cli, masked
<1>3. MainFollows'
  <2>1. MainFlag' = MainFlag /\ MainFollows
    BY <1>1 DEF IInv
  <2>2. QED
    BY ONLY <1>1, <2>1 DEF MainFollows
<1>4. SciFollows'
  BY <1>1 DEF IInv, SciFollows
<1>5. WantsLast' /\ MainHolds'
  BY <1>1 DEF IInv, WantsLast, MainHolds
<1>6. QED
  BY <1>2, <1>3, <1>4, <1>5 DEF IInv

LEMMA MainSpins ==
    ASSUME IInv, spin("main")
    PROVE  IInv'
<1>1. /\ TypeOK /\ at["main"] = "spin" /\ at["sci"] = "none"
      /\ at'["main"] = "run" /\ at'["sci"] = "none"
      /\ word' = [word EXCEPT ![want["main"]] = "main"]
      /\ want'["sci"] = want["sci"]
      /\ UNCHANGED <<held, iflag, pc>>
  BY DEF IInv, TypeOK, spin
<1>2. /\ held["main"] \in Seq(Entry) /\ held["main"] # <<>>
      /\ want["main"] = held["main"][Len(held["main"])].lock
  BY <1>1 DEF IInv, TypeOK, MainFollows, WantsLast
<1>3. Len(held["main"]) \in DOMAIN held["main"] /\ want["main"] \in Spinlocks
  BY <1>2, Left
<1>4. TypeOK'
  BY <1>3 DEF IInv, TypeOK, spin
<1>5. MainFollows'
  <2>1. MainFlag = FALSE /\ MainFlag' = FALSE /\ (held["main"] = <<>>) = FALSE
    BY <1>1, <1>2 DEF IInv, MainFollows, TypeOK
  <2>2. QED
    BY <1>1, <2>1 DEF IInv, MainFollows
<1>6. SciFollows'
  BY <1>1 DEF IInv, SciFollows
<1>7. WantsLast'
  BY <1>1 DEF IInv, WantsLast
<1>8. MainHolds'
  <2> SUFFICES ASSUME NEW l \in Spinlocks, word'[l] = "main"
               PROVE  \E i \in DOMAIN held["main"] : held["main"][i].lock = l
    BY <1>1 DEF MainHolds
  <2>1. CASE l = want["main"]
    BY <1>2, <1>3, <2>1
  <2>2. CASE l # want["main"]
    <3>1. word[l] = "main"
      BY <1>1, <2>2 DEF TypeOK, Locks
    <3>2. QED
      BY <3>1 DEF IInv, MainHolds
  <2>3. QED
    BY <2>1, <2>2
<1>9. QED
  BY <1>4, <1>5, <1>6, <1>7, <1>8 DEF IInv

LEMMA SciSpins ==
    ASSUME IInv, spin("sci")
    PROVE  IInv'
<1>1. /\ TypeOK /\ at["sci"] = "spin" /\ at'["sci"] = "run" /\ at'["main"] = at["main"]
      /\ want'["main"] = want["main"]
      /\ word' = [word EXCEPT ![want["sci"]] = "sci"]
      /\ UNCHANGED <<held, iflag, pc>>
  BY DEF IInv, TypeOK, spin
<1>2. /\ held["sci"] \in Seq(Entry) /\ held["sci"] # <<>>
      /\ want["sci"] = held["sci"][Len(held["sci"])].lock
  BY <1>1 DEF IInv, TypeOK, SciFollows, WantsLast
<1>3. want["sci"] \in Spinlocks
  BY <1>2, Left
<1>4. TypeOK'
  BY <1>3 DEF IInv, TypeOK, spin
<1>5. MainFollows'
  <2>1. MainFlag' = MainFlag /\ MainFollows
    BY <1>1 DEF IInv
  <2>2. QED
    BY ONLY <1>1, <2>1 DEF MainFollows
<1>6. SciFollows'
  BY <1>1 DEF IInv, SciFollows
<1>7. WantsLast'
  BY <1>1 DEF IInv, WantsLast
<1>8. MainHolds'
  BY <1>1 DEF IInv, TypeOK, Locks, MainHolds
<1>9. QED
  BY <1>4, <1>5, <1>6, <1>7, <1>8 DEF IInv

LEMMA MainUnlocks ==
    ASSUME IInv, unlock_spinlock("main")
    PROVE  IInv'
<1>1. /\ TypeOK /\ at["main"] = "run" /\ at["sci"] = "none" /\ held["main"] # <<>>
      /\ at'["main"] = "popfq" /\ at'["sci"] = "none"
      /\ word' = [word EXCEPT ![Last(held["main"]).lock] = Nobody]
      /\ UNCHANGED <<held, want, iflag, pc>>
  BY DEF IInv, TypeOK, unlock_spinlock, Calling
<1>2. held["main"] \in Seq(Entry)
  BY <1>1 DEF TypeOK
<1>3. /\ Last(held["main"]) = held["main"][Len(held["main"])]
      /\ Last(held["main"]).lock \in Spinlocks
      /\ Len(held["main"]) \in Nat \ {0} /\ DOMAIN held["main"] = 1..Len(held["main"])
  BY <1>1, <1>2, Left
<1>4. TypeOK'
  BY <1>3 DEF IInv, TypeOK, unlock_spinlock, Calling
<1>5. MainFollows'
  BY <1>1 DEF IInv, MainFollows
<1>6. SciFollows'
  BY <1>1 DEF IInv, SciFollows
<1>7. WantsLast'
  BY <1>1 DEF IInv, WantsLast
<1>8. MainHolds'
  <2> SUFFICES ASSUME NEW l \in Spinlocks, word'[l] = "main"
               PROVE  \E i \in DOMAIN held["main"] :
                         held["main"][i].lock = l /\ i < Len(held["main"])
    BY <1>1 DEF MainHolds
  <2>1. word[l] = "main" /\ l # Last(held["main"]).lock
    BY <1>1, <1>3 DEF TypeOK, Locks
  <2>2. PICK i \in DOMAIN held["main"] : held["main"][i].lock = l
    BY <2>1 DEF IInv, MainHolds
  <2>3. QED
    BY <1>3, <2>1, <2>2
<1>9. QED
  BY <1>4, <1>5, <1>6, <1>7, <1>8 DEF IInv

LEMMA SciUnlocks ==
    ASSUME IInv, unlock_spinlock("sci")
    PROVE  IInv'
<1>1. /\ TypeOK /\ at["sci"] = "run" /\ held["sci"] # <<>>
      /\ at'["main"] = at["main"] /\ at'["sci"] = "popfq"
      /\ word' = [word EXCEPT ![Last(held["sci"]).lock] = Nobody]
      /\ UNCHANGED <<held, want, iflag>>
  BY DEF IInv, TypeOK, unlock_spinlock, Calling
<1>2. held["sci"] \in Seq(Entry)
  BY <1>1 DEF TypeOK
<1>3. Last(held["sci"]).lock \in Spinlocks
  BY <1>1, <1>2, Left
<1>4. /\ SciCalls[pc].call = "unlock" /\ pc \in DOMAIN SciCalls
      /\ pc' = pc + 1 /\ pc' \in 1..(Len(SciCalls) + 1)
  BY <1>1, SciCall DEF unlock_spinlock, Call
<1>5. TypeOK'
  BY <1>3, <1>4 DEF IInv, TypeOK, unlock_spinlock, Calling
<1>6. MainFollows'
  <2>1. MainFlag' = MainFlag /\ MainFollows
    BY <1>1 DEF IInv
  <2>2. QED
    BY ONLY <1>1, <2>1 DEF MainFollows
<1>7. SciFollows'
  <2>1. SciDepth[pc] \in Nat /\ SciDepth[pc'] \in Nat /\ SciDepth[pc] = SciDepth[pc'] + 1
    BY <1>4, SciDepthAssumption
  <2>2. Len(held'["sci"]) = SciDepth[pc'] + 1
    BY <1>1, <2>1 DEF IInv, SciFollows
  <2>3. QED
    BY <1>1, <2>2 DEF IInv, SciFollows
<1>8. WantsLast'
  BY <1>1 DEF IInv, WantsLast
<1>9. MainHolds'
  BY <1>1 DEF IInv, TypeOK, Locks, MainHolds
<1>10. QED
  BY <1>5, <1>6, <1>7, <1>8, <1>9 DEF IInv

LEMMA MainPops ==
    ASSUME IInv, unlock_popfq("main")
    PROVE  IInv'
<1> DEFINE s == held["main"]
<1>1. /\ TypeOK /\ at["main"] = "popfq" /\ at["sci"] = "none"
      /\ at'["main"] = "run" /\ at'["sci"] = "none"
      /\ iflag' = Last(s).flags
      /\ held' = [held EXCEPT !["main"] = Front(@)]
      /\ UNCHANGED <<word, want, pc>>
  BY DEF IInv, TypeOK, unlock_popfq, restored
<1>2. s \in Seq(Entry) /\ s # <<>>
  BY <1>1 DEF IInv, TypeOK, MainFollows
<1>3. held'["main"] = Front(s) /\ held'["sci"] = held["sci"]
  BY <1>1 DEF TypeOK
<1>4. /\ Front(s) \in Seq(Entry) /\ Len(s) \in Nat \ {0} /\ Len(Front(s)) = Len(s) - 1
      /\ DOMAIN Front(s) = 1..(Len(s) - 1) /\ DOMAIN s = 1..Len(s)
      /\ \A i \in DOMAIN Front(s) : Front(s)[i] = s[i]
      /\ Last(s) = s[Len(s)] /\ Last(s).flags \in BOOLEAN
  BY <1>2, Left
<1>5. TypeOK'
  <2>1. iflag' \in BOOLEAN /\ held' \in [Frames -> Seq(Entry)]
    BY <1>1, <1>4 DEF TypeOK
  <2>2. QED
    BY <2>1 DEF IInv, TypeOK, unlock_popfq
<1>6. MainFollows'
  <2>1. \A i \in DOMAIN s : s[i].flags = (i = 1)
    BY DEF IInv, MainFollows
  <2>2. iflag' = (Len(s) = 1)
    <3>1. Len(s) \in DOMAIN s
      BY <1>4
    <3>2. QED
      BY <1>1, <1>4, <2>1, <3>1
  <2>3. (Front(s) = <<>>) = (Len(s) = 1)
    <3>1. Front(s) = <<>> <=> Len(Front(s)) = 0
      BY ONLY <1>4, Empty
    <3>2. QED
      BY <1>4, <3>1
  <2>4. \A i \in DOMAIN Front(s) : Front(s)[i].flags = (i = 1)
    BY <1>4, <2>1
  <2>5. QED
    BY <1>1, <1>3, <2>2, <2>3, <2>4 DEF MainFollows
<1>7. SciFollows'
  BY <1>1, <1>3 DEF IInv, SciFollows
<1>8. WantsLast'
  BY <1>1, <1>3 DEF IInv, WantsLast
<1>9. MainHolds'
  <2> SUFFICES ASSUME NEW l \in Spinlocks, word[l] = "main"
               PROVE  \E i \in DOMAIN Front(s) : Front(s)[i].lock = l
    BY <1>1, <1>3 DEF MainHolds
  <2>1. PICK i \in DOMAIN s : s[i].lock = l /\ i < Len(s)
    BY <1>1 DEF IInv, MainHolds
  <2>2. QED
    BY <1>4, <2>1
<1>10. QED
  BY <1>5, <1>6, <1>7, <1>8, <1>9 DEF IInv

LEMMA SciPops ==
    ASSUME IInv, unlock_popfq("sci")
    PROVE  IInv'
<1> DEFINE s == held["sci"]
<1>1. /\ TypeOK /\ at["sci"] = "popfq" /\ at'["sci"] = "run" /\ at'["main"] = at["main"]
      /\ iflag' = Last(s).flags
      /\ held' = [held EXCEPT !["sci"] = Front(@)]
      /\ UNCHANGED <<word, want, pc>>
  BY DEF IInv, TypeOK, unlock_popfq, restored
<1>2. s \in Seq(Entry) /\ SciDepth[pc] \in Nat
  BY <1>1, SciDepthAssumption DEF TypeOK
<1>3. Len(s) = SciDepth[pc] + 1 /\ s # <<>>
  BY <1>1, <1>2 DEF IInv, SciFollows
<1>4. held'["sci"] = Front(s) /\ held'["main"] = held["main"]
  BY <1>1 DEF TypeOK
<1>5. /\ Front(s) \in Seq(Entry) /\ Len(s) \in Nat \ {0} /\ Len(Front(s)) = Len(s) - 1
      /\ DOMAIN Front(s) = 1..(Len(s) - 1) /\ DOMAIN s = 1..Len(s)
      /\ \A i \in DOMAIN Front(s) : Front(s)[i] = s[i]
      /\ Last(s) = s[Len(s)] /\ Last(s).flags \in BOOLEAN
  BY <1>2, <1>3, Left
<1>6. TypeOK'
  BY <1>1, <1>5, ZenonT(30) DEF IInv, TypeOK, unlock_popfq, restored
<1>7. MainFollows'
  <2>1. MainFlag' = MainFlag /\ MainFollows
    BY <1>1 DEF IInv
  <2>2. held'["main"] = held["main"] /\ at'["main"] = at["main"]
    BY <1>1, <1>4
  <2>3. QED
    BY ONLY <2>1, <2>2 DEF MainFollows
<1>8. SciFollows'
  <2>1. \A i \in DOMAIN s : i > 1 => ~s[i].flags
    BY DEF IInv, SciFollows
  <2>2. Front(s) # <<>> => ~iflag'
    BY <1>1, <1>5, <2>1
  <2>3. \A i \in DOMAIN Front(s) : i > 1 => ~Front(s)[i].flags
    BY <1>5, <2>1
  <2>4. Len(Front(s)) = SciDepth[pc]
    BY <1>2, <1>3, <1>5
  <2>5. QED
    BY <1>1, <1>2, <1>4, <2>2, <2>3, <2>4 DEF SciFollows
<1>9. WantsLast'
  BY <1>1, <1>4 DEF IInv, WantsLast
<1>10. MainHolds'
  BY <1>1, <1>4 DEF IInv, MainHolds
<1>11. QED
  BY <1>6, <1>7, <1>8, <1>9, <1>10 DEF IInv

-----------------------------------------------------------------------------
(* The steps that enter and leave no spinlock, in either frame.              *)

LEMMA MainPlain ==
    ASSUME IInv,
           \/ \E m \in Mutexes : acquire_mutex("main", m) \/ release_mutex("main", m)
           \/ cache_call("main", "alloc", "to_alloc") \/ acquire_lock("main", "to_alloc", "alloc")
           \/ cache_call("main", "free", "to_free") \/ acquire_lock("main", "to_free", "free")
           \/ alloc("main") \/ alloc_fails("main") \/ free("main")
           \/ haltloop \/ install_sci_handler \/ press
    PROVE  IInv'
<1>1. ASSUME NEW m \in Mutexes, acquire_mutex("main", m) \/ release_mutex("main", m)
      PROVE  IInv'
  <2>1. TypeOK'
    BY <1>1, SMTT(30) DEF IInv, TypeOK, acquire_mutex, release_mutex, Calling
  <2>2. QED
    BY <1>1, <2>1, MainElsewhere DEF acquire_mutex, release_mutex, Calling, Entering
<1>2. ASSUME cache_call("main", "alloc", "to_alloc") \/ cache_call("main", "free", "to_free")
      PROVE  IInv'
  <2>1. TypeOK'
    BY <1>2 DEF IInv, TypeOK, cache_call, Calling
  <2>2. QED
    BY <1>2, <2>1, MainElsewhere DEF IInv, TypeOK, cache_call, Calling, Entering
<1>3. ASSUME \/ acquire_lock("main", "to_alloc", "alloc")
             \/ acquire_lock("main", "to_free", "free")
      PROVE  IInv'
  <2>1. TypeOK'
    BY <1>3 DEF IInv, TypeOK, acquire_lock, Locks
  <2>2. \A l \in Spinlocks : word'[l] = word[l]
    BY <1>3, UacpiHostAssumption DEF IInv, TypeOK, acquire_lock, Locks
  <2>3. QED
    BY <1>3, <2>1, <2>2, MainElsewhere DEF IInv, TypeOK, acquire_lock, Entering
<1>4. ASSUME alloc("main") \/ alloc_fails("main") \/ free("main")
      PROVE  IInv'
  <2>1. TypeOK'
    BY <1>4, SMTT(30) DEF IInv, TypeOK, alloc, alloc_fails, free, Locks, release_lock, release_on_failure
  <2>2. \A l \in Spinlocks : word'[l] = word[l]
    BY <1>4, UacpiHostAssumption
    DEF IInv, TypeOK, alloc, alloc_fails, free, Locks, release_lock, release_on_failure
  <2>3. QED
    BY <1>4, <2>1, <2>2, MainElsewhere DEF IInv, TypeOK, alloc, alloc_fails, free, Entering
<1>5. ASSUME haltloop \/ install_sci_handler
      PROVE  IInv'
  <2>1. TypeOK'
    BY <1>5 DEF IInv, TypeOK, haltloop, install_sci_handler
  <2>2. QED
    BY <1>5, <2>1, MainElsewhere DEF IInv, TypeOK, haltloop, install_sci_handler, Entering
<1>6. ASSUME press
      PROVE  IInv'
  BY <1>6 DEF press, IInv, TypeOK, MainFollows, SciFollows, WantsLast, MainHolds
<1>7. QED
  BY <1>1, <1>2, <1>3, <1>4, <1>5, <1>6

LEMMA SciPlain ==
    ASSUME IInv,
           \/ \E m \in Mutexes : acquire_mutex("sci", m) \/ release_mutex("sci", m)
           \/ cache_call("sci", "alloc", "to_alloc") \/ acquire_lock("sci", "to_alloc", "alloc")
           \/ cache_call("sci", "free", "to_free") \/ acquire_lock("sci", "to_free", "free")
           \/ alloc("sci") \/ alloc_fails("sci") \/ free("sci")
           \/ clear_status \/ disable_interrupts \/ enter_sleep_state \/ restore_interrupts
    PROVE  IInv'
<1> DEFINE Same == /\ pc \in DOMAIN SciCalls /\ pc' \in 1..(Len(SciCalls) + 1)
                   /\ SciDepth[pc'] = SciDepth[pc]
<1>0. ASSUME NEW c, Calling("sci", c), c.call \notin {"lock", "unlock"}
      PROVE  Same /\ (c.call \in {"alloc", "restore"} => held["sci"] = <<>>)
  <2>1. pc \in DOMAIN SciCalls /\ SciCalls[pc] = c /\ pc' = pc + 1 /\ Same
    BY <1>0, SciCall, SciDepthAssumption DEF IInv
  <2>2. c.call \in {"alloc", "restore"} => SciDepth[pc] = 0
    BY <2>1, SciDepthAssumption
  <2>3. held["sci"] \in Seq(Entry) /\ at["sci"] = "run"
    BY <1>0 DEF IInv, TypeOK, Calling
  <2>4. QED
    BY <2>1, <2>2, <2>3, Empty DEF IInv, SciFollows
<1>1. ASSUME NEW m \in Mutexes, acquire_mutex("sci", m) \/ release_mutex("sci", m)
      PROVE  IInv'
  <2>1. Same
    BY <1>0, <1>1 DEF acquire_mutex, release_mutex, Call
  <2>2. TypeOK'
    <3>1. mutex' \in [Mutexes -> SUBSET Frames]
      <4>1. CASE acquire_mutex("sci", m)
        BY <4>1 DEF IInv, TypeOK, acquire_mutex
      <4>2. CASE release_mutex("sci", m)
        BY <4>2 DEF IInv, TypeOK, release_mutex
      <4>3. QED
        BY <1>1, <4>1, <4>2
    <3>2. QED
      BY <1>1, <2>1, <3>1 DEF IInv, TypeOK, acquire_mutex, release_mutex, Calling
  <2>3. QED
    BY <1>1, <2>1, <2>2, SciElsewhere DEF acquire_mutex, release_mutex, Calling, Entering
<1>2. ASSUME cache_call("sci", "alloc", "to_alloc") \/ cache_call("sci", "free", "to_free")
      PROVE  IInv'
  <2>1. Same /\ (cache_call("sci", "alloc", "to_alloc") => held["sci"] = <<>>)
    BY <1>0, <1>2 DEF cache_call, Call
  <2>2. TypeOK'
    BY <1>2, <2>1 DEF IInv, TypeOK, cache_call, Calling
  <2>3. QED
    BY <1>2, <2>1, <2>2, SciElsewhere DEF IInv, TypeOK, cache_call, Calling, Entering
<1>3. ASSUME \/ acquire_lock("sci", "to_alloc", "alloc")
             \/ acquire_lock("sci", "to_free", "free")
      PROVE  IInv'
  <2>1. TypeOK'
    BY <1>3 DEF IInv, TypeOK, acquire_lock, Locks
  <2>2. \A l \in Spinlocks : word'[l] = word[l]
    BY <1>3, UacpiHostAssumption DEF IInv, TypeOK, acquire_lock, Locks
  <2>3. QED
    BY <1>3, <2>1, <2>2, SciElsewhere DEF IInv, TypeOK, SciFollows, acquire_lock, Entering
<1>4. ASSUME alloc("sci") \/ free("sci")
      PROVE  IInv'
  <2>1. TypeOK'
    BY <1>4 DEF IInv, TypeOK, alloc, free, Locks, release_lock
  <2>2. \A l \in Spinlocks : word'[l] = word[l]
    BY <1>4, UacpiHostAssumption DEF IInv, TypeOK, alloc, free, Locks, release_lock
  <2>3. QED
    BY <1>4, <2>1, <2>2, SciElsewhere DEF IInv, TypeOK, alloc, free, Entering
<1>5. ASSUME alloc_fails("sci")
      PROVE  IInv'
  <2>1. held["sci"] = <<>> /\ at["sci"] = "alloc" /\ TypeOK
    BY <1>5 DEF alloc_fails, IInv, SciFollows
  <2>2. SciDepth[pc] = 0 /\ pc' = Len(SciCalls) + 1 /\ SciDepth[pc'] = 0
    <3>1. SciDepth[pc] \in Nat /\ Len(held["sci"]) = 0
      BY <2>1, SciDepthAssumption DEF TypeOK
    <3>2. SciDepth[pc] = 0
      BY <2>1, <3>1 DEF IInv, SciFollows
    <3>3. QED
      BY <1>5, <3>2, SciDepthAssumption DEF alloc_fails
  <2>3. TypeOK'
    BY <1>5, <2>1, <2>2, UacpiHostAssumption
    DEF TypeOK, alloc_fails, Locks, release_lock, release_on_failure
  <2>4. \A l \in Spinlocks : word'[l] = word[l]
    BY <1>5, <2>1, UacpiHostAssumption
    DEF TypeOK, alloc_fails, Locks, release_lock, release_on_failure
  <2>5. QED
    BY <1>5, <2>1, <2>2, <2>3, <2>4, SciElsewhere DEF TypeOK, alloc_fails, Entering
<1>6. ASSUME clear_status \/ disable_interrupts \/ enter_sleep_state
      PROVE  IInv'
  <2>1. Same
    BY <1>0, <1>6 DEF clear_status, disable_interrupts, enter_sleep_state, Call
  <2>2. TypeOK'
    BY <1>6, <2>1 DEF IInv, TypeOK, clear_status, disable_interrupts, enter_sleep_state, Calling
  <2>3. QED
    BY <1>6, <2>1, <2>2, SciElsewhere
    DEF clear_status, disable_interrupts, enter_sleep_state, Calling, Entering
<1>7. ASSUME restore_interrupts
      PROVE  IInv'
  <2>1. Same /\ held["sci"] = <<>>
    BY <1>0, <1>7 DEF restore_interrupts, Call
  <2>2. TypeOK'
    BY <1>7, <2>1 DEF IInv, TypeOK, restore_interrupts, Calling
  <2>3. QED
    BY <1>7, <2>1, <2>2, SciElsewhere DEF restore_interrupts, Calling, Entering
<1>8. QED
  BY <1>1, <1>2, <1>3, <1>4, <1>5, <1>6, <1>7

-----------------------------------------------------------------------------
(* The interrupt and its way back.                                           *)

LEMMA Interrupts ==
    ASSUME IInv, interrupt
    PROVE  IInv'
<1>1. /\ TypeOK /\ at["sci"] = "none" /\ iflag = TRUE /\ pc = 1
      /\ at'["sci"] = "run" /\ at'["main"] = at["main"] /\ iflag' = FALSE /\ pc' = 1
      /\ UNCHANGED <<word, want, held>>
  BY DEF interrupt, IInv, TypeOK, SciFollows
<1>2. TypeOK'
  <2>1. pc' \in 1..(Len(SciCalls) + 1)
    BY <1>1, UacpiHostAssumption
  <2>2. QED
    BY <1>1, <2>1 DEF interrupt, TypeOK
<1>3. MainFollows'
  BY <1>1 DEF IInv, MainFollows
<1>4. SciFollows'
  <2>1. held["sci"] \in Seq(Entry) /\ Len(held["sci"]) = 0
    BY <1>1, SciDepthAssumption DEF IInv, TypeOK, SciFollows
  <2>2. QED
    BY <1>1, <2>1, Empty DEF IInv, SciFollows
<1>5. WantsLast' /\ MainHolds'
  BY <1>1 DEF IInv, WantsLast, MainHolds
<1>6. QED
  BY <1>2, <1>3, <1>4, <1>5 DEF IInv

LEMMA Returns ==
    ASSUME IInv, iretq
    PROVE  IInv'
<1>1. /\ TypeOK /\ at["sci"] = "run" /\ pc = Len(SciCalls) + 1
      /\ at'["sci"] = "none" /\ at'["main"] = at["main"] /\ iflag' = TRUE /\ pc' = 1
      /\ UNCHANGED <<word, want, held>>
  BY UacpiHostAssumption DEF iretq, IInv, TypeOK
<1>2. TypeOK'
  BY UacpiHostAssumption DEF iretq, IInv, TypeOK
<1>3. MainFollows'
  BY <1>1 DEF IInv, MainFollows
<1>4. SciFollows'
  <2>1. held["sci"] \in Seq(Entry) /\ Len(held["sci"]) = 0
    BY <1>1, SciDepthAssumption DEF IInv, TypeOK, SciFollows
  <2>2. QED
    BY <1>1, <2>1, SciDepthAssumption, Empty DEF IInv, SciFollows
<1>5. WantsLast' /\ MainHolds'
  BY <1>1 DEF IInv, WantsLast, MainHolds
<1>6. QED
  BY <1>2, <1>3, <1>4, <1>5 DEF IInv

-----------------------------------------------------------------------------
LEMMA InitHolds == Init => IInv
<1> SUFFICES ASSUME Init
             PROVE  IInv
  OBVIOUS
<1>0. at["main"] = "run" /\ at["sci"] = "none" /\ at = [f \in Frames |-> at[f]]
  BY DEF Init
<1>1. TypeOK
  <2>1. pc \in 1..(Len(SciCalls) + 1)
    BY UacpiHostAssumption DEF Init
  <2>2. word \in [Locks -> Frames \cup {Nobody}] /\ want \in [Frames -> Locks \cup {Nobody}]
    BY DEF Init
  <2>3. /\ held \in [Frames -> Seq(Entry)]
        /\ \A f \in Frames : at[f] \notin {"to_free", "free"}
    BY <1>0 DEF Init
  <2>4. objects \in [Frames -> Nat] /\ avail \in Nat /\ mutex \in [Mutexes -> SUBSET Frames]
    BY UacpiHostAssumption DEF Init
  <2>5. QED
    BY <1>0, <2>1, <2>2, <2>3, <2>4 DEF Init, TypeOK
<1>2. MainFollows /\ SciFollows /\ WantsLast
  <2>1. iflag = TRUE /\ held["main"] = <<>> /\ held["sci"] = <<>> /\ pc = 1
    BY DEF Init
  <2>2. MainFollows
    <3>1. MainFlag = (held["main"] = <<>>)
      BY <1>0, <2>1
    <3>2. held["main"] \in Seq(Entry) /\ Len(held["main"]) = 0
      BY <2>1
    <3>3. \A i \in DOMAIN held["main"] : FALSE
      BY <3>2
    <3>4. QED
      BY ONLY <1>0, <3>1, <3>3 DEF MainFollows
  <2>3. SciFollows
    BY <1>0, <2>1, SciDepthAssumption DEF SciFollows
  <2>4. QED
    BY <1>0, <2>2, <2>3 DEF WantsLast
<1>3. MainHolds
  BY DEF Init, MainHolds, Locks
<1>4. QED
  BY <1>1, <1>2, <1>3 DEF IInv

LEMMA NextHolds == IInv /\ [Next]_vars => IInv'
<1> SUFFICES ASSUME IInv, [Next]_vars
             PROVE  IInv'
  OBVIOUS
<1>1. CASE Step("main")
  BY <1>1, MainLocks, MainCli, MainSpins, MainUnlocks, MainPops, MainPlain DEF Step
<1>2. CASE Step("sci")
  BY <1>2, SciLocks, SciCli, SciSpins, SciUnlocks, SciPops, SciPlain DEF Step
<1>3. CASE install_sci_handler \/ haltloop \/ press
  BY <1>3, MainPlain
<1>4. CASE clear_status \/ disable_interrupts \/ enter_sleep_state \/ restore_interrupts
  BY <1>4, SciPlain
<1>5. CASE interrupt \/ iretq
  BY <1>5, Interrupts, Returns
<1>6. CASE UNCHANGED vars
  BY <1>6, ZenonT(30) DEF vars, IInv, TypeOK, MainFollows, SciFollows, WantsLast, MainHolds
<1>7. QED
  BY <1>1, <1>2, <1>3, <1>4, <1>5, <1>6 DEF Next, Handler

LEMMA AlwaysIInv == Spec => []IInv
BY InitHolds, NextHolds, PTL DEF Spec

\* The handler of the power button never spins on a spinlock of uACPI that the code it
\* has interrupted has set (uacpi_kernel_lock_spinlock, uacpi_osl.cpp 385-418).
THEOREM NeverWaitsBelow == Spec => []SpinlockNeverSelfWaits
<1>1. IInv => SpinlockNeverSelfWaits
  <2> SUFFICES ASSUME IInv, NEW l \in Spinlocks, WaitsForMain(l)
               PROVE  FALSE
    BY DEF SpinlockNeverSelfWaits
  <2>1. word[l] = "main" /\ at["sci"] = "spin"
    BY UacpiHostAssumption DEF WaitsForMain
  <2>2. PICK i \in DOMAIN held["main"] :
           at["main"] \in Entering => i < Len(held["main"])
    BY <2>1 DEF IInv, MainHolds, Entering
  <2>3. held["main"] \in Seq(Entry) /\ held["main"] # <<>>
    BY <2>2 DEF IInv, TypeOK
  <2>4. at["main"] = "cli" /\ Len(held["main"]) = 1
    BY <2>1, <2>3 DEF IInv, MainFollows
  <2>5. QED
    BY <2>2, <2>3, <2>4, Left DEF Entering
<1>2. QED
  BY <1>1, AlwaysIInv, PTL

\* Interrupts are off while a spinlock is held, and on for kernel_main when it holds
\* none: no nesting and no interrupt loses the flag (uacpi_osl.cpp 385-418).
THEOREM FlagNeverLost == Spec => []FlagFollowsLocks
<1>1. IInv => FlagFollowsLocks
  BY DEF IInv, TypeOK, MainFollows, SciFollows, FlagFollowsLocks
<1>2. QED
  BY <1>1, AlwaysIInv, PTL
=============================================================================
