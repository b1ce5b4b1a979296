--------------------------- MODULE PeripheralsProofs ---------------------------
(***************************************************************************)
(* Proofs about the parts that share nothing (see MCPeripherals), each for *)
(* any values of its constants: what the callback of the keypad is told of *)
(* a press, whose file stands behind a number that a driver keeps, how     *)
(* long a delay lasts whatever the width of its counter, what the calls    *)
(* that run shell commands may report, what comes out of a serial line,    *)
(* what the screen shows, and what a device takes for a word.              *)
(***************************************************************************)
EXTENDS Peripherals, FiniteSetTheorems, WellFoundedInduction, TLAPS

-----------------------------------------------------------------------------
(* The keypad: what the callback is told of a press.                       *)
LEMMA AtMostTyped ==
  ASSUME NEW n \in Nat, NEW top \in Nat
  PROVE  /\ AtMost(n, top) \in 0..top
         /\ n <= top => AtMost(n, top) = n
         /\ n > top => AtMost(n, top) = top
BY DEF AtMost

Presses ==
  [key : Codes \cup {None}, down : 0..(First + 1), long : BOOLEAN,
   reports : 0..2, last : 0..(Following + 1), spaced : BOOLEAN, slid : BOOLEAN]

LEMMA UpTyped == Up \in Presses
BY KeypadAssumption DEF Up, Presses

(* Field by field, what a sample makes of the press. *)
LEMMA LongerFields ==
  ASSUME NEW p \in Presses, NEW gap \in Gaps
  PROVE  /\ Longer(p, gap) \in Presses
         /\ Longer(p, gap).down = AtMost(p.down + gap, First + 1)
         /\ Longer(p, gap).last = AtMost(p.last + gap, Following + 1)
         /\ Longer(p, gap).key = p.key /\ Longer(p, gap).long = p.long
         /\ Longer(p, gap).reports = p.reports /\ Longer(p, gap).spaced = p.spaced
         /\ Longer(p, gap).slid = p.slid
<1>1. /\ AtMost(p.down + gap, First + 1) \in 0..(First + 1)
      /\ AtMost(p.last + gap, Following + 1) \in 0..(Following + 1)
  <2>1. p.down + gap \in Nat /\ p.last + gap \in Nat /\ First + 1 \in Nat /\ Following + 1 \in Nat
    BY KeypadAssumption DEF Presses
  <2> QED BY <2>1, AtMostTyped
<1> QED BY <1>1 DEF Longer, Presses

LEMMA LongFields ==
  ASSUME NEW p \in Presses, NEW b \in BOOLEAN
  PROVE  LET q == [p EXCEPT !.long = b]
         IN  /\ q \in Presses /\ q.long = b /\ q.key = p.key /\ q.down = p.down
             /\ q.reports = p.reports /\ q.last = p.last
             /\ q.spaced = p.spaced /\ q.slid = p.slid
BY DEF Presses

LEMMA PressedFields ==
  ASSUME press \in Presses, NEW key \in Codes, NEW gap \in Gaps
  PROVE  LET p == Pressed(key, gap)
             down == AtMost(press.down + gap, First + 1)
         IN  /\ p \in Presses /\ p.key = key
             /\ press.key = key =>
                  /\ p.down = down /\ (p.long <=> down > First)
                  /\ p.last = AtMost(press.last + gap, Following + 1)
                  /\ p.reports = press.reports /\ p.spaced = press.spaced
                  /\ p.slid = press.slid
             /\ press.key # key =>
                  /\ p.down = 0 /\ ~p.long /\ p.last = 0 /\ p.reports = 0
                  /\ p.spaced
                  /\ (p.slid <=> press.slid \/ press.reports = 2)
<1>1. CASE press.key = key
  <2> DEFINE q == Longer(press, gap)
  <2>1. Pressed(key, gap) = [q EXCEPT !.long = q.down > First]
    BY <1>1 DEF Pressed
  <2>2. q \in Presses /\ q.key = press.key /\ q.reports = press.reports
        /\ q.spaced = press.spaced /\ q.slid = press.slid
        /\ q.down = AtMost(press.down + gap, First + 1)
        /\ q.last = AtMost(press.last + gap, Following + 1)
    BY LongerFields
  <2>3. (q.down > First) \in BOOLEAN
    OBVIOUS
  <2> HIDE DEF q
  <2> DEFINE r == [q EXCEPT !.long = q.down > First]
  <2>4. /\ r \in Presses /\ r.long = (q.down > First) /\ r.key = q.key /\ r.down = q.down
        /\ r.reports = q.reports /\ r.last = q.last /\ r.spaced = q.spaced
        /\ r.slid = q.slid
    BY <2>2, <2>3, LongFields, Zenon
  <2>5. Pressed(key, gap) = r
    BY <2>1
  <2> HIDE DEF r
  <2> QED BY <1>1, <2>2, <2>4, <2>5
<1>2. CASE press.key # key
  <2>1. Pressed(key, gap) = [Up EXCEPT !.key = key, !.slid = press.slid \/ press.reports = 2]
    BY <1>2 DEF Pressed
  <2> QED BY <1>2, <2>1, UpTyped DEF Presses, Up
<1> QED BY <1>1, <1>2

LEMMA CountedFields ==
  ASSUME NEW p \in Presses
  PROVE  /\ Counted(p) \in Presses
         /\ Counted(p).key = p.key /\ Counted(p).down = p.down
         /\ Counted(p).long = p.long /\ Counted(p).slid = p.slid
         /\ report' = Nothing => Counted(p) = p
         /\ report' # Nothing =>
              /\ Counted(p).reports = AtMost(p.reports + 1, 2)
              /\ Counted(p).last = 0
              /\ (Counted(p).spaced <=> p.spaced /\ (p.reports > 0 => p.last > Following))
<1>1. AtMost(p.reports + 1, 2) \in 0..2
  <2>1. p.reports + 1 \in Nat /\ 2 \in Nat
    BY DEF Presses
  <2> QED BY <2>1, AtMostTyped
<1>2. 0 \in 0..(Following + 1)
  BY KeypadAssumption
<1> QED BY <1>1, <1>2 DEF Counted, Presses

-----------------------------------------------------------------------------
(* A sample is a release, no key or a key; anything else leaves the machine and *)
(* the press as they are.                                                       *)
Gone == Released /\ press' = Up /\ settled' = (settled \/ table = "whole")

Off(gap) ==
  /\ table # "empty" /\ NoKey(gap) /\ UNCHANGED settled
  /\ press' = IF press = Up THEN Up ELSE Longer(press, gap)

On(key, gap) ==
  /\ key \in CodesNow /\ Key(key, gap) /\ UNCHANGED settled
  /\ press' = Counted(Pressed(key, gap))

LEMMA StepKinds ==
  ASSUME [Next]_vars
  PROVE  \/ UNCHANGED <<keyVars, press, settled>>
            /\ (report' = Nothing \/ UNCHANGED report)
            /\ table' \in {table, "filling", "whole"} /\ UNCHANGED samples
         \/ UNCHANGED table
            /\ (table = "filling" => samples < MaxSamples)
            /\ \/ Gone /\ samples' = Met(0)
               \/ \E gap \in Gaps : Off(gap) /\ samples' = Met(samples)
               \/ \E gap \in Gaps, key \in Codes : On(key, gap) /\ samples' = Met(0)
<1>1. CASE UNCHANGED vars
  BY <1>1 DEF vars, history
<1>2. CASE ConfigBegins
  BY <1>2 DEF ConfigBegins, Silent
<1>3. CASE ConfigEnds
  BY <1>3 DEF ConfigEnds, Silent
<1>4. CASE Sample
  <2>1. CodesNow \subseteq Codes
    BY DEF CodesNow, Codes
  <2> QED BY <1>4, <2>1 DEF Sample, Gone, Off, On
<1> QED BY <1>1, <1>2, <1>3, <1>4 DEF Next

Machine ==
  /\ property \in {"INIT", "1st", "2st", "FOLLOWING"}
  /\ prevKey \in Codes /\ age \in 0..(Second + 1) /\ rep \in {0, 1}
  /\ report \in [key : Codes \cup {None}, flag : {0, 1}]
  /\ press \in Presses

LEMMA MachineInit == Init => Machine
BY UpTyped, KeypadAssumption DEF Init, Machine, Nothing, Codes

LEMMA MachineKey ==
  ASSUME Machine, NEW gap \in Gaps, NEW key \in Codes, Key(key, gap)
  PROVE  /\ property' \in {"INIT", "1st", "2st", "FOLLOWING"}
         /\ prevKey' \in Codes /\ age' \in 0..(Second + 1) /\ rep' \in {0, 1}
         /\ report' \in [key : Codes \cup {None}, flag : {0, 1}]
<1> DEFINE now == AtMost(age + gap, Second + 1)
<1>1. now \in 0..(Second + 1)
  <2>1. age + gap \in Nat /\ Second + 1 \in Nat
    BY KeypadAssumption DEF Machine
  <2> QED BY <2>1, AtMostTyped
<1>2. 0 \in 0..(Second + 1)
  BY KeypadAssumption
<1>3. CASE property' = "1st" /\ age' = 0 /\ Silent /\ UNCHANGED rep
  BY <1>2, <1>3 DEF Key, Silent, Nothing, Machine
<1>4. CASE Advance(now)
  <2> HIDE DEF now
  <2> QED BY <1>1, <1>2, <1>4 DEF Key, Advance, Silent, Reports, Nothing, Machine
<1> QED BY <1>3, <1>4 DEF Key

LEMMA MachineStep == Machine /\ [Next]_vars => Machine'
<1> SUFFICES ASSUME Machine, [Next]_vars PROVE Machine'
  OBVIOUS
<1>1. CASE UNCHANGED <<keyVars, press, settled>> /\ (report' = Nothing \/ UNCHANGED report)
  BY <1>1 DEF Machine, keyVars, Nothing
<1>2. CASE Gone
  BY <1>2, UpTyped DEF Gone, Released, Reports, Silent, Nothing, Machine
<1>3. ASSUME NEW gap \in Gaps, Off(gap) PROVE Machine'
  <2>1. press' \in Presses
    BY <1>3, UpTyped, LongerFields DEF Off, Machine
  <2>2. age' \in 0..(Second + 1)
    <3>1. age + gap \in Nat /\ Second + 1 \in Nat
      BY KeypadAssumption DEF Machine
    <3> QED BY <1>3, <3>1, AtMostTyped DEF Off, NoKey
  <2> QED BY <1>3, <2>1, <2>2 DEF Off, NoKey, Silent, Nothing, Machine
<1>4. ASSUME NEW gap \in Gaps, NEW key \in Codes, On(key, gap) PROVE Machine'
  <2>1. press' \in Presses
    BY <1>4, PressedFields, CountedFields DEF On, Machine
  <2> QED BY <1>4, <2>1, MachineKey DEF On, Machine
<1> QED BY <1>1, <1>2, <1>3, <1>4, StepKinds

-----------------------------------------------------------------------------
(* Once the keypad is known to be released, the state machine knows about the *)
(* press what the history does.                                               *)
Stand ==
  settled =>
    /\ property = "INIT" => press = Up
    /\ property # "INIT" => press.key = prevKey
    /\ property = "1st" =>
         press.down = AtMost(age, First + 1) /\ ~press.long /\ press.reports = 0
    /\ property \in {"2st", "FOLLOWING"} => press.down = First + 1 /\ press.long
    /\ property = "2st" => press.reports = 0
    /\ property = "FOLLOWING" =>
         press.reports \in {1, 2} /\ press.last = AtMost(age, Following + 1)
    /\ press.spaced
    /\ rep = 1 => press.reports = 2 \/ press.slid

(* A new key *)
LEMMA StandFresh ==
  ASSUME Machine, Stand, settled, NEW gap \in Gaps, NEW key \in Codes, On(key, gap),
         key # prevKey \/ property = "INIT"
  PROVE  Stand'
<1> DEFINE p == Pressed(key, gap)
<1>1. property' = "1st" /\ age' = 0 /\ report' = Nothing /\ rep' = rep /\ prevKey' = key
  BY DEF On, Key, Silent
<1>2. press' = p
  BY <1>1, PressedFields, CountedFields DEF On, Machine
<1>3. press.key # key
  BY KeypadAssumption DEF Stand, Up, Codes
<1>4. /\ p.key = key /\ p.down = 0 /\ ~p.long /\ p.reports = 0 /\ p.spaced
      /\ (p.slid <=> press.slid \/ press.reports = 2)
  BY <1>3, PressedFields DEF Machine
<1>5. AtMost(0, First + 1) = 0
  BY KeypadAssumption DEF AtMost
<1>6. rep = 1 => p.slid
  BY <1>4 DEF Stand
<1>7. settled'
  BY DEF On
<1> HIDE DEF p
<1> QED BY <1>1, <1>2, <1>4, <1>5, <1>6 DEF Stand

(* The same key, in the state after its first sample, *)
LEMMA StandFirst ==
  ASSUME Machine, Stand, settled, NEW gap \in Gaps, NEW key \in Codes, On(key, gap),
         key = prevKey, property = "1st"
  PROVE  Stand' /\ report' = Nothing
<1> DEFINE p == Pressed(key, gap)
           now == AtMost(age + gap, Second + 1)
<1>1. Advance(now) /\ prevKey' = key
  BY DEF On, Key
<1>2. report' = Nothing /\ rep' = rep
  BY <1>1 DEF Advance, Silent
<1>3. press' = p /\ settled'
  BY <1>2, PressedFields, CountedFields DEF On, Machine
<1>4. press.key = key /\ press.down = AtMost(age, First + 1) /\ press.reports = 0
  BY DEF Stand
<1>5. /\ p.key = key /\ p.down = AtMost(press.down + gap, First + 1)
      /\ (p.long <=> p.down > First)
      /\ p.reports = 0 /\ p.spaced /\ p.slid = press.slid
  BY <1>4, PressedFields DEF Machine, Stand
<1>6. p.down = AtMost(now, First + 1) /\ (now > First => p.down = First + 1)
      /\ (~(now > First) => ~(p.down > First))
  <2>1. age \in Nat /\ gap \in Nat /\ First \in Nat /\ Second \in Nat /\ First < Second
    BY KeypadAssumption DEF Machine
  <2>2. p.down = AtMost(AtMost(age, First + 1) + gap, First + 1)
    BY <1>4, <1>5
  <2> HIDE DEF p
  <2> QED BY <2>1, <2>2 DEF AtMost
<1>7. \/ property' = "2st" /\ now > First
      \/ property' = "1st" /\ ~(now > First) /\ age' = now
  BY <1>1 DEF Advance
<1>8. rep' = 1 => press'.slid
  BY <1>2, <1>3, <1>4, <1>5 DEF Stand
<1>9. First \in Nat
  BY KeypadAssumption
<1> HIDE DEF p, now
<1> QED BY <1>1, <1>2, <1>3, <1>5, <1>6, <1>7, <1>8, <1>9 DEF Stand

(* between the first sample and the report, *)
LEMMA StandSecond ==
  ASSUME Machine, Stand, settled, NEW gap \in Gaps, NEW key \in Codes, On(key, gap),
         key = prevKey, property = "2st"
  PROVE  /\ Stand'
         /\ report' # Nothing => report' = [key |-> key, flag |-> rep]
<1> DEFINE p == Pressed(key, gap)
           now == AtMost(age + gap, Second + 1)
<1>1. Advance(now) /\ prevKey' = key
  BY DEF On, Key
<1>2. press.key = key /\ press.down = First + 1 /\ press.reports = 0
  BY DEF Stand
<1>3. /\ p.key = key /\ p.down = AtMost(press.down + gap, First + 1)
      /\ (p.long <=> p.down > First)
      /\ p.reports = 0 /\ p.spaced /\ p.slid = press.slid /\ p \in Presses
  BY <1>2, PressedFields DEF Machine, Stand
<1>4. p.down = First + 1 /\ p.long
  <2>1. gap \in Nat /\ First \in Nat
    BY KeypadAssumption
  <2> HIDE DEF p
  <2> QED BY <1>2, <1>3, <2>1 DEF AtMost
<1>5. rep' = rep /\ (rep = 1 => press.slid)
  BY <1>1, <1>2 DEF Advance, Stand
<1>6. \/ property' = "FOLLOWING" /\ age' = 0 /\ report' = [key |-> key, flag |-> rep]
      \/ property' = "2st" /\ report' = Nothing
  BY <1>1 DEF Advance, Reports, Silent
<1>7. /\ press' = Counted(p) /\ settled'
      /\ press'.key = key /\ press'.down = First + 1 /\ press'.long
      /\ press'.slid = press.slid
  BY <1>3, <1>4, CountedFields DEF On
<1>8. CASE property' = "FOLLOWING" /\ age' = 0 /\ report' = [key |-> key, flag |-> rep]
  <2>1. report' # Nothing
    BY <1>8, KeypadAssumption DEF Nothing, Codes
  <2>2. press'.reports = AtMost(0 + 1, 2) /\ press'.last = 0 /\ press'.spaced
    BY <1>3, <1>7, <2>1, CountedFields
  <2>3. AtMost(0 + 1, 2) = 1 /\ AtMost(0, Following + 1) = 0
    BY KeypadAssumption DEF AtMost
  <2> HIDE DEF p, now
  <2> QED BY <1>1, <1>5, <1>7, <1>8, <2>2, <2>3 DEF Stand
<1>9. CASE property' = "2st" /\ report' = Nothing
  <2>1. press'.reports = 0 /\ press'.spaced
    BY <1>3, <1>7, <1>9, CountedFields
  <2> HIDE DEF p, now
  <2> QED BY <1>1, <1>5, <1>7, <1>9, <2>1 DEF Stand
<1> QED BY <1>6, <1>8, <1>9

(* and after it. *)
LEMMA StandFollowing ==
  ASSUME Machine, Stand, settled, NEW gap \in Gaps, NEW key \in Codes, On(key, gap),
         key = prevKey, property = "FOLLOWING"
  PROVE  /\ Stand'
         /\ report' # Nothing => report' = [key |-> key, flag |-> 1]
<1> DEFINE p == Pressed(key, gap)
           now == AtMost(age + gap, Second + 1)
<1>1. Advance(now) /\ prevKey' = key
  BY DEF On, Key
<1>2. /\ press.key = key /\ press.down = First + 1 /\ press.reports \in {1, 2}
      /\ press.last = AtMost(age, Following + 1)
  BY DEF Stand
<1>3. /\ p.key = key /\ p.down = AtMost(press.down + gap, First + 1)
      /\ (p.long <=> p.down > First) /\ p.last = AtMost(press.last + gap, Following + 1)
      /\ p.reports = press.reports /\ p.spaced /\ p.slid = press.slid /\ p \in Presses
  BY <1>2, PressedFields DEF Machine, Stand
<1>4. p.down = First + 1 /\ p.long
  <2>1. gap \in Nat /\ First \in Nat
    BY KeypadAssumption
  <2> HIDE DEF p
  <2> QED BY <1>2, <1>3, <2>1 DEF AtMost
<1>5. p.last = AtMost(now, Following + 1) /\ (now > Following => p.last > Following)
  <2>1. age \in Nat /\ gap \in Nat /\ Following \in Nat /\ Second \in Nat /\ Following < Second
    BY KeypadAssumption DEF Machine
  <2>2. p.last = AtMost(AtMost(age, Following + 1) + gap, Following + 1)
    BY <1>2, <1>3
  <2> HIDE DEF p
  <2> QED BY <2>1, <2>2 DEF AtMost
<1>6. property' = "FOLLOWING"
      /\ \/ now > Following /\ age' = 0 /\ rep' = 1 /\ report' = [key |-> key, flag |-> 1]
         \/ age' = now /\ rep' = rep /\ report' = Nothing
  BY <1>1 DEF Advance, Reports, Silent
<1>7. /\ press' = Counted(p) /\ settled'
      /\ press'.key = key /\ press'.down = First + 1 /\ press'.long
      /\ press'.slid = press.slid
  BY <1>3, <1>4, CountedFields DEF On
<1>8. CASE now > Following /\ age' = 0 /\ rep' = 1 /\ report' = [key |-> key, flag |-> 1]
  <2>1. report' # Nothing
    BY <1>8, KeypadAssumption DEF Nothing, Codes
  <2>2. press'.reports = AtMost(press.reports + 1, 2) /\ press'.last = 0 /\ press'.spaced
    BY <1>3, <1>5, <1>7, <1>8, <2>1, CountedFields
  <2>3. AtMost(press.reports + 1, 2) = 2 /\ AtMost(0, Following + 1) = 0
    BY <1>2, KeypadAssumption DEF AtMost
  <2> HIDE DEF p, now
  <2> QED BY <1>1, <1>6, <1>7, <1>8, <2>2, <2>3 DEF Stand
<1>9. CASE age' = now /\ rep' = rep /\ report' = Nothing
  <2>1. press'.reports = press.reports /\ press'.spaced /\ press'.last = AtMost(now, Following + 1)
    BY <1>3, <1>5, <1>7, <1>9, CountedFields
  <2>2. rep = 1 => press.reports = 2 \/ press.slid
    BY DEF Stand
  <2> HIDE DEF p, now
  <2> QED BY <1>1, <1>2, <1>6, <1>7, <1>9, <2>1, <2>2 DEF Stand
<1> QED BY <1>6, <1>8, <1>9

LEMMA StandOn ==
  ASSUME Machine, Stand, settled, NEW gap \in Gaps, NEW key \in Codes, On(key, gap)
  PROVE  /\ Stand'
         /\ report' # Nothing =>
              report'.flag = IF property = "2st" THEN rep ELSE 1
         /\ report' # Nothing => property \in {"2st", "FOLLOWING"} /\ prevKey = report'.key
<1>1. CASE key # prevKey \/ property = "INIT"
  BY <1>1, StandFresh DEF On, Key, Silent
<1>2. CASE key = prevKey /\ property = "1st"
  BY <1>2, StandFirst
<1>3. CASE key = prevKey /\ property = "2st"
  BY <1>3, StandSecond
<1>4. CASE key = prevKey /\ property = "FOLLOWING"
  BY <1>4, StandFollowing
<1> QED BY <1>1, <1>2, <1>3, <1>4 DEF Machine

LEMMA StandOff ==
  ASSUME Machine, Stand, settled, NEW gap \in Gaps, Off(gap) PROVE Stand'
<1>1. /\ property' = property /\ prevKey' = prevKey /\ rep' = 0 /\ settled'
      /\ age' = AtMost(age + gap, Second + 1)
  BY DEF Off, NoKey
<1>2. CASE press = Up
  <2>1. press' = Up
    BY <1>2 DEF Off
  <2>2. property = "INIT"
    BY <1>2, KeypadAssumption DEF Stand, Machine, Up, Codes
  <2>3. Up.spaced
    BY DEF Up
  <2> QED BY <1>1, <2>1, <2>2, <2>3 DEF Stand
<1>3. CASE press # Up
  <2> DEFINE p == Longer(press, gap)
  <2>1. press' = p /\ property # "INIT"
    BY <1>3 DEF Off, Stand
  <2>2. /\ p.down = AtMost(press.down + gap, First + 1)
        /\ p.last = AtMost(press.last + gap, Following + 1)
        /\ p.key = press.key /\ p.long = press.long /\ p.reports = press.reports
        /\ p.spaced = press.spaced
    BY LongerFields DEF Machine
  <2>3. /\ age \in Nat /\ gap \in Nat /\ First \in Nat /\ Following \in Nat /\ Second \in Nat
        /\ First < Second /\ Following < Second
    BY KeypadAssumption DEF Machine
  <2> HIDE DEF p
  <2>4. property = "1st" => p.down = AtMost(age', First + 1)
    <3>1. property = "1st" => p.down = AtMost(AtMost(age, First + 1) + gap, First + 1)
      BY <2>2 DEF Stand
    <3> QED BY <1>1, <2>3, <3>1 DEF AtMost
  <2>5. property \in {"2st", "FOLLOWING"} => p.down = First + 1
    BY <2>2, <2>3 DEF Stand, AtMost
  <2>6. property = "FOLLOWING" => p.last = AtMost(age', Following + 1)
    <3>1. property = "FOLLOWING" => p.last = AtMost(AtMost(age, Following + 1) + gap, Following + 1)
      BY <2>2 DEF Stand
    <3> QED BY <1>1, <2>3, <3>1 DEF AtMost
  <2> QED BY <1>1, <2>1, <2>2, <2>4, <2>5, <2>6 DEF Stand
<1> QED BY <1>2, <1>3

LEMMA StandGone == ASSUME Gone PROVE Stand'
BY DEF Gone, Released, Stand, Up

LEMMA StandStep == Machine /\ Stand /\ [Next]_vars => Stand'
<1> SUFFICES ASSUME Machine, Stand, [Next]_vars PROVE Stand'
  OBVIOUS
<1>1. CASE UNCHANGED <<keyVars, press, settled>>
  BY <1>1 DEF Stand, keyVars
<1>2. CASE Gone
  BY <1>2, StandGone
<1>3. ASSUME NEW gap \in Gaps, Off(gap) PROVE Stand'
  BY <1>3, StandOff DEF Stand, Off
<1>4. ASSUME NEW gap \in Gaps, NEW key \in Codes, On(key, gap) PROVE Stand'
  BY <1>4, StandOn DEF Stand, On
<1> QED BY <1>1, <1>2, <1>3, <1>4, StepKinds

KeypadInv == Machine /\ Stand

LEMMA KeypadInvHolds == Spec => []KeypadInv
<1>1. Init => KeypadInv
  <2>1. Init => Stand
    BY Zenon DEF Init, Stand
  <2> QED BY <2>1, MachineInit DEF KeypadInv
<1>2. KeypadInv /\ [Next]_vars => KeypadInv'
  BY MachineStep, StandStep DEF KeypadInv
<1> QED BY <1>1, <1>2, PTL DEF Spec

(* The repeats of a press are further apart than the 330 ms.                   *)
THEOREM RepeatsAreSpaced == Spec => []RepeatsSpaced
<1>1. KeypadInv => RepeatsSpaced
  BY DEF KeypadInv, Stand, RepeatsSpaced
<1> QED BY <1>1, KeypadInvHolds, PTL

(* A press that is released is reported exactly if it was long enough and was   *)
(* not reported while it lasted.                                                *)
THEOREM PressesAreReported == Spec => ReportedAtRelease
<1> DEFINE P == settled /\ press # Up /\ press' = Up =>
                  report' = IF press.long /\ press.reports = 0
                            THEN [key |-> press.key, flag |-> report'.flag] ELSE Nothing
<1>1. KeypadInv /\ [Next]_vars => [P]_vars
  <2> SUFFICES ASSUME KeypadInv, [Next]_vars, settled, press # Up, press' = Up
               PROVE  report' = IF press.long /\ press.reports = 0
                                THEN [key |-> press.key, flag |-> report'.flag] ELSE Nothing
    OBVIOUS
  <2>1. ASSUME NEW gap \in Gaps, Off(gap) PROVE FALSE
    <3>1. press' = Longer(press, gap) /\ press'.key = press.key /\ press.key \in Codes
      BY <2>1, LongerFields DEF Off, KeypadInv, Machine, Stand, NoKey
    <3> QED BY <3>1, KeypadAssumption DEF Up, Codes
  <2>2. ASSUME NEW gap \in Gaps, NEW key \in Codes, On(key, gap) PROVE FALSE
    <3>1. press'.key = key
      BY <2>2, PressedFields, CountedFields DEF On, KeypadInv, Machine
    <3> QED BY <3>1, KeypadAssumption DEF Up, Codes
  <2>3. Gone
    BY <2>1, <2>2, StepKinds
  <2>4. property # "INIT" /\ press.key = prevKey
    BY DEF KeypadInv, Stand
  <2>5. property = "2st" <=> press.long /\ press.reports = 0
    BY <2>4 DEF KeypadInv, Stand, Machine
  <2> QED BY <2>3, <2>4, <2>5 DEF Gone, Released, Reports, Silent
<1> QED BY <1>1, KeypadInvHolds, PTL DEF Spec, ReportedAtRelease

(* Only the first report of a press has flag 0, but for a finger that has slid. *)
THEOREM FirstReportIsPlain == Spec => FirstThenRepeats
<1> DEFINE P == settled /\ report' # Nothing /\ ~press.slid =>
                  report'.flag = IF press.reports = 0 THEN 0 ELSE 1
<1>1. KeypadInv /\ [Next]_vars => [P]_vars
  <2> SUFFICES ASSUME KeypadInv, [Next]_vars, settled, report' # Nothing, ~press.slid,
                      ~UNCHANGED vars
               PROVE  report'.flag = IF press.reports = 0 THEN 0 ELSE 1
    OBVIOUS
  <2>1. property = "2st" => rep = 0 /\ press.reports = 0
    BY DEF KeypadInv, Stand, Machine
  <2>2. property = "FOLLOWING" => press.reports \in {1, 2}
    BY DEF KeypadInv, Stand
  <2>3. CASE Gone
    BY <2>1, <2>3 DEF Gone, Released, Reports, Silent
  <2>4. ASSUME NEW gap \in Gaps, NEW key \in Codes, On(key, gap)
        PROVE  report'.flag = IF press.reports = 0 THEN 0 ELSE 1
    BY <2>1, <2>2, <2>4, StandOn DEF KeypadInv
  <2>5. ASSUME NEW gap \in Gaps, Off(gap) PROVE FALSE
    BY <2>5 DEF Off, NoKey, Silent
  <2>6. ~ConfigBegins /\ ~ConfigEnds
    BY DEF ConfigBegins, ConfigEnds, Silent
  <2>7. \/ Gone
        \/ \E gap \in Gaps, key \in Codes : On(key, gap)
    <3>1. Sample
      BY <2>6 DEF Next
    <3>2. CodesNow \subseteq Codes
      BY DEF CodesNow, Codes
    <3> QED BY <2>5, <3>1, <3>2 DEF Sample, Gone, On, Off
  <2> QED BY <2>3, <2>4, <2>7
<1> QED BY <1>1, KeypadInvHolds, PTL DEF Spec, FirstThenRepeats

-----------------------------------------------------------------------------
(* A code that is in no table can only come from a sample that met              *)
(* MI_SAR_Config; it takes another one to get it past the debouncing.           *)
Met1 ==
  /\ samples \in Nat /\ table \in {"empty", "filling", "whole"}
  /\ settled =>
       /\ table # "empty"
       /\ prevKey \notin Keys =>
            property \in {"INIT", "1st"} /\ (property = "1st" => samples >= 1)

LEMMA MetOn ==
  ASSUME MaxSamples <= 1, Machine, Met1, settled, table = "filling" => samples < MaxSamples,
         NEW gap \in Gaps, NEW key \in Codes, On(key, gap), samples' = Met(0),
         UNCHANGED table
  PROVE  Met1' /\ (report' # Nothing => report'.key \in Keys)
<1>1. samples' \in Nat /\ (table = "filling" => samples' >= 1) /\ table # "empty"
  BY DEF Met1, Met
<1>2. CASE key # prevKey \/ property = "INIT"
  <2>1. property' = "1st" /\ report' = Nothing /\ prevKey' = key
    BY <1>2 DEF On, Key, Silent
  <2>2. key \notin Keys => table = "filling"
    BY <1>1 DEF On, CodesNow, Met1
  <2> QED BY <1>1, <2>1, <2>2 DEF Met1
<1>3. CASE key = prevKey /\ property # "INIT"
  <2>1. prevKey' = prevKey /\ Advance(AtMost(age + gap, Second + 1))
    BY <1>3 DEF On, Key
  <2>2. prevKey \in Keys
    <3> SUFFICES ASSUME prevKey \notin Keys PROVE FALSE
      OBVIOUS
    <3>1. samples >= 1 /\ samples \in Nat
      BY <1>3 DEF Met1
    <3>2. table = "whole"
      BY <1>1, <3>1, KeypadAssumption DEF Met1
    <3> QED BY <1>3, <3>2 DEF On, CodesNow
  <2>3. report' # Nothing => report'.key = prevKey
    BY <2>1 DEF Advance, Reports, Silent
  <2> QED BY <1>1, <2>1, <2>2, <2>3 DEF Met1
<1> QED BY <1>2, <1>3

LEMMA MetStep ==
  ASSUME MaxSamples <= 1, Machine, Stand, Met1, [Next]_vars
  PROVE  Met1' /\ (settled /\ report' # Nothing /\ ~UNCHANGED vars => report'.key \in Keys)
<1>1. CASE UNCHANGED vars
  BY <1>1 DEF vars, keyVars, history, Met1
<1>2. CASE ConfigBegins \/ ConfigEnds
  BY <1>2 DEF ConfigBegins, ConfigEnds, Silent, keyVars, Met1
<1>3. CASE Sample
  <2>1. Met(0) \in Nat /\ Met(samples) \in Nat /\ samples <= Met(samples)
    BY DEF Met1, Met
  <2>2. UNCHANGED table /\ (table = "filling" => samples < MaxSamples)
    BY <1>3 DEF Sample
  <2>3. \/ Gone /\ samples' = Met(0)
        \/ \E gap \in Gaps : Off(gap) /\ samples' = Met(samples)
        \/ \E gap \in Gaps, key \in Codes : On(key, gap) /\ samples' = Met(0)
    <3>1. CodesNow \subseteq Codes
      BY DEF CodesNow, Codes
    <3> QED BY <1>3, <3>1 DEF Sample, Gone, Off, On
  <2>4. CASE Gone /\ samples' = Met(0)
    <3>1. settled => report' = Nothing \/ report'.key \in Keys
      BY <2>4 DEF Gone, Released, Reports, Silent, Met1
    <3>2. property' = "INIT" /\ (settled' => settled \/ table = "whole")
      BY <2>4 DEF Gone, Released
    <3>3. settled' => table' # "empty"
      BY <2>2, <3>2 DEF Met1
    <3> QED BY <2>1, <2>2, <2>4, <3>1, <3>2, <3>3 DEF Met1
  <2>5. ASSUME NEW gap \in Gaps, Off(gap), samples' = Met(samples)
        PROVE  Met1' /\ report' = Nothing
    BY <2>1, <2>2, <2>5 DEF Off, NoKey, Silent, Met1
  <2>6. ASSUME NEW gap \in Gaps, NEW key \in Codes, On(key, gap), samples' = Met(0)
        PROVE  Met1' /\ (settled /\ report' # Nothing => report'.key \in Keys)
    <3>1. CASE settled
      BY <2>2, <2>6, <3>1, MetOn
    <3>2. CASE ~settled
      BY <2>1, <2>2, <2>6, <3>2 DEF On, Met1
    <3> QED BY <3>1, <3>2
  <2> QED BY <2>3, <2>4, <2>5, <2>6
<1> QED BY <1>1, <1>2, <1>3 DEF Next

(* However MI_SAR_Config and the sampling thread interleave, the callback gets  *)
(* codes of the table only, if no more than one sample falls into a Config.     *)
THEOREM CodesAreConfigured ==
  ASSUME MaxSamples <= 1 PROVE Spec => OnlyConfiguredKeys
<1> DEFINE P == settled /\ report' # Nothing => report'.key \in Keys
<1>1. Init => Met1
  <2>1. Init => ~settled
    BY Zenon DEF Init
  <2>2. Init => samples = 0 /\ table = "empty"
    BY DEF Init
  <2> QED BY <2>1, <2>2 DEF Met1
<1>2. KeypadInv /\ Met1 /\ [Next]_vars => Met1' /\ [P]_vars
  BY MetStep DEF KeypadInv
<1> QED BY <1>1, <1>2, KeypadInvHolds, PTL DEF Spec, OnlyConfiguredKeys

(* Every press is reported as it should be: at its release or by repeats, the   *)
(* first report plain and the others flagged and spaced, and with codes of the  *)
(* table only, if no more than one sample falls into a MI_SAR_Config.           *)
THEOREM PressesAreRight ==
  ASSUME MaxSamples <= 1 PROVE Spec => PressesReported
<1> QED BY RepeatsAreSpaced, PressesAreReported, FirstReportIsPlain, CodesAreConfigured
           DEF PressesReported

-----------------------------------------------------------------------------
(* The descriptors of the process.                                         *)
Devices == {"none", "gpioioctl", "saradc", "event0", "cst066", "fb", "scl", "serial", "tty"}

FilesInv ==
  /\ open \in [Numbers -> Devices]
  /\ gInitDoneFlag \in BOOLEAN
  /\ fds \in Seq([fd : Numbers, left : Left, line : {Files!SetOpt(left) : left \in Left}])
  /\ gInitDoneFlag => _gInputFd \in Numbers /\ _gI2cFd \in Numbers
  /\ fb \in Numbers \cup {-1} /\ m_serial_handle \in Numbers \cup {-1}
  /\ Files!NumbersAreOwn

(* What stands behind a number in use stays, but for the numbers in S. *)
Spares(t, u, S) == \A n \in Numbers : t[n] # "none" /\ n \notin S => u[n] = t[n]

LEMMA OpensFree ==
  ASSUME NEW t \in [Numbers -> Devices], NEW n \in Files!Opens(t)
  PROVE  n = -1 \/ (n \in Numbers /\ t[n] = "none")
BY DEF Files!Opens, Files!Free

LEMMA WithSpares ==
  ASSUME NEW t \in [Numbers -> Devices], NEW n \in Files!Opens(t), NEW d \in Devices,
         Numbers \subseteq Nat
  PROVE  /\ Files!With(t, n, d) \in [Numbers -> Devices]
         /\ Spares(t, Files!With(t, n, d), {})
         /\ n # -1 => n \in Numbers /\ t[n] = "none" /\ Files!With(t, n, d)[n] = d
         /\ n = -1 => Files!With(t, n, d) = t
<1>1. CASE n = -1
  <2>1. n \notin Numbers
    BY <1>1
  <2> QED BY <1>1, <2>1 DEF Files!With, Spares
<1>2. CASE n # -1
  <2>1. n \in Numbers /\ t[n] = "none"
    BY <1>2, OpensFree
  <2>2. Files!With(t, n, d) = [t EXCEPT ![n] = d]
    BY <1>2 DEF Files!With
  <2> QED BY <1>2, <2>1, <2>2 DEF Spares
<1> QED BY <1>1, <1>2

LEMMA ClosedSpares ==
  ASSUME NEW t \in [Numbers -> Devices], NEW n
  PROVE  /\ Files!Closed(t, n) \in [Numbers -> Devices]
         /\ Spares(t, Files!Closed(t, n), {n})
BY DEF Files!Closed, Spares, Devices

LEMMA BriefSpares ==
  ASSUME NEW t \in [Numbers -> Devices], NEW d \in Devices, NEW u \in Files!Brief(t, d),
         Numbers \subseteq Nat
  PROVE  u \in [Numbers -> Devices] /\ Spares(t, u, {})
<1>1. PICK n \in Files!Opens(t) : u = Files!Closed(Files!With(t, n, d), n)
  BY DEF Files!Brief
<1> DEFINE w == Files!With(t, n, d)
<1>2. /\ w \in [Numbers -> Devices] /\ Spares(t, w, {})
      /\ n \in Numbers => t[n] = "none"
  <2>1. n = -1 => n \notin Numbers
    OBVIOUS
  <2> QED BY <2>1, WithSpares
<1> HIDE DEF w
<1>3. u = Files!Closed(w, n)
  BY <1>1 DEF w
<1>4. u \in [Numbers -> Devices] /\ Spares(w, u, {n})
  BY <1>2, <1>3, ClosedSpares
<1>5. Spares(t, u, {})
  BY <1>2, <1>4 DEF Spares
<1> QED BY <1>4, <1>5

LEMMA LeakySpares ==
  ASSUME NEW t \in [Numbers -> Devices], NEW d \in Devices, NEW u \in Files!Leaky(t, d),
         Numbers \subseteq Nat
  PROVE  u \in [Numbers -> Devices] /\ Spares(t, u, {})
<1>1. CASE u \in Files!Brief(t, d)
  BY <1>1, BriefSpares
<1>2. CASE u \in {Files!With(t, n, d) : n \in Files!Opens(t)}
  BY <1>2, WithSpares
<1> QED BY <1>1, <1>2 DEF Files!Leaky

(* A step that spares the numbers in use, and leaves the drivers their own. *)
LEMMA SparedOwn ==
  ASSUME FilesInv, open' \in [Numbers -> Devices], Spares(open, open', {}), Files!OnlyOpen
  PROVE  FilesInv'
<1>1. Files!Found' = Files!Found
  BY DEF Files!OnlyOpen, Files!Found
<1>2. Files!NumbersAreOwn'
  BY <1>1 DEF FilesInv, Spares, Files!OnlyOpen, Files!input, Files!NumbersAreOwn, Files!Behind, Files!Found
<1> QED BY <1>2 DEF FilesInv, Files!OnlyOpen, Files!input

LEMMA FilesInitially ==
  ASSUME Numbers \subseteq Nat, Files!Init
  PROVE  FilesInv
<1>1. Files!Found = {}
  BY DEF Files!Init, Files!Found
<1>2. /\ open \in [Numbers -> Devices] /\ gInitDoneFlag = FALSE
      /\ fds \in Seq([fd : Numbers, left : Left, line : {Files!SetOpt(left) : left \in Left}])
      /\ fb = -1 /\ m_serial_handle = -1 /\ source = "none"
  BY DEF Files!Init, Devices
<1> QED BY <1>1, <1>2 DEF FilesInv, Files!NumbersAreOwn

LEMMA FilesStep ==
  ASSUME Numbers \subseteq Nat, FilesInv, [Files!Next]_(Files!vars)
  PROVE  FilesInv'
<1> DEFINE Lines == Seq([fd : Numbers, left : Left, line : {Files!SetOpt(left) : left \in Left}])
<1>t. /\ open \in [Numbers -> Devices] /\ gInitDoneFlag \in BOOLEAN /\ fds \in Lines
      /\ gInitDoneFlag => _gInputFd \in Numbers /\ _gI2cFd \in Numbers
      /\ fb \in Numbers \cup {-1} /\ m_serial_handle \in Numbers \cup {-1}
      /\ Files!NumbersAreOwn
  BY DEF FilesInv
<1>n. -1 \notin Numbers
  OBVIOUS
<1>f. Files!Found \subseteq Numbers
  <2> DEFINE Line == [fd : Numbers, left : Left, line : {Files!SetOpt(l) : l \in Left}]
  <2>1. fds \in Seq(Line) /\ \A r \in Line : r.fd \in Numbers
    BY <1>t
  <2> HIDE DEF Line
  <2>2. \A k \in DOMAIN fds : fds[k] \in Line
    BY <2>1
  <2> QED BY <2>1, <2>2 DEF Files!Found
<1>d. {"gpioioctl", "event0", "cst066", "fb", "scl", "serial", "tty"} \subseteq Devices
  BY DEF Devices
<1>o. /\ gInitDoneFlag => open[_gInputFd] = "event0" /\ open[_gI2cFd] = "cst066"
      /\ source \in {"none", "event0", "cst066"}
      /\ fb # -1 => fb \in Numbers /\ open[fb] = "fb"
      /\ m_serial_handle # -1 => m_serial_handle \in Numbers /\ open[m_serial_handle] = "serial"
      /\ \A n \in Files!Found : n \in Numbers /\ open[n] = "tty"
  BY <1>t, <1>f DEF Files!NumbersAreOwn, Files!Behind
(* What is left to show of a step. *)
<1>s. ASSUME open' \in [Numbers -> Devices], gInitDoneFlag' \in BOOLEAN, fds' \in Lines,
             gInitDoneFlag' => /\ _gInputFd' \in Numbers /\ open'[_gInputFd'] = "event0"
                               /\ _gI2cFd' \in Numbers /\ open'[_gI2cFd'] = "cst066",
             source' \in {"none", "event0", "cst066"},
             fb' # -1 => fb' \in Numbers /\ open'[fb'] = "fb",
             m_serial_handle' # -1 =>
               m_serial_handle' \in Numbers /\ open'[m_serial_handle'] = "serial",
             \A n \in Files!Found' : n \in Numbers /\ open'[n] = "tty"
      PROVE  FilesInv'
  <2>1. Files!NumbersAreOwn'
    BY <1>s DEF Files!NumbersAreOwn, Files!Behind
  <2> QED BY <1>s, <2>1 DEF FilesInv
<1>e. (fds' = fds) => Files!Found' = Files!Found
  BY DEF Files!Found
<1> HIDE DEF Lines
<1>1. CASE \E d \in Devices : open' \in Files!Leaky(open, d) \cup Files!Brief(open, d) /\ Files!OnlyOpen
  <2>1. open' \in [Numbers -> Devices] /\ Spares(open, open', {}) /\ Files!OnlyOpen
    BY <1>1, <1>t, BriefSpares, LeakySpares
  <2> QED BY <2>1, SparedOwn
<1>2. CASE Files!PollPins
  <2>1. PICK first \in Files!Brief(open, "gpioioctl") : open' \in Files!Brief(first, "gpioioctl")
    BY <1>2 DEF Files!PollPins, Files!GetLevel
  <2>2. first \in [Numbers -> Devices] /\ Spares(open, first, {})
    BY <1>t, <2>1, <1>d, BriefSpares
  <2>3. open' \in [Numbers -> Devices] /\ Spares(first, open', {})
    BY <2>1, <2>2, <1>d, BriefSpares
  <2>4. Spares(open, open', {})
    BY <2>2, <2>3 DEF Spares
  <2> QED BY <1>2, <2>3, <2>4, SparedOwn DEF Files!PollPins
<1>3. CASE Files!InputInit
  <2>1. PICK i \in Files!Opens(open) :
          /\ _gInputFd' = i
          /\ LET first == Files!With(open, i, "event0")
             IN  IF i = -1 THEN UNCHANGED <<open, _gI2cFd, gInitDoneFlag>>
                 ELSE \E c \in Files!Opens(first) :
                          /\ _gI2cFd' = c
                          /\ open' = IF c = -1 THEN Files!Closed(first, i)
                                     ELSE Files!With(first, c, "cst066")
                          /\ gInitDoneFlag' = (c # -1)
    BY <1>3 DEF Files!InputInit
  <2>2. /\ ~gInitDoneFlag
        /\ fb' = fb /\ m_serial_handle' = m_serial_handle /\ fds' = fds /\ source' = source
    BY <1>3 DEF Files!InputInit
  <2>3. CASE i = -1
    BY <1>s, <1>o, <1>t, <1>e, <2>1, <2>2, <2>3
  <2>4. CASE i # -1
    <3> DEFINE first == Files!With(open, i, "event0")
    <3>1. /\ first \in [Numbers -> Devices] /\ Spares(open, first, {})
          /\ i \in Numbers /\ open[i] = "none" /\ first[i] = "event0"
      BY <1>t, <1>d, <2>4, WithSpares
    <3>2. PICK c \in Files!Opens(first) :
            /\ _gI2cFd' = c
            /\ open' = IF c = -1 THEN Files!Closed(first, i) ELSE Files!With(first, c, "cst066")
            /\ gInitDoneFlag' = (c # -1)
      BY <2>1, <2>4
    <3> HIDE DEF first
    <3>3. CASE c = -1
      <4>1. /\ open' \in [Numbers -> Devices] /\ Spares(first, open', {i}) /\ gInitDoneFlag' = FALSE
        BY <3>1, <3>2, <3>3, ClosedSpares
      <4>2. Spares(open, open', {})
        BY <3>1, <4>1 DEF Spares
      <4> QED BY <1>s, <1>o, <1>t, <1>e, <2>2, <4>1, <4>2 DEF Spares
    <3>4. CASE c # -1
      <4>1. /\ open' \in [Numbers -> Devices] /\ Spares(first, open', {})
            /\ c \in Numbers /\ first[c] = "none" /\ open'[c] = "cst066"
        <5>1. open' = Files!With(first, c, "cst066") /\ "cst066" \in Devices
          BY <1>d, <3>2, <3>4
        <5>2. /\ Files!With(first, c, "cst066") \in [Numbers -> Devices]
              /\ Spares(first, Files!With(first, c, "cst066"), {})
              /\ c \in Numbers /\ first[c] = "none" /\ Files!With(first, c, "cst066")[c] = "cst066"
          BY <3>1, <3>2, <3>4, <5>1, WithSpares
        <5> QED BY <5>1, <5>2
      <4>2. Spares(open, open', {}) /\ open'[i] = "event0" /\ gInitDoneFlag' \in BOOLEAN
        BY <3>1, <3>2, <4>1 DEF Spares
      <4> QED BY <1>s, <1>o, <1>t, <1>e, <2>1, <2>2, <3>1, <3>2, <4>1, <4>2 DEF Spares
    <3> QED BY <3>3, <3>4
  <2> QED BY <2>3, <2>4
<1>4. CASE Files!InputDeInit
  BY <1>4, <1>s, <1>o, <1>t, <1>e DEF Files!InputDeInit
<1>5. CASE Files!GetKeyStatus \/ Files!GetKeyValue
  <2>1. /\ open' = open /\ Files!input' = Files!input /\ fb' = fb
        /\ m_serial_handle' = m_serial_handle /\ fds' = fds
        /\ \/ source' = source
           \/ gInitDoneFlag /\ source' \in {Files!Behind(_gInputFd), Files!Behind(_gI2cFd)}
    BY <1>5 DEF Files!GetKeyStatus, Files!GetKeyValue, Files!KeyFrom
  <2>2. source' \in {"none", "event0", "cst066"}
    BY <1>o, <1>t, <2>1 DEF Files!Behind
  <2>3. _gInputFd' = _gInputFd /\ _gI2cFd' = _gI2cFd /\ gInitDoneFlag' = gInitDoneFlag
    BY <2>1 DEF Files!input
  <2> QED BY <1>s, <1>o, <1>t, <1>e, <2>1, <2>2, <2>3
<1>6. CASE Files!FindTty
  <2>1. /\ _gInputFd' = _gInputFd /\ _gI2cFd' = _gI2cFd /\ gInitDoneFlag' = gInitDoneFlag
        /\ fb' = fb /\ m_serial_handle' = m_serial_handle /\ source' = source
    BY <1>6 DEF Files!FindTty, Files!input
  <2>2. PICK n \in Files!Opens(open) \ {-1} :
          \/ /\ \E left \in Left :
                  fds' = Append(fds, [fd |-> n, left |-> left, line |-> Files!SetOpt(left)])
             /\ open' = Files!With(open, n, "tty")
          \/ open' = Files!Closed(Files!With(open, n, "tty"), n) /\ UNCHANGED fds
    BY <1>6 DEF Files!FindTty
  <2> DEFINE w == Files!With(open, n, "tty")
  <2>3. /\ w \in [Numbers -> Devices] /\ Spares(open, w, {})
        /\ n \in Numbers /\ open[n] = "none" /\ w[n] = "tty"
    BY <1>t, <2>2, <1>d, WithSpares
  <2> HIDE DEF w
  <2>4. CASE open' = Files!Closed(w, n) /\ fds' = fds
    <3>1. open' \in [Numbers -> Devices] /\ Spares(w, open', {n})
      BY <2>3, <2>4, ClosedSpares
    <3>2. Spares(open, open', {})
      BY <2>3, <3>1 DEF Spares
    <3> QED BY <1>s, <1>o, <1>t, <1>e, <2>1, <2>4, <3>1, <3>2 DEF Spares
  <2>5. ASSUME NEW left \in Left, open' = w,
               fds' = Append(fds, [fd |-> n, left |-> left, line |-> Files!SetOpt(left)])
        PROVE  FilesInv'
    <3> DEFINE Line == [fd : Numbers, left : Left, line : {Files!SetOpt(l) : l \in Left}]
               new == [fd |-> n, left |-> left, line |-> Files!SetOpt(left)]
    <3>1. new \in Line /\ new.fd = n
      BY <2>3
    <3>2. fds \in Seq(Line) /\ Lines = Seq(Line)
      BY <1>t DEF Lines
    <3> HIDE DEF new, Line
    <3>3. fds' = Append(fds, new)
      BY <2>5 DEF new
    <3>4. fds' \in Lines /\ \A k \in DOMAIN fds' : fds'[k].fd = n \/ (k \in DOMAIN fds /\ fds'[k] = fds[k])
      BY <3>1, <3>2, <3>3
    <3>5. \A m \in Files!Found' : m = n \/ m \in Files!Found
      BY <3>4 DEF Files!Found
    <3>6. open' \in [Numbers -> Devices] /\ Spares(open, open', {}) /\ open'[n] = "tty"
      BY <2>3, <2>5
    <3>7. \A m \in Files!Found' : m \in Numbers /\ open'[m] = "tty"
      BY <1>o, <2>3, <3>5, <3>6 DEF Spares
    <3> QED BY <1>s, <1>o, <1>t, <2>1, <3>4, <3>6, <3>7 DEF Spares
  <2> QED BY <2>2, <2>4, <2>5 DEF w
<1>7. CASE Files!CloseTtys
  <2>1. /\ open' = [n \in Numbers |-> IF n \in Files!Found THEN "none" ELSE open[n]] /\ fds' = <<>>
        /\ _gInputFd' = _gInputFd /\ _gI2cFd' = _gI2cFd /\ gInitDoneFlag' = gInitDoneFlag
        /\ fb' = fb /\ m_serial_handle' = m_serial_handle /\ source' = source
    BY <1>7 DEF Files!CloseTtys, Files!input
  <2>2. fds' \in Lines /\ Files!Found' = {}
    BY <2>1 DEF Files!Found, Lines
  <2>3. open' \in [Numbers -> Devices] /\ Spares(open, open', Files!Found)
    BY <1>t, <2>1 DEF Spares, Devices
  <2>4. \A n \in Numbers : open[n] \in {"event0", "cst066", "fb", "serial"} => open'[n] = open[n]
    BY <1>o, <2>3 DEF Spares
  <2> QED BY <1>s, <1>o, <1>t, <2>1, <2>2, <2>3, <2>4
<1>8. CASE Files!FbOpen
  <2>1. PICK n \in Files!Opens(open) : fb' = n /\ open' = Files!With(open, n, "fb")
    BY <1>8 DEF Files!FbOpen
  <2>2. /\ _gInputFd' = _gInputFd /\ _gI2cFd' = _gI2cFd /\ gInitDoneFlag' = gInitDoneFlag
        /\ fds' = fds /\ m_serial_handle' = m_serial_handle /\ source' = source
    BY <1>8 DEF Files!FbOpen, Files!input
  <2>3. /\ open' \in [Numbers -> Devices] /\ Spares(open, open', {})
        /\ n # -1 => n \in Numbers /\ open'[n] = "fb"
    BY <1>t, <2>1, <1>d, WithSpares
  <2> QED BY <1>s, <1>o, <1>t, <1>e, <2>1, <2>2, <2>3 DEF Spares
<1>9. CASE Files!FbClose
  <2>1. /\ _gInputFd' = _gInputFd /\ _gI2cFd' = _gI2cFd /\ gInitDoneFlag' = gInitDoneFlag
        /\ fds' = fds /\ m_serial_handle' = m_serial_handle /\ source' = source /\ fb' = -1
    BY <1>9 DEF Files!FbClose, Files!input
  <2>2. open' \in [Numbers -> Devices] /\ Spares(open, open', {fb})
    BY <1>9, <1>t, ClosedSpares DEF Files!FbClose
  <2>3. \A n \in Numbers : open[n] \in {"event0", "cst066", "serial", "tty"} => open'[n] = open[n]
    BY <1>o, <1>n, <2>2 DEF Spares
  <2> QED BY <1>s, <1>o, <1>t, <1>e, <2>1, <2>2, <2>3
<1>10. CASE Files!SclInit
  <2>1. PICK n \in Files!Opens(open) : open' = IF n = 0 THEN Files!With(open, n, "scl") ELSE open
    BY <1>10 DEF Files!SclInit
  <2>2. /\ _gInputFd' = _gInputFd /\ _gI2cFd' = _gI2cFd /\ gInitDoneFlag' = gInitDoneFlag
        /\ fds' = fds /\ fb' = fb /\ m_serial_handle' = m_serial_handle /\ source' = source
    BY <1>10 DEF Files!SclInit, Files!input
  <2>3. open' \in [Numbers -> Devices] /\ Spares(open, open', {})
    <3>1. Files!With(open, n, "scl") \in [Numbers -> Devices] /\ Spares(open, Files!With(open, n, "scl"), {})
      BY <1>t, <1>d, WithSpares
    <3> QED BY <1>t, <2>1, <3>1 DEF Spares
  <2> QED BY <1>s, <1>o, <1>t, <1>e, <2>2, <2>3 DEF Spares
<1>11. CASE Files!SerOpen
  <2>1. PICK n \in Files!Opens(open) : m_serial_handle' = n /\ open' = Files!With(open, n, "serial")
    BY <1>11 DEF Files!SerOpen
  <2>2. /\ _gInputFd' = _gInputFd /\ _gI2cFd' = _gI2cFd /\ gInitDoneFlag' = gInitDoneFlag
        /\ fds' = fds /\ fb' = fb /\ source' = source
    BY <1>11 DEF Files!SerOpen, Files!input
  <2>3. /\ open' \in [Numbers -> Devices] /\ Spares(open, open', {})
        /\ n # -1 => n \in Numbers /\ open'[n] = "serial"
    BY <1>t, <2>1, <1>d, WithSpares
  <2> QED BY <1>s, <1>o, <1>t, <1>e, <2>1, <2>2, <2>3 DEF Spares
<1>12. CASE Files!SerClose
  <2>1. /\ _gInputFd' = _gInputFd /\ _gI2cFd' = _gI2cFd /\ gInitDoneFlag' = gInitDoneFlag
        /\ fds' = fds /\ m_serial_handle' = -1 /\ source' = source /\ fb' = fb
    BY <1>12 DEF Files!SerClose, Files!input
  <2>2. open' \in [Numbers -> Devices] /\ Spares(open, open', {m_serial_handle})
    BY <1>12, <1>t, ClosedSpares DEF Files!SerClose
  <2>3. \A n \in Numbers : open[n] \in {"event0", "cst066", "fb", "tty"} => open'[n] = open[n]
    BY <1>o, <1>n, <2>2 DEF Spares
  <2> QED BY <1>s, <1>o, <1>t, <1>e, <2>1, <2>2, <2>3
<1>13. CASE UNCHANGED Files!vars
  BY <1>13, <1>s, <1>o, <1>t, <1>e DEF Files!vars
<1>14. Files!GpioCall \/ Files!EnableInterrupt \/ Files!SarInit \/ Files!SarGetValue
         \/ Files!VoltageVBat =>
       \E d \in Devices : open' \in Files!Leaky(open, d) \cup Files!Brief(open, d) /\ Files!OnlyOpen
  BY DEF Files!GpioCall, Files!EnableInterrupt, Files!SarInit, Files!SarGetValue,
         Files!VoltageVBat, Devices
<1> QED
  BY <1>1, <1>2, <1>3, <1>4, <1>5, <1>6, <1>7, <1>8, <1>9, <1>10, <1>11, <1>12, <1>13, <1>14
  DEF Files!Next

(* Whatever else is opened and closed, a number that a driver keeps stands    *)
(* for the driver's own device (mi_input.c, mi_fb.c, SerialCommand.cpp,       *)
(* main.cpp), for any number of descriptors and of serial devices.             *)
THEOREM EachHasItsOwn == Files!Spec => []NumbersAreOwn
<1>1. Files!Init => FilesInv
  BY FilesInitially, PeripheralsAssumption
<1>2. FilesInv /\ [Files!Next]_(Files!vars) => FilesInv'
  BY FilesStep, PeripheralsAssumption
<1>3. FilesInv => NumbersAreOwn
  BY DEF FilesInv, NumbersAreOwn
<1> QED BY <1>1, <1>2, <1>3, PTL DEF Files!Spec

-----------------------------------------------------------------------------
(* The delays.                                                             *)
LEMMA Words ==
  /\ Word \in Nat \ {0} /\ Wide \in Nat /\ Wide >= Word
  /\ 2 * (Word \div 2) = Word
  /\ Lengths \subseteq Nat
BY PeripheralsAssumption

Half == Word \div 2

WaitInv ==
  /\ time \in Nat /\ begun \in Nat /\ wanted \in Nat
  /\ unit \in {"ms", "us"}
  /\ phase = "waiting" => begun <= time /\ stamp = Wait!GetTime0(unit, begun)

LEMMA Rounds ==
  ASSUME NEW t \in Nat
  PROVE  \E q \in Nat, r \in 0..(Word - 1) : t = q * Word + r /\ t % Word = r
<1>1. t % Word \in 0..(Word - 1) /\ t = (t \div Word) * Word + (t % Word) /\ t \div Word \in Nat
  BY SMT, Words
<1> QED BY <1>1

LEMMA RoundsApart ==
  ASSUME NEW p \in Nat, NEW q \in Nat
  PROVE  /\ p * Word \in Nat /\ q * Word \in Nat
         /\ p < q => q * Word >= p * Word + Word
         /\ (p + 1) * Word = p * Word + Word
         /\ p + 1 < q => q * Word >= p * Word + 2 * Word
<1>1. p * Word \in Nat /\ q * Word \in Nat
  BY Words
<1>2. ASSUME p < q PROVE q * Word >= p * Word + Word
  <2>1. PICK d \in Nat : q = p + 1 + d
    <3>1. q - p - 1 \in Nat /\ q = p + 1 + (q - p - 1)
      BY <1>2
    <3> QED BY <3>1
  <2>2. q * Word = p * Word + Word + d * Word /\ d * Word \in Nat
    BY <2>1, Words
  <2> QED BY <1>1, <2>2, Words
<1>3. ASSUME p + 1 < q PROVE q * Word >= p * Word + 2 * Word
  <2>1. PICK d \in Nat : q = p + 2 + d
    <3>1. q - p - 2 \in Nat /\ q = p + 2 + (q - p - 2)
      BY <1>3
    <3> QED BY <3>1
  <2>2. q * Word = p * Word + 2 * Word + d * Word /\ d * Word \in Nat
    BY <2>1, Words
  <2> QED BY <1>1, <2>2, Words
<1>4. (p + 1) * Word = p * Word + Word
  BY Words
<1> QED BY <1>1, <1>2, <1>3, <1>4

(* The half of a round lies between two times of which one is before it and   *)
(* one is not.                                                                *)
LEMMA HalfOfRound ==
  ASSUME NEW q \in Nat
  PROVE  q * Word + Half \in Nat /\ (q * Word + Half) % Word = Half
<1>1. Half \in 0..(Word - 1) /\ q * Word \in Nat
  BY Words DEF Half
<1>2. q * Word + Half \in Nat
  BY <1>1
<1>3. PICK p \in Nat, r \in 0..(Word - 1) :
        q * Word + Half = p * Word + r /\ (q * Word + Half) % Word = r
  BY <1>2, Rounds
<1>4. ~(p < q) /\ ~(q < p)
  BY <1>1, <1>3, RoundsApart, Words
<1>5. p = q
  BY <1>4
<1>6. r = Half
  BY <1>1, <1>3, <1>5
<1> QED BY <1>2, <1>3, <1>6

(* The counters tell at most the time that has gone by.                       *)
LEMMA Elapsed ==
  ASSUME NEW b \in Nat, NEW t \in Nat, b <= t, NEW u \in {"ms", "us"},
         Wait!Counter(u, b) # 0,
         u = "us" => ~ \E x \in (b + 1)..t : x % Word = Half
  PROVE  t >= b + Wait!Diff(u, Wait!Counter(u, t), Wait!GetTime0(u, b))
<1>0. Word \in Nat \ {0} /\ Wide \in Nat /\ Wide >= Word
  BY Words
<1>1. PICK p \in Nat, s \in 0..(Word - 1) : b = p * Word + s /\ b % Word = s
  BY Rounds
<1>2. PICK q \in Nat, r \in 0..(Word - 1) : t = q * Word + r /\ t % Word = r
  BY Rounds
<1>3. /\ p * Word \in Nat /\ q * Word \in Nat
      /\ p < q => q * Word >= p * Word + Word
      /\ q < p => p * Word >= q * Word + Word
      /\ (p + 1) * Word = p * Word + Word
      /\ p + 1 < q => q * Word >= p * Word + 2 * Word
  BY RoundsApart
<1>4. p <= q
  BY <1>0, <1>1, <1>2, <1>3
<1>5. Wait!GetTime0(u, b) = Wait!Counter(u, b)
  BY DEF Wait!GetTime0
<1>6. p = q => r >= s /\ t = b + (r - s)
  BY <1>1, <1>2, <1>3
<1>7. p # q => t >= b + Word + (r - s)
  BY <1>0, <1>1, <1>2, <1>3, <1>4
<1>8. CASE u = "ms"
  <2>1. Wait!Counter(u, b) = s /\ Wait!Counter(u, t) = r
    BY <1>1, <1>2, <1>8 DEF Wait!Counter
  <2>2. Wait!Diff(u, r, s) = IF r >= s THEN r - s ELSE Word - 1 - s + r
    BY <1>8 DEF Wait!Diff, Wait!Size
  <2> QED BY <1>0, <1>1, <1>2, <1>5, <1>6, <1>7, <2>1, <2>2
<1>9. CASE u = "us"
  <2>1. Half \in 0..(Word - 1)
    BY Words DEF Half
  <2>2. /\ Wait!Counter(u, b) = IF s < Half THEN s ELSE Wide - Word + s
        /\ Wait!Counter(u, t) = IF r < Half THEN r ELSE Wide - Word + r
    BY <1>1, <1>2, <1>9 DEF Wait!Counter, Wait!Signed, Half
  <2>3. \A now, then \in Nat : Wait!Diff(u, now, then) =
          IF now >= then THEN now - then ELSE Wide - 1 - then + now
    BY <1>9 DEF Wait!Diff, Wait!Size
  (* The half of a round was not between the two.                             *)
  <2>4. \A k \in Nat : LET x == k * Word + Half IN ~(b < x /\ x <= t)
    <3> SUFFICES ASSUME NEW k \in Nat, b < k * Word + Half, k * Word + Half <= t PROVE FALSE
      OBVIOUS
    <3>1. k * Word + Half \in Nat /\ (k * Word + Half) % Word = Half
      BY HalfOfRound
    <3> QED BY <1>9, <3>1
  <2>5. ~(b < p * Word + Half /\ p * Word + Half <= t)
    BY <2>4
  <2>6. ~(b < q * Word + Half /\ q * Word + Half <= t)
    BY <2>4
  <2>7. ~(b < p * Word + Word + Half /\ p * Word + Word + Half <= t)
    <3>1. p + 1 \in Nat
      OBVIOUS
    <3>2. ~(b < (p + 1) * Word + Half /\ (p + 1) * Word + Half <= t)
      BY <2>4, <3>1
    <3> QED BY <1>3, <3>2
  <2>8. CASE p = q
    <3>1. (s < Half) <=> (r < Half)
      BY <1>0, <1>1, <1>2, <1>3, <1>6, <2>1, <2>5, <2>8
    <3>2. Wait!Counter(u, b) \in Nat /\ Wait!Counter(u, t) = Wait!Counter(u, b) + (r - s)
          /\ Wait!Counter(u, t) \in Nat
      BY <1>0, <1>1, <1>2, <1>6, <2>1, <2>2, <2>8, <3>1
    <3> QED BY <1>5, <1>6, <2>3, <2>8, <3>2
  <2>9. CASE p # q
    <3>1. s >= Half
      BY <1>0, <1>1, <1>2, <1>3, <1>4, <2>1, <2>5, <2>9
    <3>2. r < Half
      BY <1>0, <1>1, <1>2, <1>3, <1>4, <2>1, <2>6, <2>9
    <3>3. Wait!Counter(u, b) = Wide - Word + s /\ Wait!Counter(u, t) = r
          /\ Wide - Word + s \in Nat
      BY <1>0, <2>1, <2>2, <3>1, <3>2
    <3>4. s > r
      BY <2>1, <3>1, <3>2
    <3>5. Wait!Diff(u, r, Wide - Word + s) = Wide - 1 - (Wide - Word + s) + r
      BY <1>0, <2>3, <3>3, <3>4
    <3>6. Wide - 1 - (Wide - Word + s) + r = Word - 1 - s + r
      BY <1>0
    <3> QED BY <1>0, <1>1, <1>2, <1>5, <1>7, <2>9, <3>3, <3>5, <3>6
  <2> QED BY <2>8, <2>9
<1> QED BY <1>8, <1>9

LEMMA WaitInvHolds == Wait!Spec => []WaitInv
<1>1. Wait!Init => WaitInv
  BY Words DEF Wait!Init, WaitInv
<1>2. WaitInv /\ [Wait!Next]_(Wait!vars) => WaitInv'
  <2> SUFFICES ASSUME WaitInv, [Wait!Next]_(Wait!vars) PROVE WaitInv'
    OBVIOUS
  <2>1. CASE Wait!Begin
    BY <2>1, Words DEF WaitInv, Wait!Begin
  <2>2. CASE Wait!Pass
    <3>1. time' \in Nat /\ time' >= time
      <4>1. PICK d \in 1 .. MaxJump : time + d <= MaxTime /\ time' = time + d
        BY <2>2 DEF Wait!Pass
      <4> QED BY <4>1 DEF WaitInv
    <3> QED BY <2>2, <3>1 DEF WaitInv, Wait!Pass
  <2>3. CASE Wait!Poll
    BY <2>3 DEF WaitInv, Wait!Poll
  <2>4. CASE UNCHANGED Wait!vars
    BY <2>4 DEF WaitInv, Wait!vars
  <2> QED BY <2>1, <2>2, <2>3, <2>4 DEF Wait!Next
<1> QED BY <1>1, <1>2, PTL DEF Wait!Spec

(* A delay of mi_sys.c lasts as long as was asked for, whatever the width of  *)
(* the counters, however long the thread is away between two polls, and over  *)
(* any number of wraps, but for the two cases of CutShort.                     *)
THEOREM DelaysAreKept == Wait!Spec => DelayKept
<1> DEFINE Act == phase = "waiting" /\ phase' = "over" /\ ~Wait!CutShort => time >= begun + wanted
<1>1. WaitInv /\ [Wait!Next]_(Wait!vars) => [Act]_(Wait!vars)
  <2> SUFFICES ASSUME WaitInv, Wait!Next, phase = "waiting", phase' = "over", ~Wait!CutShort
               PROVE  time >= begun + wanted
    OBVIOUS
  <2>1. /\ time \in Nat /\ begun \in Nat /\ wanted \in Nat /\ unit \in {"ms", "us"}
        /\ begun <= time /\ stamp = Wait!GetTime0(unit, begun)
    BY DEF WaitInv
  <2>2. Wait!Poll
    BY DEF Wait!Next, Wait!Begin, Wait!Pass
  <2>3. Wait!Diff(unit, Wait!Counter(unit, time), stamp) >= wanted
    BY <2>2 DEF Wait!Poll
  <2>4. /\ Wait!Counter(unit, begun) # 0
        /\ unit = "us" => ~ \E x \in (begun + 1)..time : x % Word = Half
    BY DEF Wait!CutShort, Half
  <2>5. time >= begun + Wait!Diff(unit, Wait!Counter(unit, time), stamp)
    BY <2>1, <2>4, Elapsed
  <2>6. \A u \in {"ms", "us"}, now, then \in Nat : Wait!Diff(u, now, then) \in Int
    BY Words DEF Wait!Diff, Wait!Size
  <2>7. \A u \in {"ms", "us"}, t \in Nat : Wait!Counter(u, t) \in Nat /\ Wait!GetTime0(u, t) \in Nat
    <3>1. \A t \in Nat : t % Word \in Nat
      BY Rounds
    <3> QED BY <3>1, Words DEF Wait!Counter, Wait!GetTime0, Wait!Signed
  <2>8. Wait!Diff(unit, Wait!Counter(unit, time), stamp) \in Int
    BY <2>1, <2>6, <2>7
  <2> QED BY <2>1, <2>3, <2>5, <2>8
<1>2. Wait!Spec => [][Act]_(Wait!vars)
  BY <1>1, WaitInvHolds, PTL DEF Wait!Spec
<1> QED BY <1>2 DEF DelayKept, Wait!DelayKept

-----------------------------------------------------------------------------
(* The calls that run shell commands.                                      *)
LEMMA PulsesRun == Pulses!Spec => []Pulses!RunsAsReported
<1>1. Pulses!Init => Pulses!RunsAsReported
  BY DEF Pulses!Init, Pulses!RunsAsReported
<1>2. Pulses!RunsAsReported /\ [Pulses!Next]_(Pulses!vars) => Pulses!RunsAsReported'
  <2> SUFFICES ASSUME pwm = reported, [Pulses!Next]_(Pulses!vars) PROVE pwm' = reported'
    BY DEF Pulses!RunsAsReported
  <2>1. ASSUME NEW c, NEW file, NEW value, Pulses!Sets(c, file, value) PROVE pwm' = reported'
    BY <2>1, Zenon DEF Pulses!Sets, Pulses!LaunchSystemCmd, Pulses!Reported
  <2>2. CASE UNCHANGED Pulses!vars
    BY <2>2 DEF Pulses!vars
  <2> QED
    BY <2>1, <2>2, Zenon
    DEF Pulses!Next, Pulses!RequestChannelNum, Pulses!SetPeriod, Pulses!SetDutyCycle,
        Pulses!SetPolarityNormal, Pulses!SetPolarityInversed, Pulses!SetChannelEnable
<1> QED BY <1>1, <1>2, PTL DEF Pulses!Spec

LEMMA LastBlue ==
  ASSUME NEW c \in Nat, Lights!Green(c) = 0
  PROVE  Lights!EscapedByte(c % 65536) = Lights!Blue(c)
<1>1. c = 256 * (c \div 256) + (c % 256) /\ c % 256 \in 0..255 /\ c \div 256 \in Nat
  OBVIOUS
<1> DEFINE e == c % 256
           g == c \div 256
<1>2. g = 256 * (g \div 256) + (g % 256) /\ g % 256 = 0 /\ g \div 256 \in Nat
  BY <1>1 DEF Lights!Green
<1> DEFINE a == g \div 256
<1>3. c = 65536 * a + e /\ e \in 0..255 /\ a \in Nat
  BY <1>1, <1>2
<1> HIDE DEF a, e, g
<1>4. c % 65536 = e
  BY <1>3
<1> QED BY <1>3, <1>4 DEF Lights!EscapedByte, Lights!Blue, e

LightsInv ==
  /\ asked \in [1 .. Lamps -> Nat]
  /\ Lights!ShowsColours

LEMMA LightsShow ==
  ASSUME Lamps \in Nat, Colours \subseteq Nat
  PROVE  Lights!Spec => []Lights!ShowsColours
<1>1. Lights!Init => LightsInv
  <2> SUFFICES ASSUME Lights!Init PROVE LightsInv
    OBVIOUS
  <2>1. asked \in [1 .. Lamps -> Nat] /\ \A k \in 1..Lamps : asked[k] = 0
    BY DEF Lights!Init
  <2>2. Lights!Red(0) = 0 /\ Lights!Green(0) = 0 /\ Lights!Blue(0) = 0
    BY DEF Lights!Red, Lights!Green, Lights!Blue
  <2>3. \A n \in 1 .. 3 * Lamps : shown[n] = 0
    BY DEF Lights!Init
  <2>4. ASSUME NEW k \in 1..Lamps
        PROVE  {3 * k - 2, 3 * k - 1, 3 * k} \subseteq 1 .. 3 * Lamps
    OBVIOUS
  <2> QED BY <2>1, <2>2, <2>3, <2>4 DEF LightsInv, Lights!ShowsColours
<1>2. LightsInv /\ [Lights!Next]_(Lights!vars) => LightsInv'
  <2> SUFFICES ASSUME LightsInv, [Lights!Next]_(Lights!vars) PROVE LightsInv'
    OBVIOUS
  <2>1. CASE UNCHANGED Lights!vars
    BY <2>1 DEF LightsInv, Lights!vars, Lights!ShowsColours
  <2>2. ASSUME NEW colours \in [1 .. Lamps -> Colours], shown' = Lights!Bytes(colours),
               asked' = colours
        PROVE  LightsInv'
    <3>1. asked' \in [1 .. Lamps -> Nat]
      BY <2>2
    <3>2. ASSUME NEW k \in 1 .. Lamps
          PROVE  /\ shown'[3 * k - 2] = Lights!Red(asked'[k])
                 /\ shown'[3 * k - 1] = Lights!Green(asked'[k])
                 /\ k < Lamps \/ Lights!Green(asked'[k]) = 0 => shown'[3 * k] = Lights!Blue(asked'[k])
      <4>0. colours[k] \in Nat
        <5>1. colours[k] \in Colours
          BY <2>2
        <5> QED BY <5>1
      <4>1. 3 * k - 2 \in 1 .. 3 * Lamps /\ (3 * k - 2 + 2) \div 3 = k /\ (3 * k - 2) % 3 = 1
        OBVIOUS
      <4>2. 3 * k - 1 \in 1 .. 3 * Lamps /\ (3 * k - 1 + 2) \div 3 = k /\ (3 * k - 1) % 3 = 2
        OBVIOUS
      <4>3. 3 * k \in 1 .. 3 * Lamps /\ (3 * k + 2) \div 3 = k /\ (3 * k) % 3 = 0
        OBVIOUS
      <4>4. /\ shown'[3 * k - 2] = Lights!Red(colours[k])
            /\ shown'[3 * k - 1] = Lights!Green(colours[k])
            /\ shown'[3 * k] = Lights!EscapedByte(Lights!WideMasked(k, colours[k]))
        BY <2>2, <4>1, <4>2, <4>3 DEF Lights!Bytes
      <4>5. CASE k < Lamps
        <5>1. Lights!WideMasked(k, colours[k]) = Lights!Blue(colours[k])
          BY <4>5 DEF Lights!WideMasked
        <5>2. \A n \in Nat : Lights!Blue(n) \in 0..255
          BY DEF Lights!Blue
        <5>3. \A n \in 0..255 : Lights!EscapedByte(n) = n
          BY DEF Lights!EscapedByte
        <5> QED BY <2>2, <4>0, <4>4, <5>1, <5>2, <5>3
      <4>6. CASE ~(k < Lamps)
        <5>1. k = Lamps
          BY <4>6
        <5>2. Lights!WideMasked(k, colours[k]) = colours[k] % 65536
          BY <5>1 DEF Lights!WideMasked
        <5>3. Lights!Green(colours[k]) = 0 =>
                Lights!EscapedByte(colours[k] % 65536) = Lights!Blue(colours[k])
          BY <4>0, LastBlue
        <5> QED BY <2>2, <4>4, <4>6, <5>2, <5>3
      <4> QED BY <4>5, <4>6
    <3> QED BY <3>1, <3>2 DEF LightsInv, Lights!ShowsColours
  <2> QED BY <2>1, <2>2 DEF Lights!Next, Lights!SetColor
<1>3. LightsInv => Lights!ShowsColours
  BY DEF LightsInv
<1> QED BY <1>1, <1>2, <1>3, PTL DEF Lights!Spec

(* What was named is the chip that is plugged in.                             *)
RadioInv ==
    /\ named \in BOOLEAN
    /\ named => _u8chipname = plugged
    /\ Radio!SpeaksToItsChip

LEMMA RadioSpeaks == Radio!Spec => []Radio!SpeaksToItsChip
<1>1. Radio!Init => RadioInv
  <2> SUFFICES ASSUME Radio!Init PROVE RadioInv
    OBVIOUS
  <2>1. named = FALSE /\ command.named = FALSE
    BY DEF Radio!Init, Radio!NoCommand
  <2> QED BY <2>1 DEF RadioInv, Radio!SpeaksToItsChip
<1>2. RadioInv /\ [Radio!Next]_(Radio!vars) => RadioInv'
  <2> SUFFICES ASSUME RadioInv, [Radio!Next]_(Radio!vars) PROVE RadioInv'
    OBVIOUS
  <2>1. CASE Radio!ClearBuffer
    BY <2>1 DEF RadioInv, Radio!ClearBuffer, Radio!SpeaksToItsChip
  <2>2. CASE Radio!GetWlanChipVersion
    <3>1. PICK found \in Radio!CmdAnswers :
            /\ _u8chipname' = found
            /\ buffer' = IF found = "" THEN buffer ELSE found
            /\ named' = (buffer = "" /\ buffer' # "")
            /\ UNCHANGED <<plugged, mode, command>>
      BY <2>2 DEF Radio!GetWlanChipVersion
    <3>2. named' \in BOOLEAN
      BY <3>1
    <3>3. named' => _u8chipname' = plugged'
      BY <3>1 DEF Radio!CmdAnswers
    <3> QED BY <3>1, <3>2, <3>3 DEF RadioInv, Radio!SpeaksToItsChip
  <2>3. CASE Radio!Replug
    BY <2>3 DEF RadioInv, Radio!Replug, Radio!SpeaksToItsChip
  <2>4. ASSUME NEW type, Radio!SetNetworkType(type) PROVE RadioInv'
    BY <2>4 DEF RadioInv, Radio!SetNetworkType, Radio!SpeaksToItsChip
  <2>5. ASSUME NEW n \in RadioChannels, Radio!SetChannel(n) PROVE RadioInv'
    <3>1. /\ command'.form = IF _u8chipname = "MT7601" THEN "MonitorChBw" ELSE "channel"
          /\ command'.chip = plugged
          /\ UNCHANGED <<plugged, _u8chipname, named>>
      BY <2>5 DEF Radio!SetChannel, Radio!Monitor
    <3>2. command'.named = named
      BY <2>5, Zenon DEF Radio!SetChannel
    <3> QED BY <3>1, <3>2 DEF RadioInv, Radio!SpeaksToItsChip, Radio!Monitor
  <2>6. CASE UNCHANGED Radio!vars
    BY <2>6 DEF RadioInv, Radio!vars, Radio!SpeaksToItsChip
  <2> QED BY <2>1, <2>2, <2>3, <2>4, <2>5, <2>6 DEF Radio!Next
<1>3. RadioInv => Radio!SpeaksToItsChip
  BY DEF RadioInv
<1> QED BY <1>1, <1>2, <1>3, PTL DEF Radio!Spec

-----------------------------------------------------------------------------
(* A channel belongs to one frequency.                                        *)
LEMMA ChannelOf ==
  ASSUME NEW f \in Nat
  PROVE  /\ Status!ChoseChannel(f) \in Nat
         /\ Status!ChoseChannel(f) # 0 =>
              f = IF Status!ChoseChannel(f) = 14 THEN 2484 ELSE 2407 + 5 * Status!ChoseChannel(f)
         /\ Status!ChoseChannel(0) = 0
<1> DEFINE Regular == {2412 + 5 * k : k \in 0 .. 12}
           c == Status!ChoseChannel(f)
<1>1. 2484 \notin Regular
  OBVIOUS
<1>2. f \in Regular => (f - 2407) \div 5 \in 1..13 /\ f = 2407 + 5 * ((f - 2407) \div 5)
  OBVIOUS
<1>3. /\ f \in Regular => c = (f - 2407) \div 5
      /\ f \notin Regular /\ f = 2484 => c = 14
      /\ f \notin Regular /\ f # 2484 => c = 0
  BY DEF Status!ChoseChannel
<1> HIDE DEF c, Regular
<1>4. c \in Nat /\ (c # 0 => f = IF c = 14 THEN 2484 ELSE 2407 + 5 * c)
  BY <1>1, <1>2, <1>3
<1>5. Status!ChoseChannel(0) = 0
  BY DEF Status!ChoseChannel
<1> QED BY <1>4, <1>5 DEF c

(* What a reader that nobody interferes with holds between its steps: the     *)
(* frequency is that of the access point it has read of.                       *)
Mine(t) ==
    /\ turn[t] = "signal" =>
         \/ signal = 0
         \/ statu[t].bssid \in Networks /\ signal = Frequency[statu[t].bssid]
    /\ turn[t] = "idle" /\ statu[t].channel # 0 =>
         /\ statu[t].bssid \in Networks
         /\ Frequency[statu[t].bssid]
              = IF statu[t].channel = 14 THEN 2484 ELSE 2407 + 5 * statu[t].channel

StatusInv ==
    /\ turn \in [Readers -> {"idle", "report", "script", "signal"}]
    /\ statu \in [Readers -> [bssid : Networks \cup {""}, channel : Int]]
    /\ joined \in Networks \cup {""} /\ bssid \in Networks \cup {""}
    /\ signal \in Nat
    /\ told \subseteq Readers
    /\ \A t \in told : Mine(t)

(* The same of t, when its own state and the file it reads stay.              *)
LEMMA MineStays ==
  ASSUME NEW t, Mine(t), turn'[t] = turn[t], statu'[t] = statu[t],
         turn[t] = "signal" => signal' = signal
  PROVE  Mine(t)'
BY DEF Mine

LEMMA WithChannel ==
  ASSUME NEW B, NEW a \in [bssid : B, channel : Int], NEW c \in Nat
  PROVE  /\ [a EXCEPT !.channel = c] \in [bssid : B, channel : Int]
         /\ [a EXCEPT !.channel = c].bssid = a.bssid /\ [a EXCEPT !.channel = c].channel = c
OBVIOUS

LEMMA StatusStep ==
  ASSUME Frequency \in [Networks -> Nat], StatusInv, [Status!Next]_(Status!vars)
  PROVE  StatusInv'
<1>t. /\ turn \in [Readers -> {"idle", "report", "script", "signal"}]
      /\ statu \in [Readers -> [bssid : Networks \cup {""}, channel : Int]]
      /\ joined \in Networks \cup {""} /\ bssid \in Networks \cup {""}
      /\ signal \in Nat
      /\ told \subseteq Readers
      /\ \A t \in told : Mine(t)
  BY DEF StatusInv
<1>1. ASSUME NEW t \in Readers, Status!Ask(t) PROVE StatusInv'
  <2>1. /\ turn' \in [Readers -> {"idle", "report", "script", "signal"}] /\ turn'[t] = "report"
        /\ told' = {t} /\ bssid' = joined /\ UNCHANGED <<joined, signal, statu>>
    BY <1>t, <1>1 DEF Status!Ask, Status!Goto
  <2>2. Mine(t)'
    BY <2>1 DEF Mine
  <2> QED BY <1>t, <2>1, <2>2 DEF StatusInv
<1>2. ASSUME NEW t \in Readers, Status!Fails(t), UNCHANGED <<joined, bssid, signal>>
      PROVE  StatusInv'
  <2>1. /\ turn' \in [Readers -> {"idle", "report", "script", "signal"}]
        /\ \A r \in Readers \ {t} : turn'[r] = turn[r]
        /\ told' = told \ {t} /\ UNCHANGED <<joined, bssid, signal, statu>>
    BY <1>t, <1>2 DEF Status!Fails, Status!Goto
  <2>2. ASSUME NEW r \in told' PROVE Mine(r)'
    <3>1. r \in told /\ r \in Readers \ {t}
      BY <1>t, <2>1, <2>2
    <3> QED BY <1>t, <2>1, <3>1, MineStays
  <2> QED BY <1>t, <2>1, <2>2 DEF StatusInv
<1>3. ASSUME NEW t \in Readers, Status!ReadReport(t) PROVE StatusInv'
  <2>1. CASE Status!Fails(t)
    BY <1>2, <1>3, <2>1 DEF Status!ReadReport
  <2>2. CASE ~Status!Fails(t)
    <3>1. /\ statu' = [statu EXCEPT ![t].bssid = IF bssid = "" THEN @ ELSE bssid]
          /\ turn' = [turn EXCEPT ![t] = "script"]
          /\ UNCHANGED <<joined, bssid, signal, told>>
      BY <1>3, <2>2 DEF Status!ReadReport, Status!Goto
    <3>2. /\ turn' \in [Readers -> {"idle", "report", "script", "signal"}] /\ turn'[t] = "script"
          /\ statu' \in [Readers -> [bssid : Networks \cup {""}, channel : Int]]
          /\ \A r \in Readers \ {t} : turn'[r] = turn[r] /\ statu'[r] = statu[r]
      BY <1>t, <3>1
    <3>3. ASSUME NEW r \in told' PROVE Mine(r)'
      <4>1. r \in told /\ r \in Readers
        BY <1>t, <3>1, <3>3
      <4>2. CASE r = t
        BY <3>2, <4>2 DEF Mine
      <4>3. CASE r # t
        BY <1>t, <3>1, <3>2, <4>1, <4>3, MineStays
      <4> QED BY <4>2, <4>3
    <3> QED BY <1>t, <3>1, <3>2, <3>3 DEF StatusInv
  <2> QED BY <2>1, <2>2
<1>4. ASSUME NEW t \in Readers, Status!AskSignal(t) PROVE StatusInv'
  <2>1. /\ signal' \in {0} \cup {Frequency[b] : b \in {statu[t].bssid} \cap Networks}
        /\ turn' = [turn EXCEPT ![t] = "signal"] /\ told' = told \cap {t}
        /\ UNCHANGED <<joined, bssid, statu>>
    BY <1>4 DEF Status!AskSignal, Status!Goto
  <2>2. /\ turn' \in [Readers -> {"idle", "report", "script", "signal"}] /\ turn'[t] = "signal"
    BY <1>t, <2>1
  <2>5. \/ signal' = 0
        \/ statu[t].bssid \in Networks /\ signal' = Frequency[statu[t].bssid]
    BY <2>1
  <2>6. signal' \in Nat
    BY <2>5
  <2>3. Mine(t)'
    BY <2>1, <2>2, <2>5 DEF Mine
  <2> QED BY <1>t, <2>1, <2>2, <2>3, <2>6 DEF StatusInv
<1>5. ASSUME NEW t \in Readers, Status!ReadSignal(t) PROVE StatusInv'
  <2>1. CASE Status!Fails(t)
    BY <1>2, <1>5, <2>1 DEF Status!ReadSignal
  <2>2. CASE ~Status!Fails(t)
    <3> DEFINE c == Status!ChoseChannel(signal)
    <3>1. /\ statu' = [statu EXCEPT ![t].channel = c] /\ turn' = [turn EXCEPT ![t] = "idle"]
          /\ turn[t] = "signal" /\ UNCHANGED <<joined, bssid, signal, told>>
      BY <1>5, <2>2 DEF Status!ReadSignal, Status!Goto
    <3>n. signal \in Nat
      BY <1>t
    <3>2. c \in Nat /\ (c # 0 => signal = IF c = 14 THEN 2484 ELSE 2407 + 5 * c)
      BY <3>n, ChannelOf
    <3>4. c # 0 => signal # 0
      BY <3>n, ChannelOf
    <3> HIDE DEF c
    <3>5. /\ turn' \in [Readers -> {"idle", "report", "script", "signal"}]
          /\ statu' \in [Readers -> [bssid : Networks \cup {""}, channel : Int]]
          /\ statu'[t].bssid = statu[t].bssid /\ statu'[t].channel = c /\ turn'[t] = "idle"
          /\ \A r \in Readers \ {t} : turn'[r] = turn[r] /\ statu'[r] = statu[r]
      <4> DEFINE Answers == [bssid : Networks \cup {""}, channel : Int]
                 new == [statu[t] EXCEPT !.channel = c]
      <4>1. statu \in [Readers -> Answers] /\ turn \in [Readers -> {"idle", "report", "script", "signal"}]
        BY <1>t
      <4>2. statu[t] \in Answers
        BY <1>t
      <4>3. new \in Answers /\ new.bssid = statu[t].bssid /\ new.channel = c
        <5>1. c \in Nat
          BY <3>2
        <5>2. statu[t] \in [bssid : Networks \cup {""}, channel : Int]
          BY <4>2
        <5>3. /\ [statu[t] EXCEPT !.channel = c] \in [bssid : Networks \cup {""}, channel : Int]
              /\ [statu[t] EXCEPT !.channel = c].bssid = statu[t].bssid
              /\ [statu[t] EXCEPT !.channel = c].channel = c
          BY ONLY <5>1, <5>2, WithChannel
        <5> QED BY <5>3
      <4>4. statu' = [statu EXCEPT ![t] = new]
        BY <3>1
      <4> HIDE DEF Answers, new
      <4>5. /\ statu' \in [Readers -> Answers] /\ statu'[t] = new
            /\ \A r \in Readers \ {t} : statu'[r] = statu[r]
        BY <4>1, <4>3, <4>4
      <4>6. /\ turn' \in [Readers -> {"idle", "report", "script", "signal"}] /\ turn'[t] = "idle"
            /\ \A r \in Readers \ {t} : turn'[r] = turn[r]
        BY <3>1, <4>1
      <4> QED BY <4>3, <4>5, <4>6 DEF Answers
    <3>6. ASSUME NEW r \in told' PROVE Mine(r)'
      <4>1. r \in told /\ r \in Readers
        BY <1>t, <3>1, <3>6
      <4>2. CASE r = t
        <5>1. signal = 0 \/ (statu[t].bssid \in Networks /\ signal = Frequency[statu[t].bssid])
          <6>1. Mine(t) /\ turn[t] = "signal"
            BY <1>t, <3>1, <4>1, <4>2
          <6> QED BY <6>1 DEF Mine
        <5>2. turn'[t] # "signal" /\ statu'[t].bssid = statu[t].bssid /\ statu'[t].channel = c
          BY <3>5
        <5>3. c # 0 => /\ statu[t].bssid \in Networks
                       /\ Frequency[statu[t].bssid] = IF c = 14 THEN 2484 ELSE 2407 + 5 * c
          BY <3>2, <3>4, <5>1
        <5> QED BY <4>2, <5>2, <5>3 DEF Mine
      <4>3. CASE r # t
        BY <1>t, <3>1, <3>5, <4>1, <4>3, MineStays
      <4> QED BY <4>2, <4>3
    <3> QED BY <1>t, <3>1, <3>5, <3>6 DEF StatusInv
  <2> QED BY <2>1, <2>2
<1>6. CASE Status!Roam \/ UNCHANGED Status!vars
  <2>1. joined' \in Networks \cup {""} /\ UNCHANGED <<bssid, signal, turn, statu, told>>
    BY <1>6, <1>t DEF Status!Roam, Status!vars
  <2>2. ASSUME NEW r \in told PROVE Mine(r)'
    BY <1>t, <2>1, MineStays
  <2> QED BY <1>t, <2>1, <2>2 DEF StatusInv
<1> QED BY <1>1, <1>3, <1>4, <1>5, <1>6 DEF Status!Next

LEMMA StatusNames ==
  ASSUME Frequency \in [Networks -> Nat]
  PROVE  Status!Spec => []Status!ChannelIsItsOwn
<1>1. Status!Init => StatusInv
  <2> SUFFICES ASSUME Status!Init PROVE StatusInv
    OBVIOUS
  <2>1. /\ turn \in [Readers -> {"idle", "report", "script", "signal"}]
    BY DEF Status!Init
  <2>2. statu \in [Readers -> [bssid : Networks \cup {""}, channel : Int]]
    <3> DEFINE none == [bssid |-> "", channel |-> 0]
    <3>1. none \in [bssid : Networks \cup {""}, channel : Int]
      OBVIOUS
    <3>2. statu = [t \in Readers |-> none]
      BY DEF Status!Init
    <3> HIDE DEF none
    <3> QED BY <3>1, <3>2
  <2> QED BY <2>1, <2>2 DEF Status!Init, StatusInv
<1>2. StatusInv /\ [Status!Next]_(Status!vars) => StatusInv'
  BY StatusStep
<1>3. StatusInv => Status!ChannelIsItsOwn
  <2> SUFFICES ASSUME StatusInv PROVE Status!ChannelIsItsOwn
    OBVIOUS
  <2>1. \A t \in told : Mine(t)
    BY DEF StatusInv
  <2> QED BY <2>1 DEF Mine, Status!ChannelIsItsOwn
<1> QED BY <1>1, <1>2, <1>3, PTL DEF Status!Spec

-----------------------------------------------------------------------------
(* What the calls that run shell commands report is so (mi_pwm.c,             *)
(* mi_rgbled.c, mi_wlan.c), each part at its own pace, for any channels, lamps, *)
(* colours, chips, access points and threads that ask, and any order of calls. *)
THEOREM CommandsAreTrue ==
  Pulses!Spec /\ Lights!Spec /\ Radio!Spec /\ Status!Spec => []CommandsTakeEffect
<1>1. (/\ Pulses!RunsAsReported /\ Lights!ShowsColours
       /\ Radio!SpeaksToItsChip /\ Status!ChannelIsItsOwn) => CommandsTakeEffect
  BY DEF CommandsTakeEffect
<1>2. Lamps \in Nat /\ Colours \subseteq Nat /\ Frequency \in [Networks -> Nat]
  BY PeripheralsAssumption
<1>3. (Lights!Spec => []Lights!ShowsColours) /\ (Status!Spec => []Status!ChannelIsItsOwn)
  BY <1>2, LightsShow, StatusNames
<1> QED BY <1>1, <1>3, PulsesRun, RadioSpeaks, PTL

-----------------------------------------------------------------------------
(* The wireless scan: what the list says of a cell.                        *)

\* The cells of a report before the i-th that tell their name.
Told(la, i) == Cardinality({j \in 1..Len(la) : j < i /\ ~la[j].hidden})

\* The lines of an information element, and what has been read before a line.
InElements == {"IE", "Group", "PSK"}
Tags == InElements \cup {"Cell", "ESSID", "Signal", "key", "Mode"}
NameRead(p) ==
  p.tag \in InElements \cup {"Mode"} \/ (p.first /\ p.tag \in {"Signal", "key"})
SignalRead(p) ==
  p.tag \in InElements \cup {"Mode", "key"} \/ (~p.first /\ p.tag = "ESSID")
KeyRead(p) == p.tag = "Mode" \/ (~p.first /\ p.tag = "ESSID")
Passed(c, p) == c.hidden /\ NameRead(p)

\* An entry of which no element has been read, though of a hidden cell the rest.
Soft(e) == e.encrypt = "NONE" /\ e.psk = FALSE /\ e.security \in {"NONE", "UNKNOWTYPE"}

\* An entry with the key line read, with its first known element, and after
\* the first n elements.
Secured(e, c, s) == e.security = IF c.key THEN s ELSE "NONE"
Base(e, c) == Secured(e, c, "UNKNOWTYPE") /\ e.encrypt = "NONE" /\ e.psk = FALSE
Known(e, c, m) ==
  Scan!FirstKnown(c, m) /\ Secured(e, c, c.ies[m]) /\ e.encrypt = c.groups[m]
Learned(e, c, n, f) ==
  \/ f = FALSE /\ (\A j \in 1..n : c.ies[j] = "other") /\ Base(e, c)
  \/ f = TRUE /\ e.psk = c.psk /\ \E m \in 1..n : Known(e, c, m)

\* The entry of the cell that is being read.
Current(e, c, p, f) ==
  /\ NameRead(p) => e.ssid = "name" /\ e.mac = p.cell
  /\ SignalRead(p) => e.signal = p.cell
  /\ p.tag \in InElements => e.mode = TRUE
  /\ p.tag \notin InElements => f = FALSE
  /\ KeyRead(p) => Base(e, c)
  /\ p.tag = "IE" => Learned(e, c, p.elem - 1, f)
  /\ p.tag = "Group" =>
       \/ /\ f = FALSE /\ Scan!FirstKnown(c, p.elem) /\ Secured(e, c, c.ies[p.elem])
          /\ e.encrypt = "NONE" /\ e.psk = FALSE
       \/ f = TRUE /\ e.psk = c.psk /\ \E m \in 1..(p.elem - 1) : Known(e, c, m)
  /\ p.tag = "PSK" => c.psk = TRUE /\ f = TRUE /\ \E m \in 1..p.elem : Known(e, c, m)

\* While the lines are read: where the pipe and the parser stand, the cells
\* that have been read, the one that is being read, and the entries to come.
Line(la, p) ==
  /\ p.cell \in 1..(Len(la) + 1)
  /\ p.cell > Len(la) => p.tag = "Cell"
  /\ p.tag \in InElements => p.elem \in 1..Len(la[p.cell].ies)
  /\ p.tag \in {"Group", "PSK"} => la[p.cell].ies[p.elem] # "other"
Place(la, p, a) ==
  /\ p.tag = "Cell" => a.idx = Told(la, p.cell) - 1
  /\ p.tag # "Cell" /\ Passed(la[p.cell], p) => a.idx = Told(la, p.cell) - 1 /\ a.cell = FALSE
  /\ p.tag # "Cell" /\ ~Passed(la[p.cell], p) =>
       a.idx = Told(la, p.cell) /\ a.cell = TRUE /\ a.mac = p.cell
Reading(la, p, l, a) ==
  p.tag # "Cell" /\ ~la[p.cell].hidden =>
    Current(l[Told(la, p.cell)], la[p.cell], p, a.firstIE)
Done(la, i, l) ==
  \A j \in 1..Len(la) : j < i /\ ~la[j].hidden => Scan!ListedAs(l[Told(la, j)], j, la[j])
ToCome(la, i, l) == \A n \in 0..(MaxCells - 1) : n > Told(la, i) => Soft(l[n])
Pending(la, p, l) ==
  Told(la, p.cell) < MaxCells /\ (p.tag \in InElements => la[p.cell].hidden) => Soft(l[Told(la, p.cell)])
Midway(la, p, l, a) ==
  /\ Line(la, p) /\ Place(la, p, a) /\ Reading(la, p, l, a)
  /\ Done(la, p.cell, l) /\ ToCome(la, p.cell, l) /\ Pending(la, p, l)

Surveys == {la \in Seq(Cells) : Len(la) <= MaxCells}
Positions == [cell : Nat, tag : Tags, elem : Nat, first : BOOLEAN]
\* STRING: no prover takes a literal for one of its members by itself.
Texts == STRING \cup {"", "name", "NONE", "UNKNOWTYPE"}
Entries == [ssid : Texts, mac : Nat, signal : Nat, mode : BOOLEAN,
            security : Texts, encrypt : Texts, psk : BOOLEAN]
Lists == [0..(MaxCells - 1) -> Entries]
Parsers == [idx : Int, cell : BOOLEAN, firstIE : BOOLEAN, mac : Nat]

ScanTyped ==
  /\ latest \in Surveys /\ pipe \in Positions /\ scanning \in BOOLEAN
  /\ list \in Lists /\ number \in Int /\ at \in Parsers

ScanRight ==
  /\ ScanTyped
  /\ scanning => number = 0 /\ Midway(latest, pipe, list, at)
  /\ Scan!ListedAsReported

-----------------------------------------------------------------------------
LEMMA CellTyped ==
  ASSUME NEW la \in Surveys, NEW i \in 1..Len(la)
  PROVE  /\ la[i].hidden \in BOOLEAN /\ la[i].key \in BOOLEAN /\ la[i].psk \in BOOLEAN
         /\ la[i].ies \in Seq(STRING) /\ la[i].groups \in Seq(STRING)
         /\ Len(la[i].ies) \in Nat /\ Len(la[i].groups) = Len(la[i].ies)
         /\ Len(la) \in Nat
         /\ i \in Nat
<1>1. la \in Seq(Cells) /\ Len(la) \in Nat
  BY DEF Surveys
<1>2. la[i] \in Cells
  BY <1>1
<1> DEFINE c == la[i]
<1>3. c \in [hidden : BOOLEAN, key : BOOLEAN, psk : BOOLEAN,
             ies : Seq(STRING), groups : Seq(STRING)] /\ Len(c.groups) = Len(c.ies)
  BY <1>2, PeripheralsAssumption
<1> HIDE DEF c
<1>4. /\ c.hidden \in BOOLEAN /\ c.key \in BOOLEAN /\ c.psk \in BOOLEAN
      /\ c.ies \in Seq(STRING) /\ c.groups \in Seq(STRING) /\ Len(c.ies) \in Nat
  BY <1>3
<1> QED BY <1>1, <1>3, <1>4 DEF c

\* The places: how many cells before the i-th tell their name.
LEMMA ToldIsCounted ==
  ASSUME NEW la \in Surveys, NEW i \in 1..(Len(la) + 1)
  PROVE  Told(la, i) \in Nat /\ Told(la, i) <= i - 1
<1> DEFINE S == {j \in 1..Len(la) : j < i /\ ~la[j].hidden}
<1>1. Len(la) \in Nat
  BY DEF Surveys
<1>2. S \subseteq 1..(i - 1)
  BY <1>1
<1>3. IsFiniteSet(1..(i - 1)) /\ Cardinality(1..(i - 1)) = i - 1
  <2>1. 1 \in Int /\ i - 1 \in Int /\ i >= 1
    BY <1>1
  <2>2. /\ IsFiniteSet(1..(i - 1))
        /\ Cardinality(1..(i - 1)) = IF 1 > i - 1 THEN 0 ELSE (i - 1) - 1 + 1
    BY <2>1, FS_Interval
  <2> QED BY <2>1, <2>2
<1>4. IsFiniteSet(S) /\ Cardinality(S) <= Cardinality(1..(i - 1))
  BY <1>2, <1>3, FS_Subset
<1>5. Cardinality(S) \in Nat
  BY <1>4, FS_CardinalityType
<1> QED BY <1>3, <1>4, <1>5 DEF Told

LEMMA ToldFirst ==
  ASSUME NEW la \in Surveys
  PROVE  Told(la, 1) = 0
<1>1. Len(la) \in Nat
  BY DEF Surveys
<1>2. 1 \in 1..(Len(la) + 1)
  BY <1>1
<1> QED BY <1>2, ToldIsCounted

LEMMA ToldNext ==
  ASSUME NEW la \in Surveys, NEW i \in 1..Len(la)
  PROVE  /\ la[i].hidden => Told(la, i + 1) = Told(la, i)
         /\ ~la[i].hidden => Told(la, i + 1) = Told(la, i) + 1
<1> DEFINE S == {j \in 1..Len(la) : j < i /\ ~la[j].hidden}
           T == {j \in 1..Len(la) : j < i + 1 /\ ~la[j].hidden}
<1>1. Len(la) \in Nat
  BY DEF Surveys
<1>2. ASSUME la[i].hidden PROVE Told(la, i + 1) = Told(la, i)
  <2>1. S = T
    BY <1>1, <1>2
  <2> QED BY <2>1 DEF Told
<1>3. ASSUME ~la[i].hidden PROVE Told(la, i + 1) = Told(la, i) + 1
  <2>1. T = S \cup {i} /\ i \notin S
    BY <1>1, <1>3
  <2>2. IsFiniteSet(S)
    <3>1. S \subseteq 1..Len(la)
      OBVIOUS
    <3>2. IsFiniteSet(1..Len(la))
      BY <1>1, FS_Interval
    <3> QED BY <3>1, <3>2, FS_Subset
  <2>3. Cardinality(S \cup {i}) = Cardinality(S) + 1
    BY <2>1, <2>2, FS_AddElement
  <2> QED BY <2>1, <2>3 DEF Told
<1> QED BY <1>2, <1>3

LEMMA ToldGrows ==
  ASSUME NEW la \in Surveys, NEW i \in 1..(Len(la) + 1), NEW j \in 1..Len(la),
         j < i, ~la[j].hidden
  PROVE  Told(la, j) < Told(la, i)
<1> DEFINE S == {n \in 1..Len(la) : n < j + 1 /\ ~la[n].hidden}
           T == {n \in 1..Len(la) : n < i /\ ~la[n].hidden}
<1>1. Len(la) \in Nat
  BY DEF Surveys
<1>2. S \subseteq T
  BY <1>1
<1>3. IsFiniteSet(T)
  <2>1. T \subseteq 1..Len(la)
    OBVIOUS
  <2>2. IsFiniteSet(1..Len(la))
    BY <1>1, FS_Interval
  <2> QED BY <2>1, <2>2, FS_Subset
<1>4. Cardinality(S) <= Cardinality(T)
  BY <1>2, <1>3, FS_Subset
<1>5. Told(la, j + 1) <= Told(la, i)
  BY <1>4 DEF Told
<1>6. Told(la, j + 1) = Told(la, j) + 1
  BY ToldNext
<1>7. Told(la, j) \in Nat /\ Told(la, i) \in Nat
  <2>1. j \in 1..(Len(la) + 1)
    BY <1>1
  <2> QED BY <2>1, ToldIsCounted
<1> QED BY <1>5, <1>6, <1>7

-----------------------------------------------------------------------------
(* A line of a cell that is being read.                                    *)
Amid(la, p, l, a) ==
  /\ la \in Surveys /\ p \in Positions /\ l \in Lists /\ a \in Parsers
  /\ p.cell \in 1..Len(la) /\ Midway(la, p, l, a)

\* The lists differ at most in the entry n.
OnlyAt(n, l, m) == \A k \in 0..(MaxCells - 1) : k # n => m[k] = l[k]

LEMMA AmidPlace ==
  ASSUME NEW la, NEW p, NEW l, NEW a, Amid(la, p, l, a)
  PROVE  /\ Told(la, p.cell) \in 0..(MaxCells - 1)
         /\ l[Told(la, p.cell)] \in Entries
         /\ p.cell \in Nat /\ p.cell >= 1 /\ Len(la) \in Nat
         /\ la[p.cell].hidden \in BOOLEAN
<1>1. Len(la) \in Nat /\ Len(la) <= MaxCells /\ MaxCells \in Nat /\ p.cell \in 1..Len(la)
  BY PeripheralsAssumption DEF Amid, Surveys
<1>2. Told(la, p.cell) \in Nat /\ Told(la, p.cell) <= p.cell - 1
  <2>1. la \in Surveys /\ p.cell \in 1..(Len(la) + 1)
    BY <1>1 DEF Amid
  <2> QED BY <2>1, ToldIsCounted
<1>3. Told(la, p.cell) \in 0..(MaxCells - 1)
  BY <1>1, <1>2
<1>4. l[Told(la, p.cell)] \in Entries
  BY <1>3 DEF Amid, Lists
<1>5. la[p.cell].hidden \in BOOLEAN
  BY <1>1, CellTyped DEF Amid
<1> QED BY <1>1, <1>3, <1>4, <1>5

LEMMA StaysInCell ==
  ASSUME NEW la, NEW p, NEW l, NEW a, Amid(la, p, l, a), NEW q, NEW m, NEW b,
         q.cell = p.cell, OnlyAt(Told(la, p.cell), l, m),
         Line(la, q), Place(la, q, b), Reading(la, q, m, b), Pending(la, q, m)
  PROVE  Midway(la, q, m, b)
<1> DEFINE i == p.cell
           x == Told(la, i)
<1>0. /\ x \in 0..(MaxCells - 1) /\ MaxCells \in Nat /\ i \in Nat /\ i >= 1 /\ Len(la) \in Nat
      /\ la \in Surveys /\ i \in 1..(Len(la) + 1) /\ i \in 1..Len(la)
  <2>1. i \in 1..Len(la) /\ la \in Surveys
    BY DEF Amid
  <2>2. i \in 1..(Len(la) + 1)
    BY <2>1, AmidPlace
  <2> QED BY <2>1, <2>2, AmidPlace, PeripheralsAssumption
<1>1. Done(la, i, l) /\ ToCome(la, i, l)
  BY DEF Amid, Midway
<1>2. Done(la, i, m)
  <2> SUFFICES ASSUME NEW j \in 1..Len(la), j < i, ~la[j].hidden
               PROVE  Scan!ListedAs(m[Told(la, j)], j, la[j])
    BY DEF Done
  <2>1. Told(la, j) < x
    BY <1>0, ToldGrows
  <2>2. Told(la, j) \in Nat
    <3>1. j \in 1..(Len(la) + 1)
      BY <1>0
    <3> QED BY <3>1, <1>0, ToldIsCounted
  <2>3. Told(la, j) \in 0..(MaxCells - 1) /\ Told(la, j) # x
    BY <2>1, <2>2, <1>0
  <2>4. m[Told(la, j)] = l[Told(la, j)]
    BY <2>3 DEF OnlyAt
  <2> QED BY <2>4, <1>1 DEF Done
<1>3. ToCome(la, i, m)
  BY <1>0, <1>1 DEF ToCome, OnlyAt
<1> QED BY <1>2, <1>3 DEF Midway

LEMMA LeavesCell ==
  ASSUME NEW la, NEW p, NEW l, NEW a, Amid(la, p, l, a), NEW q, NEW m, NEW b,
         q.cell = p.cell + 1, q.tag = "Cell", OnlyAt(Told(la, p.cell), l, m),
         la[p.cell].hidden =>
           b.idx = Told(la, p.cell) - 1 /\ Soft(m[Told(la, p.cell)]),
         ~la[p.cell].hidden =>
           /\ b.idx = Told(la, p.cell)
           /\ Scan!ListedAs(m[Told(la, p.cell)], p.cell, la[p.cell])
  PROVE  Midway(la, q, m, b)
<1> DEFINE i == p.cell
           x == Told(la, i)
<1>0. /\ x \in 0..(MaxCells - 1) /\ MaxCells \in Nat /\ i \in Nat /\ i >= 1 /\ Len(la) \in Nat
      /\ la \in Surveys /\ i \in 1..(Len(la) + 1) /\ i \in 1..Len(la) /\ i + 1 \in 1..(Len(la) + 1)
  <2>1. i \in 1..Len(la) /\ la \in Surveys
    BY DEF Amid
  <2>2. i \in 1..(Len(la) + 1) /\ i + 1 \in 1..(Len(la) + 1)
    BY <2>1, AmidPlace
  <2> QED BY <2>1, <2>2, AmidPlace, PeripheralsAssumption
<1>1. Done(la, i, l) /\ ToCome(la, i, l)
  BY DEF Amid, Midway
<1>2. /\ la[i].hidden => Told(la, i + 1) = x
      /\ ~la[i].hidden => Told(la, i + 1) = x + 1
  BY <1>0, ToldNext
<1>3. Line(la, q)
  BY <1>0 DEF Line, InElements
<1>4. Place(la, q, b)
  BY <1>0, <1>2 DEF Place
<1>5. Reading(la, q, m, b)
  BY DEF Reading
<1>6. Done(la, i + 1, m)
  <2> SUFFICES ASSUME NEW j \in 1..Len(la), j < i + 1, ~la[j].hidden
               PROVE  Scan!ListedAs(m[Told(la, j)], j, la[j])
    BY DEF Done
  <2>1. ASSUME j = i PROVE Scan!ListedAs(m[Told(la, j)], j, la[j])
    BY <2>1
  <2>2. ASSUME j < i PROVE Scan!ListedAs(m[Told(la, j)], j, la[j])
    <3>1. Told(la, j) < x
      BY <1>0, <2>2, ToldGrows
    <3>2. Told(la, j) \in Nat
      <4>1. j \in 1..(Len(la) + 1)
        BY <1>0
      <4> QED BY <4>1, <1>0, ToldIsCounted
    <3>3. Told(la, j) \in 0..(MaxCells - 1) /\ Told(la, j) # x
      BY <3>1, <3>2, <1>0
    <3>4. m[Told(la, j)] = l[Told(la, j)]
      BY <3>3 DEF OnlyAt
    <3> QED BY <3>4, <1>1, <2>2 DEF Done
  <2> QED BY <1>0, <2>1, <2>2
<1>7. \A n \in 0..(MaxCells - 1) : n > x => Soft(m[n])
  BY <1>0, <1>1 DEF ToCome, OnlyAt
<1>8. ToCome(la, i + 1, m)
  BY <1>0, <1>2, <1>7 DEF ToCome
<1>9. Pending(la, q, m)
  <2>1. ASSUME la[i].hidden PROVE Soft(m[Told(la, i + 1)])
    BY <1>2, <2>1
  <2>2. ASSUME ~la[i].hidden, Told(la, i + 1) < MaxCells PROVE Soft(m[Told(la, i + 1)])
    BY <1>0, <1>2, <1>7, <2>2
  <2> QED BY <2>1, <2>2 DEF Pending
<1> QED BY <1>3, <1>4, <1>5, <1>6, <1>8, <1>9 DEF Midway

(* In the cell the parser writes to the place of the cell; outside of it    *)
(* the cell has turned out to be hidden.                                    *)
LEMMA InCellPlace ==
  ASSUME NEW la, NEW p, NEW l, NEW a, Amid(la, p, l, a), p.tag # "Cell"
  PROVE  /\ a.cell /\ a.idx >= 0 =>
              /\ ~Passed(la[p.cell], p) /\ a.idx = Told(la, p.cell)
              /\ a.mac = p.cell /\ a.cell = TRUE
         /\ ~(a.cell /\ a.idx >= 0) =>
              /\ Passed(la[p.cell], p) /\ a.idx = Told(la, p.cell) - 1
              /\ a.cell = FALSE
<1>1. Place(la, p, a)
  BY DEF Amid, Midway
<1>2. Told(la, p.cell) \in 0..(MaxCells - 1) /\ MaxCells \in Nat
  BY AmidPlace, PeripheralsAssumption
<1>3. a.cell \in BOOLEAN
  BY DEF Amid, Parsers
<1> QED BY <1>1, <1>2, <1>3 DEF Place

-----------------------------------------------------------------------------
(* Where the pipe goes when k - 1 elements have been read.                 *)
ToElement(la, p, k) ==
  IF k <= Len(la[p.cell].ies) THEN [p EXCEPT !.tag = "IE", !.elem = k]
  ELSE Scan!Beginning(p.cell + 1, p.first)

Named(e, i) == e.ssid = "name" /\ e.mac = i /\ e.signal = i /\ e.mode = TRUE

LEMMA AllLearned ==
  ASSUME NEW la \in Surveys, NEW i \in 1..Len(la), NEW e, NEW f,
         Named(e, i), Learned(e, la[i], Len(la[i].ies), f)
  PROVE  Scan!ListedAs(e, i, la[i])
<1> DEFINE c == la[i]
<1>1. CASE f = FALSE /\ (\A j \in 1..Len(c.ies) : c.ies[j] = "other") /\ Base(e, c)
  BY <1>1 DEF Named, Base, Secured, Scan!ListedAs, Scan!Unknown
<1>2. CASE f = TRUE /\ e.psk = c.psk /\ \E k \in 1..Len(c.ies) : Known(e, c, k)
  BY <1>2 DEF Named, Known, Secured, Scan!ListedAs
<1> QED BY <1>1, <1>2 DEF Learned

LEMMA ElementFollows ==
  ASSUME NEW la, NEW p, NEW l, NEW a, Amid(la, p, l, a), NEW k, NEW m, NEW b,
         k \in 1..(Len(la[p.cell].ies) + 1), OnlyAt(Told(la, p.cell), l, m),
         la[p.cell].hidden =>
           /\ b.idx = Told(la, p.cell) - 1 /\ b.cell = FALSE
           /\ Soft(m[Told(la, p.cell)]),
         ~la[p.cell].hidden =>
           /\ b.idx = Told(la, p.cell) /\ b.cell = TRUE /\ b.mac = p.cell
           /\ Named(m[Told(la, p.cell)], p.cell)
           /\ Learned(m[Told(la, p.cell)], la[p.cell], k - 1, b.firstIE)
  PROVE  Midway(la, ToElement(la, p, k), m, b)
<1> DEFINE c == la[p.cell]
           q == ToElement(la, p, k)
           x == Told(la, p.cell)
<1>0. /\ la \in Surveys /\ p.cell \in 1..Len(la) /\ p \in Positions
      /\ Len(c.ies) \in Nat /\ Len(la) \in Nat /\ p.cell \in Nat
  <2>1. la \in Surveys /\ p.cell \in 1..Len(la) /\ p \in Positions
    BY DEF Amid
  <2> QED BY <2>1, CellTyped
<1>1. ASSUME k <= Len(c.ies) PROVE Midway(la, q, m, b)
  <2>1. /\ q.cell = p.cell /\ q.tag = "IE" /\ q.elem = k /\ k \in 1..Len(c.ies)
    BY <1>0, <1>1 DEF ToElement, Positions
  <2> HIDE DEF q
  <2>2. Line(la, q)
    BY <1>0, <2>1 DEF Line, InElements
  <2>3. Place(la, q, b)
    BY <2>1 DEF Place, Passed, NameRead, InElements
  <2>4. Reading(la, q, m, b)
    BY <2>1 DEF Reading, Current, NameRead, SignalRead, KeyRead, Named, InElements
  <2>5. Pending(la, q, m)
    BY <2>1 DEF Pending, InElements
  <2> QED BY <2>1, <2>2, <2>3, <2>4, <2>5, StaysInCell
<1>2. ASSUME ~(k <= Len(c.ies)) PROVE Midway(la, q, m, b)
  <2>1. q.cell = p.cell + 1 /\ q.tag = "Cell"
    BY <1>2 DEF ToElement, Scan!Beginning
  <2>2. k - 1 = Len(c.ies)
    BY <1>0, <1>2
  <2> HIDE DEF q
  <2>3. ~c.hidden => Scan!ListedAs(m[x], p.cell, c)
    BY <1>0, <2>2, AllLearned
  <2> QED BY <2>1, <2>3, LeavesCell
<1> QED BY <1>1, <1>2

(* A line of a cell that has turned out to be hidden.                      *)
LEMMA PassedStays ==
  ASSUME NEW la, NEW p, NEW l, NEW a, Amid(la, p, l, a), p.tag # "Cell",
         Passed(la[p.cell], p), NEW q, q.cell = p.cell, q.tag # "Cell", NameRead(q),
         Line(la, q)
  PROVE  Midway(la, q, l, a)
<1>1. Place(la, q, a)
  BY DEF Amid, Midway, Place, Passed
<1>2. Reading(la, q, l, a)
  BY DEF Reading, Passed
<1>3. Pending(la, q, l)
  BY DEF Amid, Midway, Pending, Passed
<1>4. OnlyAt(Told(la, p.cell), l, l)
  BY DEF OnlyAt
<1> QED BY <1>1, <1>2, <1>3, <1>4, StaysInCell

LEMMA PassedElement ==
  ASSUME NEW la, NEW p, NEW l, NEW a, Amid(la, p, l, a), p.tag # "Cell",
         Passed(la[p.cell], p), NEW k, k \in 1..(Len(la[p.cell].ies) + 1)
  PROVE  Midway(la, ToElement(la, p, k), l, a)
<1>1. OnlyAt(Told(la, p.cell), l, l)
  BY DEF OnlyAt
<1>2. a.idx = Told(la, p.cell) - 1 /\ a.cell = FALSE /\ la[p.cell].hidden
  BY DEF Amid, Midway, Place, Passed
<1>3. Soft(l[Told(la, p.cell)])
  <2>1. Told(la, p.cell) < MaxCells
    BY AmidPlace, PeripheralsAssumption
  <2> QED BY <1>2, <2>1 DEF Amid, Midway, Pending
<1> QED BY <1>1, <1>2, <1>3, ElementFollows

-----------------------------------------------------------------------------
(* Line by line.                                                           *)
LEMMA CellLineRight ==
  ASSUME NEW la, NEW p, NEW l, NEW a, Amid(la, p, l, a), p.tag = "Cell", NEW q, NEW b,
         q = [p EXCEPT !.tag = IF p.first THEN "ESSID" ELSE "Signal"],
         b = [idx |-> a.idx + 1, cell |-> TRUE, firstIE |-> FALSE, mac |-> p.cell]
  PROVE  Midway(la, q, l, b)
<1> DEFINE x == Told(la, p.cell)
<1>1. /\ q.cell = p.cell /\ q.tag \in {"ESSID", "Signal"} /\ q.first = p.first
      /\ p.first => q.tag = "ESSID"
      /\ ~p.first => q.tag = "Signal"
  BY DEF Amid, Positions
<1>2. /\ b.idx = a.idx + 1 /\ b.cell = TRUE /\ b.firstIE = FALSE /\ b.mac = p.cell
  OBVIOUS
<1>3. ~NameRead(q) /\ ~SignalRead(q) /\ ~KeyRead(q)
  BY <1>1 DEF NameRead, SignalRead, KeyRead, InElements
<1>4. Line(la, q)
  BY <1>1, AmidPlace DEF Line, InElements, Amid
<1>5. b.idx = x
  <2>1. a.idx = x - 1
    BY DEF Amid, Midway, Place
  <2>2. x \in Nat
    BY AmidPlace, PeripheralsAssumption
  <2> QED BY <1>2, <2>1, <2>2
<1>6. Place(la, q, b)
  BY <1>1, <1>2, <1>3, <1>5 DEF Place, Passed
<1>7. Reading(la, q, l, b)
  BY <1>1, <1>2, <1>3 DEF Reading, Current, InElements
<1>8. Pending(la, q, l)
  BY <1>1 DEF Amid, Midway, Pending, InElements
<1>9. OnlyAt(x, l, l)
  BY DEF OnlyAt
<1> QED BY <1>1, <1>4, <1>6, <1>7, <1>8, <1>9, StaysInCell

LEMMA EntryWritten ==
  ASSUME NEW l \in Lists, NEW x \in 0..(MaxCells - 1), NEW e
  PROVE  /\ OnlyAt(x, l, [l EXCEPT ![x] = e])
         /\ [l EXCEPT ![x] = e][x] = e
         /\ e \in Entries => [l EXCEPT ![x] = e] \in Lists
BY DEF Lists, OnlyAt

\* A line of the cell: its entry is written, and the pipe goes on in the cell.
LEMMA CellStays ==
  ASSUME NEW la, NEW p, NEW l, NEW a, Amid(la, p, l, a), p.tag # "Cell",
         a.cell, a.idx >= 0, NEW q, NEW e, NEW b,
         q.cell = p.cell, q.tag # "Cell", Line(la, q), ~Passed(la[p.cell], q),
         b.idx = a.idx, b.cell = a.cell, b.mac = a.mac,
         ~la[p.cell].hidden => Current(e, la[p.cell], q, b.firstIE),
         q.tag \notin InElements => Soft(e)
  PROVE  Midway(la, q, [l EXCEPT ![a.idx] = e], b)
<1> DEFINE x == Told(la, p.cell)
           m == [l EXCEPT ![a.idx] = e]
<1>1. a.idx = x /\ a.mac = p.cell /\ a.cell = TRUE
  BY InCellPlace
<1>2. OnlyAt(x, l, m) /\ m[x] = e
  <2>1. l \in Lists /\ x \in 0..(MaxCells - 1)
    BY AmidPlace DEF Amid
  <2>2. OnlyAt(x, l, [l EXCEPT ![x] = e]) /\ [l EXCEPT ![x] = e][x] = e
    BY <2>1, EntryWritten
  <2> QED BY <1>1, <2>2
<1> HIDE DEF m
<1>3. Place(la, q, b)
  BY <1>1 DEF Place
<1>4. Reading(la, q, m, b)
  BY <1>2 DEF Reading
<1>5. Pending(la, q, m)
  <2>1. q.tag \in InElements => ~la[p.cell].hidden
    BY DEF Passed, NameRead
  <2> QED BY <1>2, <2>1 DEF Pending
<1>6. Midway(la, q, m, b)
  BY <1>2, <1>3, <1>4, <1>5, StaysInCell
<1> QED BY <1>6 DEF m

LEMMA CellUnwritten ==
  ASSUME NEW l \in Lists, NEW x \in 0..(MaxCells - 1)
  PROVE  [l EXCEPT ![x] = l[x]] = l
BY DEF Lists

\* What is known of the entry before its line is read.
LEMMA BeforeLine ==
  ASSUME NEW la, NEW p, NEW l, NEW a, Amid(la, p, l, a), p.tag # "Cell", a.cell, a.idx >= 0
  PROVE  /\ l[a.idx] \in Entries /\ a.idx \in 0..(MaxCells - 1)
         /\ a.mac = p.cell
         /\ ~Passed(la[p.cell], p)
         /\ ~la[p.cell].hidden => Current(l[a.idx], la[p.cell], p, a.firstIE)
         /\ p.tag \notin InElements => Soft(l[a.idx])
         /\ Line(la, p) /\ l \in Lists /\ p \in Positions /\ p.first \in BOOLEAN
<1>1. a.idx = Told(la, p.cell) /\ ~Passed(la[p.cell], p) /\ a.mac = p.cell
  BY InCellPlace
<1>2. l[a.idx] \in Entries /\ a.idx \in 0..(MaxCells - 1) /\ a.idx < MaxCells
  BY <1>1, AmidPlace, PeripheralsAssumption
<1>3. Reading(la, p, l, a) /\ Pending(la, p, l) /\ Line(la, p)
  BY DEF Amid, Midway
<1>4. ~la[p.cell].hidden => Current(l[a.idx], la[p.cell], p, a.firstIE)
  BY <1>1, <1>3 DEF Reading
<1>5. p.tag \notin InElements => Soft(l[a.idx])
  BY <1>1, <1>2, <1>3 DEF Pending
<1>6. l \in Lists /\ p \in Positions /\ p.first \in BOOLEAN
  BY DEF Amid, Positions
<1> QED BY <1>1, <1>2, <1>3, <1>4, <1>5, <1>6

LEMMA SignalLineRight ==
  ASSUME NEW la, NEW p, NEW l, NEW a, Amid(la, p, l, a), p.tag = "Signal",
         a.cell, a.idx >= 0, NEW q, q = [p EXCEPT !.tag = "key"]
  PROVE  Midway(la, q, [l EXCEPT ![a.idx].signal = p.cell], a)
<1> DEFINE e == [l[a.idx] EXCEPT !.signal = p.cell]
           c == la[p.cell]
<1>1. q.cell = p.cell /\ q.tag = "key" /\ q.first = p.first
  BY DEF Amid, Positions
<1>2. /\ e.signal = p.cell /\ e.ssid = l[a.idx].ssid /\ e.mac = l[a.idx].mac
      /\ e.security = l[a.idx].security /\ e.encrypt = l[a.idx].encrypt
      /\ e.psk = l[a.idx].psk
  BY BeforeLine DEF Entries
<1> HIDE DEF e
<1>3. Line(la, q)
  BY <1>1, BeforeLine DEF Line, InElements
<1>4. ~Passed(c, q)
  BY <1>1, BeforeLine DEF Passed, NameRead, InElements
<1>5. ~c.hidden => Current(e, c, q, a.firstIE)
  <2> SUFFICES ASSUME ~c.hidden PROVE Current(e, c, q, a.firstIE)
    OBVIOUS
  <2>1. Current(l[a.idx], c, p, a.firstIE) /\ p.first \in BOOLEAN
    BY BeforeLine
  <2> QED BY <1>1, <1>2, <2>1 DEF Current, NameRead, SignalRead, KeyRead, InElements
<1>6. Soft(e)
  BY <1>2, BeforeLine DEF Soft, InElements
<1>7. Midway(la, q, [l EXCEPT ![a.idx] = e], a)
  BY <1>1, <1>3, <1>4, <1>5, <1>6, CellStays
<1> QED BY <1>7 DEF e

LEMMA KeyLineRight ==
  ASSUME NEW la, NEW p, NEW l, NEW a, Amid(la, p, l, a), p.tag = "key",
         a.cell, a.idx >= 0, NEW q, q = [p EXCEPT !.tag = IF p.first THEN "Mode" ELSE "ESSID"]
  PROVE  Midway(la, q,
                IF ~la[p.cell].key THEN [l EXCEPT ![a.idx].security = "NONE"]
                ELSE IF l[a.idx].security = "NONE"
                     THEN [l EXCEPT ![a.idx].security = "UNKNOWTYPE"]
                ELSE l,
                a)
<1> DEFINE c == la[p.cell]
           t == IF c.key THEN "UNKNOWTYPE" ELSE "NONE"
           e == [l[a.idx] EXCEPT !.security = t]
<1>1. /\ q.cell = p.cell /\ q.first = p.first /\ q.tag \in {"Mode", "ESSID"}
      /\ p.first => q.tag = "Mode"
      /\ ~p.first => q.tag = "ESSID"
  BY DEF Amid, Positions
<1>2. /\ e.signal = l[a.idx].signal /\ e.ssid = l[a.idx].ssid /\ e.mac = l[a.idx].mac
      /\ e.security = t /\ e.encrypt = l[a.idx].encrypt
      /\ e.psk = l[a.idx].psk
  BY BeforeLine DEF Entries
<1>3. Line(la, q)
  BY <1>1, BeforeLine DEF Line, InElements
<1>4. ~Passed(c, q)
  BY <1>1, BeforeLine DEF Passed, NameRead, InElements
<1>a. Soft(l[a.idx])
  BY BeforeLine DEF InElements
<1>b. Base(e, c)
  BY <1>2, <1>a DEF Base, Secured, Soft
<1>6. Soft(e)
  BY <1>2, <1>a DEF Soft
<1>5. ~c.hidden => Current(e, c, q, a.firstIE)
  <2> SUFFICES ASSUME ~c.hidden PROVE Current(e, c, q, a.firstIE)
    OBVIOUS
  <2>1. Current(l[a.idx], c, p, a.firstIE) /\ p.first \in BOOLEAN
    BY BeforeLine
  <2> HIDE DEF e
  <2> QED BY <1>1, <1>2, <1>b, <2>1 DEF Current, NameRead, SignalRead, KeyRead, InElements
<1>7. Midway(la, q, [l EXCEPT ![a.idx] = e], a)
  <2> HIDE DEF e
  <2> QED BY <1>1, <1>3, <1>4, <1>5, <1>6, CellStays
<1>8. ASSUME c.key, l[a.idx].security # "NONE" PROVE [l EXCEPT ![a.idx] = e] = l
  <2>1. l[a.idx].security = t /\ l[a.idx] \in Entries
    BY <1>8, <1>a, BeforeLine DEF Soft
  <2>2. e = l[a.idx]
    BY <2>1 DEF Entries
  <2>3. l \in Lists /\ a.idx \in 0..(MaxCells - 1)
    BY BeforeLine
  <2> QED BY <2>2, <2>3, CellUnwritten
<1> QED BY <1>7, <1>8

LEMMA NamedLineRight ==
  ASSUME NEW la, NEW p, NEW l, NEW a, Amid(la, p, l, a), p.tag = "ESSID",
         a.cell, a.idx >= 0, ~la[p.cell].hidden,
         NEW q, q = [p EXCEPT !.tag = IF p.first THEN "Signal" ELSE "Mode"]
  PROVE  Midway(la, q, [l EXCEPT ![a.idx].ssid = "name", ![a.idx].mac = a.mac], a)
<1> DEFINE e == [l[a.idx] EXCEPT !.ssid = "name", !.mac = a.mac]
           c == la[p.cell]
<1>1. /\ q.cell = p.cell /\ q.first = p.first /\ q.tag \in {"Signal", "Mode"}
      /\ p.first => q.tag = "Signal"
      /\ ~p.first => q.tag = "Mode"
  BY DEF Amid, Positions
<1>2. /\ e.ssid = "name" /\ e.mac = p.cell /\ e.signal = l[a.idx].signal
      /\ e.security = l[a.idx].security /\ e.encrypt = l[a.idx].encrypt
      /\ e.psk = l[a.idx].psk
  BY BeforeLine DEF Entries
<1>3. Line(la, q)
  BY <1>1, BeforeLine DEF Line, InElements
<1>4. ~Passed(c, q)
  BY DEF Passed
<1>5. Current(e, c, q, a.firstIE)
  <2>1. Current(l[a.idx], c, p, a.firstIE) /\ p.first \in BOOLEAN
    BY BeforeLine
  <2> HIDE DEF e
  <2> QED BY <1>1, <1>2, <2>1 DEF Current, NameRead, SignalRead, KeyRead, InElements, Base, Secured
<1>6. Soft(e)
  <2>1. Soft(l[a.idx])
    BY BeforeLine DEF InElements
  <2> HIDE DEF e
  <2> QED BY <1>2, <2>1 DEF Soft
<1>7. Midway(la, q, [l EXCEPT ![a.idx] = e], a)
  <2> HIDE DEF e
  <2> QED BY <1>1, <1>3, <1>4, <1>5, <1>6, CellStays
<1>8. [l EXCEPT ![a.idx].ssid = "name", ![a.idx].mac = a.mac] = [l EXCEPT ![a.idx] = e]
  BY BeforeLine DEF Lists
<1> QED BY <1>7, <1>8

\* A cell that does not tell its name gives its place back.
LEMMA HiddenLineRight ==
  ASSUME NEW la, NEW p, NEW l, NEW a, Amid(la, p, l, a), p.tag = "ESSID",
         a.cell, a.idx >= 0, la[p.cell].hidden,
         NEW q, q = [p EXCEPT !.tag = IF p.first THEN "Signal" ELSE "Mode"],
         NEW b, b = [a EXCEPT !.cell = FALSE, !.idx = a.idx - 1]
  PROVE  Midway(la, q, l, b)
<1> DEFINE x == Told(la, p.cell)
<1>1. /\ q.cell = p.cell /\ q.first = p.first /\ q.tag \in {"Signal", "Mode"}
      /\ p.first => q.tag = "Signal"
      /\ ~p.first => q.tag = "Mode"
  BY DEF Amid, Positions
<1>2. b.idx = a.idx - 1 /\ b.cell = FALSE
  BY DEF Amid, Parsers
<1>3. Line(la, q)
  BY <1>1, BeforeLine DEF Line, InElements
<1>4. NameRead(q)
  BY <1>1, BeforeLine DEF NameRead, InElements
<1>5. Place(la, q, b)
  <2>1. a.idx = x
    BY InCellPlace
  <2> QED BY <1>1, <1>2, <1>4, <2>1 DEF Place, Passed
<1>6. Reading(la, q, l, b)
  BY <1>1 DEF Reading
<1>7. Pending(la, q, l)
  BY <1>1 DEF Amid, Midway, Pending, InElements
<1>8. OnlyAt(x, l, l)
  BY DEF OnlyAt
<1> QED BY <1>1, <1>3, <1>5, <1>6, <1>7, <1>8, StaysInCell

\* A line of the cell after which the elements go on.
LEMMA CellElement ==
  ASSUME NEW la, NEW p, NEW l, NEW a, Amid(la, p, l, a), p.tag # "Cell",
         a.cell, a.idx >= 0, ~la[p.cell].hidden, NEW e, NEW b, NEW k,
         k \in 1..(Len(la[p.cell].ies) + 1),
         b.idx = a.idx, b.cell = a.cell, b.mac = a.mac,
         Named(e, p.cell), Learned(e, la[p.cell], k - 1, b.firstIE)
  PROVE  Midway(la, ToElement(la, p, k), [l EXCEPT ![a.idx] = e], b)
<1> DEFINE x == Told(la, p.cell)
           m == [l EXCEPT ![a.idx] = e]
<1>1. a.idx = x /\ a.mac = p.cell /\ a.cell = TRUE
  BY InCellPlace
<1>2. OnlyAt(x, l, m) /\ m[x] = e
  <2>1. l \in Lists /\ x \in 0..(MaxCells - 1)
    BY AmidPlace DEF Amid
  <2>2. OnlyAt(x, l, [l EXCEPT ![x] = e]) /\ [l EXCEPT ![x] = e][x] = e
    BY <2>1, EntryWritten
  <2> QED BY <1>1, <2>2
<1> HIDE DEF m
<1>3. /\ b.idx = x /\ b.cell = TRUE /\ b.mac = p.cell
      /\ Named(m[x], p.cell) /\ Learned(m[x], la[p.cell], k - 1, b.firstIE)
  BY <1>1, <1>2
<1>4. Midway(la, ToElement(la, p, k), m, b)
  BY <1>2, <1>3, ElementFollows
<1> QED BY <1>4 DEF m

LEMMA ElementOf ==
  ASSUME NEW la, NEW p, NEW l, NEW a, Amid(la, p, l, a), p.tag # "Cell"
  PROVE  /\ Len(la[p.cell].ies) \in Nat /\ p.elem \in Nat
         /\ p.tag \in InElements => p.elem \in 1..Len(la[p.cell].ies)
         /\ p.tag \in {"Group", "PSK"} => la[p.cell].ies[p.elem] # "other"
         /\ la[p.cell].psk \in BOOLEAN
         /\ \A k \in 1..Len(la[p.cell].ies) :
              la[p.cell].ies[k] \in STRING /\ la[p.cell].groups[k] \in STRING
<1>1. la \in Surveys /\ p.cell \in 1..Len(la) /\ p \in Positions /\ Line(la, p)
  BY DEF Amid, Midway
<1>2. /\ Len(la[p.cell].ies) \in Nat /\ la[p.cell].ies \in Seq(STRING)
      /\ la[p.cell].groups \in Seq(STRING) /\ Len(la[p.cell].groups) = Len(la[p.cell].ies)
      /\ la[p.cell].psk \in BOOLEAN
  BY <1>1, CellTyped
<1>3. p.elem \in Nat
  BY <1>1 DEF Positions
<1>4. \A k \in 1..Len(la[p.cell].ies) :
        la[p.cell].ies[k] \in STRING /\ la[p.cell].groups[k] \in STRING
  BY <1>2
<1> QED BY <1>1, <1>2, <1>3, <1>4 DEF Line

LEMMA ModeLineRight ==
  ASSUME NEW la, NEW p, NEW l, NEW a, Amid(la, p, l, a), p.tag = "Mode",
         a.cell, a.idx >= 0
  PROVE  Midway(la, ToElement(la, p, 1), [l EXCEPT ![a.idx].mode = TRUE], a)
<1> DEFINE e == [l[a.idx] EXCEPT !.mode = TRUE]
           c == la[p.cell]
<1>1. c.hidden \in BOOLEAN /\ ~Passed(c, p)
  BY AmidPlace, BeforeLine
<1>2. ~c.hidden
  BY <1>1 DEF Passed, NameRead
<1>3. Current(l[a.idx], c, p, a.firstIE)
  BY <1>2, BeforeLine
<1>4. /\ e.ssid = l[a.idx].ssid /\ e.mac = l[a.idx].mac /\ e.signal = l[a.idx].signal
      /\ e.mode = TRUE /\ e.security = l[a.idx].security
      /\ e.encrypt = l[a.idx].encrypt /\ e.psk = l[a.idx].psk
  BY BeforeLine DEF Entries
<1> HIDE DEF e
<1>5. Named(e, p.cell)
  BY <1>3, <1>4 DEF Current, Named, NameRead, SignalRead
<1>6. Base(l[a.idx], c) /\ a.firstIE = FALSE
  BY <1>3 DEF Current, KeyRead, InElements
<1>7. Learned(e, c, 0, a.firstIE)
  BY <1>4, <1>6 DEF Learned, Base, Secured
<1>8. 1 \in 1..(Len(c.ies) + 1) /\ 1 - 1 = 0
  BY ElementOf
<1>9. Midway(la, ToElement(la, p, 1), [l EXCEPT ![a.idx] = e], a)
  <2>1. Learned(e, c, 1 - 1, a.firstIE)
    BY <1>7, <1>8
  <2> QED BY <1>2, <1>5, <1>8, <2>1, CellElement
<1> QED BY <1>9 DEF e

\* A cell with an element read is not hidden, and all but its elements are there.
LEMMA AmidElements ==
  ASSUME NEW la, NEW p, NEW l, NEW a, Amid(la, p, l, a), p.tag \in InElements,
         a.cell, a.idx >= 0
  PROVE  /\ ~la[p.cell].hidden
         /\ Current(l[a.idx], la[p.cell], p, a.firstIE)
         /\ Named(l[a.idx], p.cell)
         /\ [l EXCEPT ![a.idx] = l[a.idx]] = l
<1>1. la[p.cell].hidden \in BOOLEAN /\ ~Passed(la[p.cell], p)
  BY AmidPlace, BeforeLine DEF InElements
<1>2. ~la[p.cell].hidden
  BY <1>1 DEF Passed, NameRead
<1>3. Current(l[a.idx], la[p.cell], p, a.firstIE)
  BY <1>2, BeforeLine DEF InElements
<1>4. Named(l[a.idx], p.cell)
  BY <1>3 DEF Current, Named, NameRead, SignalRead
<1>5. l \in Lists /\ a.idx \in 0..(MaxCells - 1)
  BY BeforeLine DEF InElements
<1> QED BY <1>2, <1>3, <1>4, <1>5, CellUnwritten

LEMMA OtherLineRight ==
  ASSUME NEW la, NEW p, NEW l, NEW a, Amid(la, p, l, a), p.tag = "IE",
         a.cell, a.idx >= 0, la[p.cell].ies[p.elem] = "other"
  PROVE  Midway(la, ToElement(la, p, p.elem + 1), l, a)
<1> DEFINE c == la[p.cell]
           k == p.elem
<1>1. p.tag \in InElements /\ k \in 1..Len(c.ies) /\ Len(c.ies) \in Nat
  BY ElementOf DEF InElements
<1>2. /\ ~c.hidden /\ Learned(l[a.idx], c, k - 1, a.firstIE)
      /\ Named(l[a.idx], p.cell) /\ [l EXCEPT ![a.idx] = l[a.idx]] = l
  BY <1>1, AmidElements DEF Current
<1>3. Learned(l[a.idx], c, (k + 1) - 1, a.firstIE)
  <2>1. (k + 1) - 1 = k /\ \A j \in 1..k : j \in 1..(k - 1) \/ j = k
    BY <1>1
  <2>2. \A j \in 1..(k - 1) : j \in 1..k
    BY <1>1
  <2> QED BY <1>2, <2>1, <2>2 DEF Learned
<1>4. k + 1 \in 1..(Len(c.ies) + 1)
  BY <1>1
<1>5. Midway(la, ToElement(la, p, k + 1), [l EXCEPT ![a.idx] = l[a.idx]], a)
  BY <1>2, <1>3, <1>4, CellElement
<1> QED BY <1>2, <1>5

LEMMA KnownLineRight ==
  ASSUME NEW la, NEW p, NEW l, NEW a, Amid(la, p, l, a), p.tag = "IE",
         a.cell, a.idx >= 0, la[p.cell].ies[p.elem] # "other",
         NEW q, q = [p EXCEPT !.tag = "Group"]
  PROVE  Midway(la, q,
                IF a.firstIE = FALSE /\ l[a.idx].security = "UNKNOWTYPE"
                THEN [l EXCEPT ![a.idx].security = la[p.cell].ies[p.elem]] ELSE l,
                a)
<1> DEFINE c == la[p.cell]
           k == p.elem
           e == [l[a.idx] EXCEPT !.security = c.ies[k]]
<1>1. p.tag \in InElements /\ k \in 1..Len(c.ies) /\ Len(c.ies) \in Nat
  BY ElementOf DEF InElements
<1>2. /\ ~c.hidden /\ Learned(l[a.idx], c, k - 1, a.firstIE)
      /\ Named(l[a.idx], p.cell) /\ [l EXCEPT ![a.idx] = l[a.idx]] = l
  <2>1. /\ ~c.hidden /\ Current(l[a.idx], c, p, a.firstIE)
        /\ Named(l[a.idx], p.cell) /\ [l EXCEPT ![a.idx] = l[a.idx]] = l
    BY <1>1, AmidElements
  <2> QED BY <2>1 DEF Current
<1>3. q.cell = p.cell /\ q.tag = "Group" /\ q.elem = k
  BY DEF Amid, Positions
<1>4. Line(la, q)
  BY <1>1, <1>3, BeforeLine DEF Line, InElements
<1>5. /\ e.security = c.ies[k] /\ e.ssid = l[a.idx].ssid /\ e.mac = l[a.idx].mac
      /\ e.signal = l[a.idx].signal /\ e.mode = l[a.idx].mode
      /\ e.encrypt = l[a.idx].encrypt /\ e.psk = l[a.idx].psk
  BY BeforeLine DEF Entries
<1> HIDE DEF e
<1>6. ASSUME a.firstIE = FALSE
      PROVE  /\ Scan!FirstKnown(c, k)
             /\ Base(l[a.idx], c)
  <2>1. (\A j \in 1..(k - 1) : c.ies[j] = "other") /\ Base(l[a.idx], c)
    BY <1>2, <1>6 DEF Learned
  <2> QED BY <2>1 DEF Scan!FirstKnown
<1>7. ASSUME a.firstIE = FALSE, l[a.idx].security = "UNKNOWTYPE"
      PROVE  Midway(la, q, [l EXCEPT ![a.idx] = e], a)
  <2>1. Secured(e, c, c.ies[k]) /\ e.encrypt = "NONE" /\ e.psk = FALSE
    <3>1. c.key
      BY <1>6, <1>7 DEF Base, Secured
    <3> QED BY <3>1, <1>5, <1>6, <1>7 DEF Base, Secured
  <2>2. Current(e, c, q, a.firstIE)
    BY <1>2, <1>3, <1>5, <1>6, <1>7, <2>1 DEF Current, Named, NameRead, SignalRead, KeyRead, InElements
  <2> QED BY <1>2, <1>3, <1>4, <2>2, CellStays DEF Passed, InElements
<1>8. ASSUME ~(a.firstIE = FALSE /\ l[a.idx].security = "UNKNOWTYPE")
      PROVE  Midway(la, q, [l EXCEPT ![a.idx] = l[a.idx]], a)
  <2>1. \/ /\ a.firstIE = FALSE /\ Scan!FirstKnown(c, k)
           /\ Secured(l[a.idx], c, c.ies[k])
           /\ l[a.idx].encrypt = "NONE" /\ l[a.idx].psk = FALSE
        \/ /\ a.firstIE = TRUE /\ l[a.idx].psk = c.psk
           /\ \E n \in 1..(k - 1) : Known(l[a.idx], c, n)
    <3>1. ASSUME a.firstIE = FALSE
          PROVE  /\ Scan!FirstKnown(c, k) /\ Secured(l[a.idx], c, c.ies[k])
                 /\ l[a.idx].encrypt = "NONE" /\ l[a.idx].psk = FALSE
      BY <1>6, <1>8, <3>1 DEF Base, Secured
    <3> QED BY <1>2, <3>1 DEF Learned
  <2>2. Current(l[a.idx], c, q, a.firstIE)
    BY <1>2, <1>3, <2>1 DEF Current, Named, NameRead, SignalRead, KeyRead, InElements
  <2> QED BY <1>2, <1>3, <1>4, <2>2, CellStays DEF Passed, InElements
<1>9. CASE a.firstIE = FALSE /\ l[a.idx].security = "UNKNOWTYPE"
  <2>1. Midway(la, q, [l EXCEPT ![a.idx].security = c.ies[k]], a)
    BY <1>7, <1>9 DEF e
  <2> QED BY <1>9, <2>1
<1>10. CASE ~(a.firstIE = FALSE /\ l[a.idx].security = "UNKNOWTYPE")
  BY <1>2, <1>8, <1>10
<1> QED BY <1>9, <1>10

\* The pipe goes on behind a Group line.
AfterGroup(la, p) ==
  IF la[p.cell].psk THEN [p EXCEPT !.tag = "PSK"] ELSE ToElement(la, p, p.elem + 1)

LEMMA GroupRead ==
  ASSUME NEW la, NEW p, NEW l, NEW a, Amid(la, p, l, a), p.tag = "Group",
         a.cell, a.idx >= 0, NEW e, NEW b,
         b.idx = a.idx, b.cell = a.cell, b.mac = a.mac, b.firstIE = TRUE,
         Named(e, p.cell), \E n \in 1..p.elem : Known(e, la[p.cell], n),
         ~la[p.cell].psk => e.psk = la[p.cell].psk
  PROVE  Midway(la, AfterGroup(la, p), [l EXCEPT ![a.idx] = e], b)
<1> DEFINE c == la[p.cell]
           k == p.elem
<1>1. /\ p.tag \in InElements /\ k \in 1..Len(c.ies) /\ Len(c.ies) \in Nat
      /\ c.ies[k] # "other" /\ c.psk \in BOOLEAN
  BY ElementOf DEF InElements
<1>2. ~c.hidden
  BY <1>1, AmidElements
<1>3. ASSUME c.psk PROVE Midway(la, AfterGroup(la, p), [l EXCEPT ![a.idx] = e], b)
  <2> DEFINE q == [p EXCEPT !.tag = "PSK"]
  <2>1. q.cell = p.cell /\ q.tag = "PSK" /\ q.elem = k
    BY DEF Amid, Positions
  <2> HIDE DEF q
  <2>2. Line(la, q)
    BY <1>1, <2>1, BeforeLine DEF Line, InElements
  <2>3. Current(e, c, q, b.firstIE)
    BY <1>1, <1>3, <2>1 DEF Current, Named, NameRead, SignalRead, KeyRead, InElements
  <2>4. Midway(la, q, [l EXCEPT ![a.idx] = e], b)
    BY <1>2, <2>1, <2>2, <2>3, CellStays DEF Passed, InElements
  <2> QED BY <1>3, <2>4 DEF AfterGroup, q
<1>4. ASSUME ~c.psk PROVE Midway(la, AfterGroup(la, p), [l EXCEPT ![a.idx] = e], b)
  <2>1. (k + 1) - 1 = k /\ k + 1 \in 1..(Len(c.ies) + 1)
    BY <1>1
  <2>2. Learned(e, c, (k + 1) - 1, b.firstIE)
    BY <1>4, <2>1 DEF Learned
  <2>3. Midway(la, ToElement(la, p, k + 1), [l EXCEPT ![a.idx] = e], b)
    BY <1>2, <2>1, <2>2, CellElement
  <2> QED BY <1>4, <2>3 DEF AfterGroup
<1> QED BY <1>1, <1>3, <1>4

LEMMA LaterGroupRight ==
  ASSUME NEW la, NEW p, NEW l, NEW a, Amid(la, p, l, a), p.tag = "Group",
         a.cell, a.idx >= 0, a.firstIE
  PROVE  Midway(la, AfterGroup(la, p), l, a)
<1> DEFINE c == la[p.cell]
           k == p.elem
<1>1. p.tag \in InElements /\ k \in 1..Len(c.ies) /\ a.firstIE = TRUE
  BY ElementOf DEF InElements, Amid, Parsers
<1>2. /\ Current(l[a.idx], c, p, a.firstIE)
      /\ Named(l[a.idx], p.cell) /\ [l EXCEPT ![a.idx] = l[a.idx]] = l
  BY <1>1, AmidElements
<1>3. l[a.idx].psk = c.psk /\ \E n \in 1..(k - 1) : Known(l[a.idx], c, n)
  BY <1>1, <1>2 DEF Current
<1>4. \E n \in 1..k : Known(l[a.idx], c, n)
  <2>1. PICK n \in 1..(k - 1) : Known(l[a.idx], c, n)
    BY <1>3
  <2>2. n \in 1..k
    BY <1>1, ElementOf
  <2> QED BY <2>1, <2>2
<1>5. Midway(la, AfterGroup(la, p), [l EXCEPT ![a.idx] = l[a.idx]], a)
  BY <1>1, <1>2, <1>3, <1>4, GroupRead
<1> QED BY <1>2, <1>5

LEMMA FirstGroupRight ==
  ASSUME NEW la, NEW p, NEW l, NEW a, Amid(la, p, l, a), p.tag = "Group",
         a.cell, a.idx >= 0, ~a.firstIE,
         NEW b, b = [a EXCEPT !.firstIE = TRUE]
  PROVE  Midway(la, AfterGroup(la, p),
                [l EXCEPT ![a.idx].encrypt = la[p.cell].groups[p.elem]], b)
<1> DEFINE c == la[p.cell]
           k == p.elem
           e == [l[a.idx] EXCEPT !.encrypt = c.groups[k]]
<1>1. /\ p.tag \in InElements /\ k \in 1..Len(c.ies) /\ a.firstIE = FALSE
      /\ c.psk \in BOOLEAN
  BY ElementOf DEF InElements, Amid, Parsers
<1>2. /\ Current(l[a.idx], c, p, a.firstIE)
      /\ Named(l[a.idx], p.cell)
  BY <1>1, AmidElements
<1>3. /\ Scan!FirstKnown(c, k) /\ Secured(l[a.idx], c, c.ies[k])
      /\ l[a.idx].psk = FALSE
  BY <1>1, <1>2 DEF Current
<1>4. b.idx = a.idx /\ b.cell = a.cell /\ b.mac = a.mac /\ b.firstIE = TRUE
  BY DEF Amid, Parsers
<1>5. /\ e.security = l[a.idx].security /\ e.ssid = l[a.idx].ssid /\ e.mac = l[a.idx].mac
      /\ e.signal = l[a.idx].signal /\ e.mode = l[a.idx].mode
      /\ e.encrypt = c.groups[k] /\ e.psk = l[a.idx].psk
  BY BeforeLine DEF Entries
<1> HIDE DEF e
<1>6. Named(e, p.cell) /\ (~c.psk => e.psk = c.psk)
  BY <1>1, <1>2, <1>3, <1>5 DEF Named
<1>7. k \in 1..k /\ Known(e, c, k)
  BY <1>1, <1>3, <1>5, ElementOf DEF Known, Secured
<1>8. Midway(la, AfterGroup(la, p), [l EXCEPT ![a.idx] = e], b)
  BY <1>4, <1>6, <1>7, GroupRead
<1> QED BY <1>8 DEF e

LEMMA PskLineRight ==
  ASSUME NEW la, NEW p, NEW l, NEW a, Amid(la, p, l, a), p.tag = "PSK",
         a.cell, a.idx >= 0
  PROVE  Midway(la, ToElement(la, p, p.elem + 1), [l EXCEPT ![a.idx].psk = TRUE], a)
<1> DEFINE c == la[p.cell]
           k == p.elem
           e == [l[a.idx] EXCEPT !.psk = TRUE]
<1>1. p.tag \in InElements /\ k \in 1..Len(c.ies) /\ Len(c.ies) \in Nat
  BY ElementOf DEF InElements
<1>2. /\ ~c.hidden /\ Current(l[a.idx], c, p, a.firstIE)
      /\ Named(l[a.idx], p.cell)
  BY <1>1, AmidElements
<1>3. /\ c.psk = TRUE /\ a.firstIE = TRUE
      /\ \E n \in 1..k : Known(l[a.idx], c, n)
  BY <1>2 DEF Current
<1>4. /\ e.security = l[a.idx].security /\ e.ssid = l[a.idx].ssid /\ e.mac = l[a.idx].mac
      /\ e.signal = l[a.idx].signal /\ e.mode = l[a.idx].mode
      /\ e.encrypt = l[a.idx].encrypt /\ e.psk = TRUE
  BY BeforeLine DEF Entries
<1> HIDE DEF e
<1>5. Named(e, p.cell)
  BY <1>2, <1>4 DEF Named
<1>6. (k + 1) - 1 = k /\ k + 1 \in 1..(Len(c.ies) + 1)
  BY <1>1
<1>7. \E n \in 1..k : Known(e, c, n)
  BY <1>3, <1>4 DEF Known, Secured
<1>8. Learned(e, c, (k + 1) - 1, a.firstIE)
  BY <1>3, <1>4, <1>6, <1>7 DEF Learned
<1>9. Midway(la, ToElement(la, p, k + 1), [l EXCEPT ![a.idx] = e], a)
  BY <1>2, <1>5, <1>6, <1>8, CellElement
<1> QED BY <1>9 DEF e

-----------------------------------------------------------------------------
(* The invariant of the scan.                                              *)
LEMMA BeforeIsTold ==
  ASSUME NEW i
  PROVE  Scan!Before(i) = Told(latest, i) /\ Scan!Before(i)' = Told(latest', i)
BY DEF Scan!Before, Told, Scan!Cardinality, Cardinality

LEMMA MidwayIsRight ==
  ASSUME scanning' = TRUE, number' = 0, latest' \in Surveys, pipe' \in Positions,
         list' \in Lists, at' \in Parsers, Midway(latest', pipe', list', at')
  PROVE  ScanRight'
<1>1. ScanTyped'
  BY DEF ScanTyped
<1>2. Scan!ListedAsReported'
  BY DEF Scan!ListedAsReported
<1> QED BY <1>1, <1>2 DEF ScanRight

(* A line is read.                                                         *)
LEMMA LineRead ==
  ASSUME ScanRight, NEW tag, Scan!Line(tag)
  PROVE  /\ Amid(latest, pipe, list, at) /\ pipe.tag = tag
         /\ latest' = latest /\ scanning' = TRUE /\ number' = 0
<1>1. /\ scanning /\ ~(pipe.cell > Len(latest)) /\ pipe.tag = tag
      /\ latest' = latest /\ scanning' = scanning /\ number' = number
  BY DEF Scan!Line, Scan!AtEnd
<1>2. number = 0 /\ Midway(latest, pipe, list, at) /\ ScanTyped
  BY <1>1 DEF ScanRight
<1>3. pipe.cell \in 1..(Len(latest) + 1) /\ Len(latest) \in Nat
  BY <1>2 DEF Midway, Line, ScanTyped, Surveys
<1>4. pipe.cell \in 1..Len(latest)
  BY <1>1, <1>3
<1> QED BY <1>1, <1>2, <1>4 DEF Amid, ScanTyped

LEMMA PipeGoesOn ==
  ASSUME ScanRight, NEW tag, Scan!Line(tag)
  PROVE  /\ tag = "Cell" =>
              pipe' = [pipe EXCEPT !.tag = IF pipe.first THEN "ESSID" ELSE "Signal"]
         /\ tag = "ESSID" =>
              pipe' = [pipe EXCEPT !.tag = IF pipe.first THEN "Signal" ELSE "Mode"]
         /\ tag = "Signal" => pipe' = [pipe EXCEPT !.tag = "key"]
         /\ tag = "key" =>
              pipe' = [pipe EXCEPT !.tag = IF pipe.first THEN "Mode" ELSE "ESSID"]
         /\ tag = "Mode" => pipe' = ToElement(latest, pipe, 1)
         /\ tag = "IE" /\ latest[pipe.cell].ies[pipe.elem] = "other" =>
              pipe' = ToElement(latest, pipe, pipe.elem + 1)
         /\ tag = "IE" /\ latest[pipe.cell].ies[pipe.elem] # "other" =>
              pipe' = [pipe EXCEPT !.tag = "Group"]
         /\ tag = "Group" => pipe' = AfterGroup(latest, pipe)
         /\ tag = "PSK" => pipe' = ToElement(latest, pipe, pipe.elem + 1)
<1>1. Scan!Follows /\ pipe.tag = tag
  BY DEF Scan!Line
<1> QED BY <1>1 DEF Scan!Follows, Scan!Then, Scan!ThenElement, Scan!TheCell, ToElement, AfterGroup

LEMMA ElementTyped ==
  ASSUME NEW la, NEW p, NEW l, NEW a, Amid(la, p, l, a), NEW k \in Nat
  PROVE  ToElement(la, p, k) \in Positions
<1>1. p \in Positions /\ p.cell + 1 \in Nat /\ p.first \in BOOLEAN
  BY AmidPlace DEF Amid, Positions
<1>2. Scan!Beginning(p.cell + 1, p.first) \in Positions
  BY <1>1 DEF Scan!Beginning, Positions, Tags
<1>3. [p EXCEPT !.tag = "IE", !.elem = k] \in Positions
  BY <1>1 DEF Positions, Tags, InElements
<1> QED BY <1>2, <1>3 DEF ToElement

LEMMA PipeTyped ==
  ASSUME ScanRight, NEW tag \in Tags, Scan!Line(tag)
  PROVE  pipe' \in Positions
<1>1. Amid(latest, pipe, list, at) /\ pipe.tag = tag
  BY LineRead
<1>2. pipe \in Positions /\ pipe.elem \in Nat
  BY <1>1 DEF Amid, Positions
<1>3. \A t \in Tags : [pipe EXCEPT !.tag = t] \in Positions
  BY <1>2 DEF Positions
<1>4. \A k \in Nat : ToElement(latest, pipe, k) \in Positions
  BY <1>1, ElementTyped
<1>5. AfterGroup(latest, pipe) \in Positions
  BY <1>2, <1>3, <1>4 DEF AfterGroup, Tags, InElements
<1>6. CASE tag \in {"Cell", "ESSID", "Signal", "key"}
  BY <1>3, <1>6, PipeGoesOn DEF Tags, InElements
<1>7. CASE tag = "IE"
  BY <1>2, <1>3, <1>4, <1>7, PipeGoesOn DEF Tags, InElements
<1>8. CASE tag \in {"Mode", "Group", "PSK"}
  BY <1>2, <1>4, <1>5, <1>8, PipeGoesOn
<1> QED BY <1>6, <1>7, <1>8 DEF Tags, InElements

LEMMA EntryTyped ==
  ASSUME NEW e \in Entries
  PROVE  /\ \A n \in Nat : [e EXCEPT !.signal = n] \in Entries
         /\ \A n \in Nat : [e EXCEPT !.ssid = "name", !.mac = n] \in Entries
         /\ [e EXCEPT !.mode = TRUE] \in Entries /\ [e EXCEPT !.psk = TRUE] \in Entries
         /\ \A s \in Texts : [e EXCEPT !.security = s] \in Entries
         /\ \A s \in Texts : [e EXCEPT !.encrypt = s] \in Entries
<1>1. ASSUME NEW n \in Nat PROVE [e EXCEPT !.signal = n] \in Entries
  BY DEF Entries
<1>2. ASSUME NEW n \in Nat PROVE [e EXCEPT !.ssid = "name", !.mac = n] \in Entries
  <2>1. "name" \in Texts
    BY DEF Texts
  <2>2. ASSUME NEW s \in Texts PROVE [e EXCEPT !.ssid = s] \in Entries
    BY DEF Entries
  <2>3. ASSUME NEW d \in Entries PROVE [d EXCEPT !.mac = n] \in Entries
    BY DEF Entries
  <2>4. [[e EXCEPT !.ssid = "name"] EXCEPT !.mac = n] \in Entries
    BY <2>1, <2>2, <2>3
  <2> QED BY <2>4
<1>3. [e EXCEPT !.mode = TRUE] \in Entries /\ [e EXCEPT !.psk = TRUE] \in Entries
  BY DEF Entries
<1>4. \A s \in Texts : [e EXCEPT !.security = s] \in Entries
  BY DEF Entries
<1>5. \A s \in Texts : [e EXCEPT !.encrypt = s] \in Entries
  BY DEF Entries
<1> QED BY <1>1, <1>2, <1>3, <1>4, <1>5

LEMMA CellLineStep == ASSUME ScanRight, Scan!CellLine PROVE ScanRight'
<1>1. Scan!Line("Cell") /\ "Cell" \in Tags
  BY DEF Scan!CellLine, Tags
<1>2. /\ Amid(latest, pipe, list, at) /\ pipe.tag = "Cell"
      /\ latest' = latest /\ scanning' = TRUE /\ number' = 0 /\ pipe' \in Positions
  BY <1>1, LineRead, PipeTyped
<1>3. pipe' = [pipe EXCEPT !.tag = IF pipe.first THEN "ESSID" ELSE "Signal"]
  BY <1>1, PipeGoesOn
<1>4. /\ at' = [idx |-> at.idx + 1, cell |-> TRUE, firstIE |-> FALSE, mac |-> pipe.cell]
      /\ list' = list
  BY DEF Scan!CellLine
<1>5. Midway(latest, pipe', list, at')
  BY <1>2, <1>3, <1>4, CellLineRight
<1>6. at' \in Parsers
  BY <1>2, <1>4 DEF Parsers, Amid, Positions
<1>7. list' \in Lists /\ latest' \in Surveys
  BY <1>2, <1>4 DEF Amid
<1> QED BY <1>2, <1>4, <1>5, <1>6, <1>7, MidwayIsRight

LEMMA EssidLineStep == ASSUME ScanRight, Scan!EssidLine PROVE ScanRight'
<1>1. Scan!Line("ESSID") /\ "ESSID" \in Tags /\ at.cell /\ at.idx >= 0
  BY DEF Scan!EssidLine, Scan!InCell, Tags
<1>2. /\ Amid(latest, pipe, list, at) /\ pipe.tag = "ESSID"
      /\ latest' = latest /\ scanning' = TRUE /\ number' = 0 /\ pipe' \in Positions
  BY <1>1, LineRead, PipeTyped
<1>3. pipe' = [pipe EXCEPT !.tag = IF pipe.first THEN "Signal" ELSE "Mode"]
  BY <1>1, PipeGoesOn
<1>4. latest' \in Surveys /\ at \in Parsers /\ list \in Lists
  BY <1>2 DEF Amid
<1>5. ASSUME latest[pipe.cell].hidden PROVE ScanRight'
  <2>1. at' = [at EXCEPT !.cell = FALSE, !.idx = at.idx - 1] /\ list' = list
    BY <1>5 DEF Scan!EssidLine, Scan!TheCell
  <2>2. Midway(latest, pipe', list, at')
    BY <1>1, <1>2, <1>3, <1>5, <2>1, HiddenLineRight
  <2>3. at' \in Parsers
    <3>1. at' = [idx |-> at.idx - 1, cell |-> FALSE, firstIE |-> at.firstIE, mac |-> at.mac]
      BY <1>4, <2>1 DEF Parsers
    <3> QED BY <1>4, <3>1 DEF Parsers
  <2>4. list' = list
    BY <2>1
  <2>5. Midway(latest', pipe', list', at') /\ list' \in Lists
    BY <1>2, <1>4, <2>2, <2>4
  <2> QED BY <1>2, <1>4, <2>3, <2>5, MidwayIsRight
<1>6. ASSUME ~latest[pipe.cell].hidden PROVE ScanRight'
  <2>1. /\ list' = [list EXCEPT ![at.idx].ssid = "name", ![at.idx].mac = at.mac]
        /\ at' = at
    BY <1>6 DEF Scan!EssidLine, Scan!TheCell, Scan!Name
  <2>2. Midway(latest, pipe', list', at)
    BY <1>1, <1>2, <1>3, <1>6, <2>1, NamedLineRight
  <2>3. list' \in Lists
    <3>1. list[at.idx] \in Entries /\ at.idx \in 0..(MaxCells - 1) /\ at.mac \in Nat
      BY <1>1, <1>2, <1>4, BeforeLine DEF Parsers
    <3>2. [list[at.idx] EXCEPT !.ssid = "name", !.mac = at.mac] \in Entries
      BY <3>1, EntryTyped
    <3>3. list' = [list EXCEPT ![at.idx] = [list[at.idx] EXCEPT !.ssid = "name", !.mac = at.mac]]
      BY <1>4, <2>1, <3>1 DEF Lists
    <3> QED BY <1>4, <3>1, <3>2, <3>3, EntryWritten
  <2> QED BY <1>2, <1>4, <2>1, <2>2, <2>3, MidwayIsRight
<1> QED BY <1>5, <1>6

LEMMA SignalLineStep == ASSUME ScanRight, Scan!SignalLine PROVE ScanRight'
<1>1. Scan!Line("Signal") /\ "Signal" \in Tags /\ at.cell /\ at.idx >= 0
  BY DEF Scan!SignalLine, Scan!InCell, Tags
<1>2. /\ Amid(latest, pipe, list, at) /\ pipe.tag = "Signal"
      /\ latest' = latest /\ scanning' = TRUE /\ number' = 0 /\ pipe' \in Positions
  BY <1>1, LineRead, PipeTyped
<1>3. pipe' = [pipe EXCEPT !.tag = "key"]
  BY <1>1, PipeGoesOn
<1>4. latest' \in Surveys /\ at \in Parsers /\ list \in Lists /\ pipe.cell \in Nat
  BY <1>2 DEF Amid, Positions
<1>5. list' = [list EXCEPT ![at.idx].signal = pipe.cell] /\ at' = at
  BY DEF Scan!SignalLine
<1>6. Midway(latest, pipe', list', at)
  BY <1>1, <1>2, <1>3, <1>5, SignalLineRight
<1>7. list' \in Lists
  <2>1. list[at.idx] \in Entries /\ at.idx \in 0..(MaxCells - 1)
    BY <1>1, <1>2, BeforeLine
  <2>2. [list[at.idx] EXCEPT !.signal = pipe.cell] \in Entries
    BY <1>4, <2>1, EntryTyped
  <2> QED BY <1>4, <1>5, <2>1, <2>2, EntryWritten
<1> QED BY <1>2, <1>4, <1>5, <1>6, <1>7, MidwayIsRight

LEMMA ModeLineStep == ASSUME ScanRight, Scan!ModeLine PROVE ScanRight'
<1>1. Scan!Line("Mode") /\ "Mode" \in Tags /\ at.cell /\ at.idx >= 0
  BY DEF Scan!ModeLine, Scan!InCell, Tags
<1>2. /\ Amid(latest, pipe, list, at) /\ pipe.tag = "Mode"
      /\ latest' = latest /\ scanning' = TRUE /\ number' = 0 /\ pipe' \in Positions
  BY <1>1, LineRead, PipeTyped
<1>3. pipe' = ToElement(latest, pipe, 1)
  BY <1>1, PipeGoesOn
<1>4. latest' \in Surveys /\ at \in Parsers /\ list \in Lists
  BY <1>2 DEF Amid
<1>5. list' = [list EXCEPT ![at.idx].mode = TRUE] /\ at' = at
  BY DEF Scan!ModeLine
<1>6. Midway(latest, pipe', list', at)
  BY <1>1, <1>2, <1>3, <1>5, ModeLineRight
<1>7. list' \in Lists
  <2>1. list[at.idx] \in Entries /\ at.idx \in 0..(MaxCells - 1)
    BY <1>1, <1>2, BeforeLine
  <2>2. [list[at.idx] EXCEPT !.mode = TRUE] \in Entries
    BY <2>1, EntryTyped
  <2> QED BY <1>4, <1>5, <2>1, <2>2, EntryWritten
<1> QED BY <1>2, <1>4, <1>5, <1>6, <1>7, MidwayIsRight

LEMMA KeyLineStep == ASSUME ScanRight, Scan!KeyLine PROVE ScanRight'
<1>1. Scan!Line("key") /\ "key" \in Tags /\ at.cell /\ at.idx >= 0
  BY DEF Scan!KeyLine, Scan!InCell, Tags
<1>2. /\ Amid(latest, pipe, list, at) /\ pipe.tag = "key"
      /\ latest' = latest /\ scanning' = TRUE /\ number' = 0 /\ pipe' \in Positions
  BY <1>1, LineRead, PipeTyped
<1>3. pipe' = [pipe EXCEPT !.tag = IF pipe.first THEN "Mode" ELSE "ESSID"]
  BY <1>1, PipeGoesOn
<1>4. latest' \in Surveys /\ at \in Parsers /\ list \in Lists
  BY <1>2 DEF Amid
<1>5. /\ list' = IF ~latest[pipe.cell].key THEN [list EXCEPT ![at.idx].security = "NONE"]
                 ELSE IF list[at.idx].security = "NONE"
                      THEN [list EXCEPT ![at.idx].security = "UNKNOWTYPE"]
                 ELSE list
      /\ at' = at
  BY DEF Scan!KeyLine, Scan!Secure, Scan!TheCell
<1>6. Midway(latest, pipe', list', at)
  BY <1>1, <1>2, <1>3, <1>5, KeyLineRight
<1>7. list' \in Lists
  <2>1. list[at.idx] \in Entries /\ at.idx \in 0..(MaxCells - 1)
    BY <1>1, <1>2, BeforeLine
  <2>2. \A s \in Texts : [list[at.idx] EXCEPT !.security = s] \in Entries
    BY <2>1, EntryTyped
  <2>3. \A s \in Texts : [list EXCEPT ![at.idx].security = s] \in Lists
    BY <1>4, <2>1, <2>2, EntryWritten
  <2>4. "NONE" \in Texts /\ "UNKNOWTYPE" \in Texts
    BY DEF Texts
  <2> QED BY <1>4, <1>5, <2>3, <2>4
<1> QED BY <1>2, <1>4, <1>5, <1>6, <1>7, MidwayIsRight

LEMMA IELineStep == ASSUME ScanRight, Scan!IELine PROVE ScanRight'
<1>1. Scan!Line("IE") /\ "IE" \in Tags /\ at.cell /\ at.idx >= 0
  BY DEF Scan!IELine, Scan!InCell, Tags, InElements
<1>2. /\ Amid(latest, pipe, list, at) /\ pipe.tag = "IE"
      /\ latest' = latest /\ scanning' = TRUE /\ number' = 0 /\ pipe' \in Positions
  BY <1>1, LineRead, PipeTyped
<1>4. latest' \in Surveys /\ at \in Parsers /\ list \in Lists
  BY <1>2 DEF Amid
<1> DEFINE name == latest[pipe.cell].ies[pipe.elem]
<1>5. at' = at
  BY DEF Scan!IELine
<1>6. ASSUME name = "other" PROVE Midway(latest, pipe', list', at) /\ list' \in Lists
  <2>1. list' = list
    BY <1>6 DEF Scan!IELine, Scan!TheCell
  <2>2. pipe' = ToElement(latest, pipe, pipe.elem + 1)
    BY <1>1, <1>6, PipeGoesOn
  <2>3. Midway(latest, pipe', list, at)
    BY <1>1, <1>2, <1>6, <2>2, OtherLineRight
  <2> QED BY <1>4, <2>1, <2>3
<1>7. ASSUME name # "other" PROVE Midway(latest, pipe', list', at) /\ list' \in Lists
  <2>1. list' = IF at.firstIE = FALSE /\ list[at.idx].security = "UNKNOWTYPE"
                THEN [list EXCEPT ![at.idx].security = name] ELSE list
    <3>1. at.firstIE \in BOOLEAN
      BY <1>4 DEF Parsers
    <3>2. list' = IF ~at.firstIE /\ list[at.idx].security = "UNKNOWTYPE"
                  THEN [list EXCEPT ![at.idx].security = name] ELSE list
      BY <1>7 DEF Scan!IELine, Scan!TheCell, Scan!Secure
    <3>3. (~at.firstIE) <=> (at.firstIE = FALSE)
      BY <3>1, Zenon
    <3> HIDE DEF name
    <3> QED BY <3>2, <3>3
  <2>2. pipe' = [pipe EXCEPT !.tag = "Group"]
    BY <1>1, <1>7, PipeGoesOn
  <2>3. Midway(latest, pipe', list', at)
    BY <1>1, <1>2, <1>7, <2>1, <2>2, KnownLineRight
  <2>4. list[at.idx] \in Entries /\ at.idx \in 0..(MaxCells - 1) /\ name \in Texts
    BY <1>1, <1>2, BeforeLine, ElementOf DEF InElements, Texts
  <2>5. [list EXCEPT ![at.idx].security = name] \in Lists
    <3>1. [list[at.idx] EXCEPT !.security = name] \in Entries
      BY <2>4, EntryTyped
    <3> QED BY <1>4, <2>4, <3>1, EntryWritten
  <2> QED BY <1>4, <2>1, <2>3, <2>5
<1> QED BY <1>2, <1>4, <1>5, <1>6, <1>7, MidwayIsRight

LEMMA GroupLineStep == ASSUME ScanRight, Scan!GroupLine PROVE ScanRight'
<1>1. Scan!Line("Group") /\ "Group" \in Tags /\ at.cell /\ at.idx >= 0
  BY DEF Scan!GroupLine, Scan!InCell, Tags, InElements
<1>2. /\ Amid(latest, pipe, list, at) /\ pipe.tag = "Group"
      /\ latest' = latest /\ scanning' = TRUE /\ number' = 0 /\ pipe' \in Positions
  BY <1>1, LineRead, PipeTyped
<1>3. pipe' = AfterGroup(latest, pipe)
  BY <1>1, PipeGoesOn
<1>4. latest' \in Surveys /\ at \in Parsers /\ list \in Lists
  BY <1>2 DEF Amid
<1> DEFINE cipher == latest[pipe.cell].groups[pipe.elem]
<1>5. ASSUME at.firstIE PROVE ScanRight'
  <2>1. list' = list /\ at' = at
    BY <1>5 DEF Scan!GroupLine
  <2>2. Midway(latest, pipe', list, at)
    BY <1>1, <1>2, <1>3, <1>5, LaterGroupRight
  <2> QED BY <1>2, <1>4, <2>1, <2>2, MidwayIsRight
<1>6. ASSUME ~at.firstIE PROVE ScanRight'
  <2>1. list' = [list EXCEPT ![at.idx].encrypt = cipher] /\ at' = [at EXCEPT !.firstIE = TRUE]
    BY <1>6 DEF Scan!GroupLine, Scan!TheCell
  <2>2. Midway(latest, pipe', list', at')
    BY <1>1, <1>2, <1>3, <1>6, <2>1, FirstGroupRight
  <2>3. at' \in Parsers
    BY <1>4, <2>1 DEF Parsers
  <2>4. list' \in Lists
    <3>1. list[at.idx] \in Entries /\ at.idx \in 0..(MaxCells - 1) /\ cipher \in Texts
      BY <1>1, <1>2, BeforeLine, ElementOf DEF InElements, Texts
    <3>2. [list[at.idx] EXCEPT !.encrypt = cipher] \in Entries
      BY <3>1, EntryTyped
    <3> QED BY <1>4, <2>1, <3>1, <3>2, EntryWritten
  <2>5. Midway(latest', pipe', list', at')
    BY <1>2, <2>2
  <2> QED BY <1>2, <1>4, <2>3, <2>4, <2>5, MidwayIsRight
<1> QED BY <1>5, <1>6

LEMMA PskLineStep == ASSUME ScanRight, Scan!PskLine PROVE ScanRight'
<1>1. Scan!Line("PSK") /\ "PSK" \in Tags /\ at.cell /\ at.idx >= 0
  BY DEF Scan!PskLine, Scan!InCell, Tags, InElements
<1>2. /\ Amid(latest, pipe, list, at) /\ pipe.tag = "PSK"
      /\ latest' = latest /\ scanning' = TRUE /\ number' = 0 /\ pipe' \in Positions
  BY <1>1, LineRead, PipeTyped
<1>3. pipe' = ToElement(latest, pipe, pipe.elem + 1)
  BY <1>1, PipeGoesOn
<1>4. latest' \in Surveys /\ at \in Parsers /\ list \in Lists
  BY <1>2 DEF Amid
<1>5. list' = [list EXCEPT ![at.idx].psk = TRUE] /\ at' = at
  BY DEF Scan!PskLine
<1>6. Midway(latest, pipe', list', at)
  BY <1>1, <1>2, <1>3, <1>5, PskLineRight
<1>7. list' \in Lists
  <2>1. list[at.idx] \in Entries /\ at.idx \in 0..(MaxCells - 1)
    BY <1>1, <1>2, BeforeLine
  <2>2. [list[at.idx] EXCEPT !.psk = TRUE] \in Entries
    BY <2>1, EntryTyped
  <2> QED BY <1>4, <1>5, <2>1, <2>2, EntryWritten
<1> QED BY <1>2, <1>4, <1>5, <1>6, <1>7, MidwayIsRight

LEMMA SkipLineStep == ASSUME ScanRight, Scan!SkipLine PROVE ScanRight'
<1>1. PICK tag \in {"Signal", "key", "ESSID", "Mode", "IE", "Group", "PSK"} : Scan!Line(tag)
  BY DEF Scan!SkipLine
<1>2. tag \in Tags /\ tag # "Cell" /\ ~(at.cell /\ at.idx >= 0) /\ list' = list /\ at' = at
  BY <1>1 DEF Scan!SkipLine, Scan!InCell, Tags, InElements
<1>3. /\ Amid(latest, pipe, list, at) /\ pipe.tag = tag
      /\ latest' = latest /\ scanning' = TRUE /\ number' = 0 /\ pipe' \in Positions
  BY <1>1, <1>2, LineRead, PipeTyped
<1>4. latest' \in Surveys /\ at \in Parsers /\ list \in Lists /\ pipe \in Positions
  BY <1>3 DEF Amid
<1>5. Passed(latest[pipe.cell], pipe)
  BY <1>2, <1>3, InCellPlace
<1>6. NameRead(pipe)
  BY <1>5 DEF Passed
<1> DEFINE c == latest[pipe.cell]
           k == pipe.elem
<1>7. /\ Len(c.ies) \in Nat /\ k \in Nat
      /\ tag \in InElements => k \in 1..Len(c.ies)
      /\ 1 \in 1..(Len(c.ies) + 1)
      /\ tag \in InElements => k + 1 \in 1..(Len(c.ies) + 1)
  BY <1>2, <1>3, ElementOf
<1>8. Line(latest, pipe)
  BY <1>3 DEF Amid, Midway
<1>9. ASSUME NEW t \in {"Mode", "key", "Group", "PSK"}, pipe' = [pipe EXCEPT !.tag = t],
             NameRead(pipe'),
             t \in InElements => tag \in InElements /\ c.ies[k] # "other"
      PROVE  Midway(latest, pipe', list, at)
  <2>1. pipe'.cell = pipe.cell /\ pipe'.tag = t /\ pipe'.elem = k
    BY <1>4, <1>9 DEF Positions
  <2>2. pipe.cell \in 1..Len(latest) /\ pipe.cell \in Nat /\ Len(latest) \in Nat
    BY <1>3, AmidPlace DEF Amid
  <2>3. Line(latest, pipe')
    <3> DEFINE q == pipe'
    <3> HIDE DEF q
    <3>1. q.cell = pipe.cell /\ q.tag = t /\ q.elem = k
      BY <2>1 DEF q
    <3>2. Line(latest, q)
      BY <1>7, <1>9, <2>2, <3>1 DEF Line, InElements
    <3> QED BY <3>2 DEF q
  <2> QED BY <1>2, <1>3, <1>5, <1>9, <2>1, <2>3, PassedStays
<1>10. CASE tag = "ESSID"
  BY <1>3, <1>6, <1>10 DEF NameRead, InElements
<1>11. CASE tag = "Signal"
  <2>1. pipe' = [pipe EXCEPT !.tag = "key"] /\ pipe.first
    BY <1>1, <1>3, <1>6, <1>11, PipeGoesOn DEF NameRead, InElements
  <2>2. NameRead(pipe')
    BY <1>4, <2>1 DEF NameRead, Positions
  <2> QED BY <1>9, <2>1, <2>2, <1>2, <1>3, <1>4, MidwayIsRight DEF InElements
<1>12. CASE tag = "key"
  <2>1. pipe' = [pipe EXCEPT !.tag = "Mode"]
    BY <1>1, <1>3, <1>6, <1>12, PipeGoesOn DEF NameRead, InElements
  <2>2. NameRead(pipe')
    BY <1>4, <2>1 DEF NameRead, Positions
  <2> QED BY <1>9, <2>1, <2>2, <1>2, <1>3, <1>4, MidwayIsRight DEF InElements
<1>13. ASSUME NEW n \in 1..(Len(c.ies) + 1), pipe' = ToElement(latest, pipe, n)
       PROVE  ScanRight'
  <2>1. Midway(latest, pipe', list, at)
    BY <1>2, <1>3, <1>5, <1>13, PassedElement
  <2> QED BY <2>1, <1>2, <1>3, <1>4, MidwayIsRight
<1>14. CASE tag = "Mode"
  BY <1>1, <1>7, <1>13, <1>14, PipeGoesOn
<1>15. CASE tag = "PSK"
  BY <1>1, <1>7, <1>13, <1>15, PipeGoesOn DEF InElements
<1>16. CASE tag = "IE"
  <2>1. CASE c.ies[k] = "other"
    BY <1>1, <1>7, <1>13, <1>16, <2>1, PipeGoesOn DEF InElements
  <2>2. CASE c.ies[k] # "other"
    <3>1. pipe' = [pipe EXCEPT !.tag = "Group"]
      BY <1>1, <1>16, <2>2, PipeGoesOn
    <3>2. NameRead(pipe')
      BY <1>4, <3>1 DEF NameRead, Positions, InElements
    <3>3. Midway(latest, pipe', list, at)
      BY <1>9, <1>16, <2>2, <3>1, <3>2 DEF InElements
    <3> QED BY <3>3, <1>2, <1>3, <1>4, MidwayIsRight
  <2> QED BY <2>1, <2>2
<1>17. CASE tag = "Group"
  <2>1. pipe' = AfterGroup(latest, pipe)
    BY <1>1, <1>17, PipeGoesOn
  <2>2. CASE c.psk
    <3>1. pipe' = [pipe EXCEPT !.tag = "PSK"]
      BY <2>1, <2>2 DEF AfterGroup
    <3>2. NameRead(pipe')
      BY <1>4, <3>1 DEF NameRead, Positions, InElements
    <3>3. c.ies[k] # "other"
      BY <1>3, <1>8, <1>17 DEF Line
    <3>4. Midway(latest, pipe', list, at)
      BY <1>9, <1>17, <3>1, <3>2, <3>3 DEF InElements
    <3> QED BY <3>4, <1>2, <1>3, <1>4, MidwayIsRight
  <2>3. CASE ~c.psk
    <3>1. pipe' = ToElement(latest, pipe, k + 1)
      BY <2>1, <2>3 DEF AfterGroup
    <3> QED BY <3>1, <1>7, <1>13, <1>17 DEF InElements
  <2> QED BY <2>2, <2>3
<1> QED BY <1>1, <1>10, <1>11, <1>12, <1>14, <1>15, <1>16, <1>17

LEMMA EmptyList ==
  /\ [i \in 0 .. MaxCells - 1 |-> Scan!NoEntry] \in Lists
  /\ \A n \in 0..(MaxCells - 1) : Soft([i \in 0 .. MaxCells - 1 |-> Scan!NoEntry][n])
  /\ Scan!NoCell \in Parsers /\ Scan!NoCell.idx = -1
<1>1. Scan!NoEntry \in Entries
  BY DEF Scan!NoEntry, Entries, Texts
<1>2. Soft(Scan!NoEntry)
  BY DEF Scan!NoEntry, Soft
<1>3. Scan!NoCell \in Parsers /\ Scan!NoCell.idx = -1
  BY DEF Scan!NoCell, Parsers
<1> QED BY <1>1, <1>2, <1>3 DEF Lists

LEMMA ScanBeginStep ==
  ASSUME ScanRight, NEW n \in 0..MaxCells, NEW first \in NameFirst,
         NEW cells \in [1..n -> Cells], Scan!ScanBegin(cells, first)
  PROVE  ScanRight'
<1> DEFINE q == Scan!Beginning(1, first)
           l == [i \in 0 .. MaxCells - 1 |-> Scan!NoEntry]
           a == Scan!NoCell
<1>1. /\ scanning' = TRUE /\ latest' = cells /\ pipe' = q /\ list' = l
      /\ number' = 0 /\ at' = a
  BY DEF Scan!ScanBegin
<1>2. cells \in Surveys /\ Len(cells) \in Nat
  <2>1. n \in Nat /\ n <= MaxCells
    BY PeripheralsAssumption
  <2>2. cells \in Seq(Cells) /\ Len(cells) = n
    BY <2>1
  <2> QED BY <2>1, <2>2 DEF Surveys
<1>3. q.cell = 1 /\ q.tag = "Cell" /\ q \in Positions
  BY PeripheralsAssumption DEF Scan!Beginning, Positions, Tags
<1>4. Told(cells, 1) = 0
  BY <1>2, ToldFirst
<1>5. l \in Lists /\ (\A i \in 0..(MaxCells - 1) : Soft(l[i])) /\ a \in Parsers /\ a.idx = -1
  BY EmptyList
<1> HIDE DEF q, l, a
<1>6. Line(cells, q)
  BY <1>2, <1>3 DEF Line, InElements
<1>7. Place(cells, q, a)
  BY <1>3, <1>4, <1>5 DEF Place
<1>8. Reading(cells, q, l, a)
  BY <1>3 DEF Reading
<1>9. Done(cells, q.cell, l)
  BY <1>2, <1>3 DEF Done
<1>10. ToCome(cells, q.cell, l)
  BY <1>5 DEF ToCome
<1>11. Pending(cells, q, l)
  BY <1>3, <1>4, <1>5, PeripheralsAssumption DEF Pending
<1>12. Midway(cells, q, l, a)
  BY <1>6, <1>7, <1>8, <1>9, <1>10, <1>11 DEF Midway
<1> QED BY <1>1, <1>2, <1>3, <1>5, <1>12, MidwayIsRight

LEMMA ScanEndStep == ASSUME ScanRight, Scan!ScanEnd PROVE ScanRight'
<1>1. /\ scanning /\ pipe.cell > Len(latest)
      /\ scanning' = FALSE /\ number' = at.idx + 1
      /\ latest' = latest /\ pipe' = pipe /\ list' = list /\ at' = at
  BY DEF Scan!ScanEnd, Scan!AtEnd
<1>2. ScanTyped /\ Midway(latest, pipe, list, at)
  BY <1>1 DEF ScanRight
<1>3. Len(latest) \in Nat /\ latest \in Surveys /\ at.idx \in Int
  BY <1>2 DEF ScanTyped, Surveys, Parsers
<1> DEFINE top == Len(latest) + 1
<1>4. pipe.cell = top /\ pipe.tag = "Cell" /\ top \in 1..(Len(latest) + 1)
  BY <1>1, <1>2, <1>3 DEF Midway, Line
<1>5. Told(latest, top) \in Nat
  BY <1>3, <1>4, ToldIsCounted
<1>6. number' = Told(latest, top)
  <2>1. at.idx = Told(latest, top) - 1
    BY <1>2, <1>4 DEF Midway, Place
  <2> QED BY <1>1, <1>5, <2>1
<1>7. ScanTyped'
  <2>1. scanning' \in BOOLEAN /\ number' \in Int
    <3>1. scanning' = FALSE
      BY <1>1
    <3>2. number' = at.idx + 1
      BY <1>1
    <3>3. scanning' \in BOOLEAN
      BY <3>1
    <3>4. number' \in Int
      BY <1>3, <3>2
    <3> QED BY <3>3, <3>4
  <2>2. latest' \in Surveys /\ pipe' \in Positions /\ list' \in Lists /\ at' \in Parsers
    BY <1>1, <1>2 DEF ScanTyped
  <2> QED BY <2>1, <2>2 DEF ScanTyped
<1>8. Done(latest, top, list)
  BY <1>2, <1>4 DEF Midway
<1>9. Scan!ListedAsReported'
  <2>1. number' = Scan!Before(Len(latest) + 1)'
    BY <1>1, <1>6, BeforeIsTold
  <2>2. ASSUME NEW i \in 1..Len(latest), ~latest[i].hidden
        PROVE  /\ Scan!Before(i)' < number'
               /\ Scan!ListedAs(list[Scan!Before(i)'], i, latest[i])
    <3>1. Scan!Before(i)' = Told(latest, i)
      BY <1>1, BeforeIsTold
    <3>2. i < top
      BY <1>3
    <3>3. Told(latest, i) < Told(latest, top)
      BY <1>3, <1>4, <2>2, <3>2, ToldGrows
    <3>4. Scan!ListedAs(list[Told(latest, i)], i, latest[i])
      BY <1>8, <2>2, <3>2 DEF Done
    <3> QED BY <1>6, <3>1, <3>3, <3>4
  <2> QED BY <1>1, <2>1, <2>2 DEF Scan!ListedAsReported, Scan!GetAPInfoByIdx
<1> QED BY <1>1, <1>7, <1>9 DEF ScanRight

LEMMA ScanStarts == Scan!Init => ScanRight
<1> SUFFICES ASSUME Scan!Init PROVE ScanRight
  OBVIOUS
<1>1. /\ latest = <<>> /\ scanning = FALSE /\ pipe = Scan!Beginning(1, FALSE)
      /\ list = [i \in 0 .. MaxCells - 1 |-> Scan!NoEntry] /\ number = 0
      /\ at = Scan!NoCell
  BY DEF Scan!Init
<1>2. Len(latest) = 0 /\ latest \in Surveys
  BY <1>1, PeripheralsAssumption DEF Surveys
<1>3. pipe \in Positions
  BY <1>1 DEF Scan!Beginning, Positions, Tags
<1>4. ScanTyped
  <2>1. list \in Lists /\ at \in Parsers
    BY <1>1, EmptyList
  <2>2. scanning \in BOOLEAN /\ number \in Int
    <3>1. scanning = FALSE
      BY <1>1
    <3>2. scanning \in BOOLEAN
      BY <3>1
    <3>3. number \in Int
      BY <1>1
    <3> QED BY <3>2, <3>3
  <2> QED BY <1>2, <1>3, <2>1, <2>2 DEF ScanTyped
<1>5. Scan!Before(Len(latest) + 1) = 0
  BY <1>2, ToldFirst, BeforeIsTold
<1>6. Scan!ListedAsReported
  BY <1>1, <1>2, <1>5 DEF Scan!ListedAsReported
<1> QED BY <1>1, <1>4, <1>6 DEF ScanRight

LEMMA ScanKeeps == ScanRight /\ [Scan!Next]_(Scan!vars) => ScanRight'
<1> SUFFICES ASSUME ScanRight, [Scan!Next]_(Scan!vars) PROVE ScanRight'
  OBVIOUS
<1>1. CASE Scan!Next
  <2>1. CASE \E n \in 0 .. MaxCells, first \in NameFirst :
               \E cells \in [1 .. n -> Cells] : Scan!ScanBegin(cells, first)
    BY <2>1, ScanBeginStep
  <2> QED BY <1>1, <2>1, CellLineStep, EssidLineStep, SignalLineStep, ModeLineStep,
             KeyLineStep, IELineStep, GroupLineStep, PskLineStep, SkipLineStep,
             ScanEndStep DEF Scan!Next
<1>2. CASE UNCHANGED Scan!vars
  <2>1. /\ latest' = latest /\ pipe' = pipe /\ scanning' = scanning /\ list' = list
        /\ number' = number /\ at' = at
    BY <1>2 DEF Scan!vars
  <2>2. ScanTyped'
    BY <2>1 DEF ScanRight, ScanTyped
  <2>3. scanning' => number' = 0 /\ Midway(latest', pipe', list', at')
    BY <2>1 DEF ScanRight
  <2>4. Scan!ListedAsReported'
    <3>1. \A i : Scan!Before(i)' = Scan!Before(i)
      BY <2>1, BeforeIsTold
    <3> QED BY <2>1, <3>1 DEF ScanRight, Scan!ListedAsReported, Scan!GetAPInfoByIdx
  <2> QED BY <2>2, <2>3, <2>4 DEF ScanRight
<1> QED BY <1>1, <1>2

(* Whenever the list of a wireless scan can be had, it names each cell that  *)
(* tells its name, in the order of the report, with what that cell and no    *)
(* other has reported, for any cells, any number of them and of their        *)
(* elements, and either order of the lines.                                  *)
THEOREM ListIsAsReported == Scan!Spec => []ListedAsReported
<1>1. Scan!Init => ScanRight
  BY ScanStarts
<1>2. ScanRight /\ [Scan!Next]_(Scan!vars) => ScanRight'
  BY ScanKeeps
<1>3. ScanRight => ListedAsReported
  BY DEF ScanRight, ListedAsReported
<1> QED BY <1>1, <1>2, <1>3, PTL DEF Scan!Spec

-----------------------------------------------------------------------------
(* The frames of SerialCommand.cpp, when nothing disturbs the line.  The   *)
(* speaker sends twelve characters for each message, and the assembler     *)
(* makes the frame of them again, whatever it is given them in.            *)
LEMMA OrNibbles ==
  ASSUME NEW h \in 0..15, NEW l \in 0..15
  PROVE  Serial!Or((16 * h) % 256, l) = 16 * h + l
<1> DEFINE x == 16 * h
<1>1. x \in 0..255 /\ x % 256 = x
  OBVIOUS
<1>2. /\ (x \div 8) % 2 = 0 /\ (x \div 4) % 2 = 0 /\ (x \div 2) % 2 = 0 /\ x % 2 = 0
      /\ x \div 1 = x /\ l \div 1 = l
  OBVIOUS
<1>3. /\ x \div 16 = h /\ x \div 32 = h \div 2 /\ x \div 64 = h \div 4 /\ x \div 128 = h \div 8
      /\ l \div 16 = 0 /\ l \div 32 = 0 /\ l \div 64 = 0 /\ l \div 128 = 0
  OBVIOUS
<1>4. \A n \in 0..15 : 8 * ((n \div 8) % 2) + 4 * ((n \div 4) % 2) + 2 * ((n \div 2) % 2) + (n % 2) = n
  OBVIOUS
<1>5. \A n \in Nat : n % 2 \in {0, 1}
  OBVIOUS
<1>6. /\ h % 2 \in {0, 1} /\ (h \div 2) % 2 \in {0, 1} /\ (h \div 4) % 2 \in {0, 1}
      /\ (h \div 8) % 2 \in {0, 1}
      /\ l % 2 \in {0, 1} /\ (l \div 2) % 2 \in {0, 1} /\ (l \div 4) % 2 \in {0, 1}
      /\ (l \div 8) % 2 \in {0, 1}
  OBVIOUS
<1> DEFINE bx == Serial!Bits(x)
           bl == Serial!Bits(l)
           o == [i \in 1..8 |-> IF bx[i] + bl[i] > 0 THEN 1 ELSE 0]
<1>7. /\ bx[1] = (h \div 8) % 2 /\ bx[2] = (h \div 4) % 2 /\ bx[3] = (h \div 2) % 2
      /\ bx[4] = h % 2 /\ bx[5] = 0 /\ bx[6] = 0 /\ bx[7] = 0 /\ bx[8] = 0
  BY <1>2, <1>3 DEF Serial!Bits, Serial!Weights
<1>8. /\ bl[1] = 0 /\ bl[2] = 0 /\ bl[3] = 0 /\ bl[4] = 0
      /\ bl[5] = (l \div 8) % 2 /\ bl[6] = (l \div 4) % 2 /\ bl[7] = (l \div 2) % 2
      /\ bl[8] = l % 2
  BY <1>2, <1>3 DEF Serial!Bits, Serial!Weights
<1> HIDE DEF bx, bl
<1>9. /\ o[1] = (h \div 8) % 2 /\ o[2] = (h \div 4) % 2 /\ o[3] = (h \div 2) % 2 /\ o[4] = h % 2
  BY <1>6, <1>7, <1>8
<1>10. /\ o[5] = (l \div 8) % 2 /\ o[6] = (l \div 4) % 2 /\ o[7] = (l \div 2) % 2 /\ o[8] = l % 2
  BY <1>6, <1>7, <1>8
<1>11. Serial!Or(x, l) = Serial!Byte(o)
  BY DEF Serial!Or, bx, bl
<1>12. Serial!Byte(o) = 16 * (8 * o[1] + 4 * o[2] + 2 * o[3] + o[4])
                        + (8 * o[5] + 4 * o[6] + 2 * o[7] + o[8])
  <2>1. /\ o[1] \in Nat /\ o[2] \in Nat /\ o[3] \in Nat /\ o[4] \in Nat
        /\ o[5] \in Nat /\ o[6] \in Nat /\ o[7] \in Nat /\ o[8] \in Nat
    OBVIOUS
  <2> HIDE DEF o
  <2> QED BY <2>1 DEF Serial!Byte
<1> HIDE DEF o, x
<1>13. Serial!Byte(o) = 16 * h + l
  BY <1>4, <1>9, <1>10, <1>12
<1> QED BY <1>1, <1>11, <1>13 DEF x

LEMMA ValueOfDigit ==
  ASSUME NEW n \in 0..15
  PROVE  Serial!Value(Serial!Digit(n)) = n /\ Serial!Digit(n) # 32
BY DEF Serial!Value, Serial!Digit

\* What Assemble has made of the first k characters of frame f.
Parsed(f, k) ==
  [spaces |-> k \div 3,
   bytes |-> [i \in 1..4 |-> IF k < 3 * i - 2 THEN 0
                             ELSE IF k = 3 * i - 2 THEN f[i] \div 16 ELSE f[i]]]

LEMMA PutsNext ==
  ASSUME NEW f \in [1..4 -> 0..255], NEW k \in 0..11
  PROVE  Serial!Put(Parsed(f, k), Serial!Text(f)[k + 1]) = Parsed(f, k + 1)
<1> DEFINE a == Parsed(f, k)
           c == Serial!Text(f)[k + 1]
           j == k \div 3
<1>1. j \in 0..3 /\ k + 1 \in 1..12 /\ j + 1 \in 1..4
  OBVIOUS
<1>2. c = IF (k + 1) % 3 = 0 THEN 32
          ELSE Serial!Digit(IF (k + 1) % 3 = 1 THEN f[(k + 3) \div 3] \div 16
                            ELSE f[(k + 3) \div 3] % 16)
  BY <1>1 DEF Serial!Text, Serial!MaxPacketLen, Serial!Space
<1>3. (k + 3) \div 3 = j + 1
  OBVIOUS
<1>4. f[j + 1] \in 0..255 /\ f[j + 1] \div 16 \in 0..15 /\ f[j + 1] % 16 \in 0..15
      /\ 16 * (f[j + 1] \div 16) + (f[j + 1] % 16) = f[j + 1]
  BY <1>1
<1>5. a.spaces = j /\ a.bytes \in [1..4 -> 0..255] /\ DOMAIN a = {"spaces", "bytes"}
  BY <1>1 DEF Parsed
<1>6. CASE (k + 1) % 3 = 0
  <2>1. c = 32 /\ Parsed(f, k + 1).spaces = j + 1
    BY <1>2, <1>6 DEF Parsed
  <2>2. Parsed(f, k + 1).bytes = a.bytes
    <3>1. \A i \in 1..4 : Parsed(f, k + 1).bytes[i] = a.bytes[i]
      BY <1>6 DEF Parsed
    <3> QED BY <3>1 DEF Parsed
  <2>3. Serial!Put(a, c) = [a EXCEPT !.spaces = @ + 1]
    BY <2>1 DEF Serial!Put, Serial!Space
  <2> QED BY <2>1, <2>2, <2>3, <1>1 DEF Parsed
<1>7. CASE (k + 1) % 3 = 1
  <2>1. c = Serial!Digit(f[j + 1] \div 16) /\ k = 3 * j
    BY <1>2, <1>3, <1>7
  <2>2. c # 32 /\ Serial!Value(c) = f[j + 1] \div 16
    BY <2>1, <1>4, ValueOfDigit
  <2>3. a.bytes[j + 1] = 0
    BY <1>1, <2>1 DEF Parsed
  <2>4. Serial!Or((0 * 16) % 256, f[j + 1] \div 16) = f[j + 1] \div 16
    <3>1. Serial!Or((16 * 0) % 256, f[j + 1] \div 16) = 16 * 0 + (f[j + 1] \div 16)
      BY <1>4, OrNibbles
    <3> QED BY <3>1, <1>4
  <2>5. Serial!Put(a, c) = [a EXCEPT !.bytes[j + 1] = f[j + 1] \div 16]
    BY <1>1, <1>5, <2>2, <2>3, <2>4 DEF Serial!Put, Serial!Space, Serial!FrameLen
  <2>6. Parsed(f, k + 1).spaces = j
    BY <1>7 DEF Parsed
  <2>7. Parsed(f, k + 1).bytes = [a.bytes EXCEPT ![j + 1] = f[j + 1] \div 16]
    <3>1. \A i \in 1..4 : Parsed(f, k + 1).bytes[i] = [a.bytes EXCEPT ![j + 1] = f[j + 1] \div 16][i]
      BY <1>1, <2>1 DEF Parsed
    <3> QED BY <3>1 DEF Parsed
  <2> QED BY <2>5, <2>6, <2>7 DEF Parsed
<1>8. CASE (k + 1) % 3 = 2
  <2>1. c = Serial!Digit(f[j + 1] % 16) /\ k = 3 * j + 1
    BY <1>2, <1>3, <1>8
  <2>2. c # 32 /\ Serial!Value(c) = f[j + 1] % 16
    BY <2>1, <1>4, ValueOfDigit
  <2>3. a.bytes[j + 1] = f[j + 1] \div 16
    BY <1>1, <2>1 DEF Parsed
  <2>4. Serial!Or(((f[j + 1] \div 16) * 16) % 256, f[j + 1] % 16) = f[j + 1]
    <3>1. Serial!Or((16 * (f[j + 1] \div 16)) % 256, f[j + 1] % 16) = f[j + 1]
      BY <1>4, OrNibbles
    <3> QED BY <3>1, <1>4
  <2>5. Serial!Put(a, c) = [a EXCEPT !.bytes[j + 1] = f[j + 1]]
    BY <1>1, <1>5, <2>2, <2>3, <2>4 DEF Serial!Put, Serial!Space, Serial!FrameLen
  <2>6. Parsed(f, k + 1).spaces = j
    BY <1>8 DEF Parsed
  <2>7. Parsed(f, k + 1).bytes = [a.bytes EXCEPT ![j + 1] = f[j + 1]]
    <3>1. \A i \in 1..4 : Parsed(f, k + 1).bytes[i] = [a.bytes EXCEPT ![j + 1] = f[j + 1]][i]
      BY <1>1, <2>1 DEF Parsed
    <3> QED BY <3>1 DEF Parsed
  <2> QED BY <2>5, <2>6, <2>7 DEF Parsed
<1>9. (k + 1) % 3 \in {0, 1, 2}
  OBVIOUS
<1> QED BY <1>6, <1>7, <1>8, <1>9

\* A set that holds 0 and, with each number below N, the next one.
LEMMA UpTo ==
  ASSUME NEW N \in Nat, NEW T, 0 \in T,
         \A n \in 0..N : n < N /\ n \in T => n + 1 \in T
  PROVE  \A n \in 0..N : n \in T
<1> DEFINE B == (0..N) \ T
           R == OpToRel(<, Nat)
<1>1. SUFFICES ASSUME B # {} PROVE FALSE
  OBVIOUS
<1>2. B \subseteq Nat
  OBVIOUS
<1>3. IsWellFoundedOn(R, Nat)
  BY NatLessThanWellFounded
<1> HIDE DEF B, R
<1>4. PICK x \in B : \A y \in B : ~ (<<y, x>> \in R)
  BY <1>1, <1>2, <1>3, WFMin, Zenon
<1> USE DEF B, R
<1>5. x \in Nat /\ x <= N /\ x # 0 /\ x \notin T
  OBVIOUS
<1>6. x - 1 \in 0..N /\ x - 1 < N /\ x - 1 < x
  BY <1>5
<1>7. x - 1 \notin T
  <2>1. (x - 1) + 1 = x
    BY <1>5
  <2> QED BY <1>5, <1>6, <2>1
<1>8. x - 1 \in B
  BY <1>6, <1>7
<1>9. <<x - 1, x>> \in R
  BY <1>2, <1>5, <1>6, <1>8 DEF OpToRel
<1> QED BY <1>4, <1>8, <1>9

LEMMA Assembles ==
  ASSUME NEW f \in [1..4 -> 0..255], NEW s \in Seq(Nat), Len(s) <= 12,
         \A i \in 1..Len(s) : s[i] = Serial!Text(f)[i]
  PROVE  Serial!Assemble(s) = Parsed(f, Len(s))
<1> DEFINE G == [n \in 0..Len(s) |-> Parsed(f, n)]
           Blank == [spaces |-> 0, bytes |-> [i \in 1..Serial!FrameLen |-> 0]]
           U == CHOOSE u : u = [n \in 0..Len(s) |->
                                  IF n = 0 THEN Blank ELSE Serial!Put(u[n - 1], s[n])]
<1>0. Len(s) \in Nat
  OBVIOUS
<1>1. Blank = Parsed(f, 0)
  <2>1. \A i \in 1..4 : (0 < 3 * i - 2) /\ (0 \div 3) = 0
    OBVIOUS
  <2> QED BY <2>1 DEF Parsed, Serial!FrameLen
<1> HIDE DEF Blank
<1>2. \A n \in 0..Len(s) : n # 0 => G[n] = Serial!Put(G[n - 1], s[n])
  <2> SUFFICES ASSUME NEW n \in 0..Len(s), n # 0
               PROVE  G[n] = Serial!Put(G[n - 1], s[n])
    OBVIOUS
  <2>1. n - 1 \in 0..11 /\ n - 1 \in 0..Len(s) /\ (n - 1) + 1 = n /\ n \in 1..Len(s)
    BY <1>0
  <2>2. Serial!Put(Parsed(f, n - 1), s[n]) = Parsed(f, n)
    BY <2>1, PutsNext
  <2>3. G[n] = Parsed(f, n) /\ G[n - 1] = Parsed(f, n - 1)
    BY <2>1
  <2> QED BY <2>2, <2>3
<1>3. G = [n \in 0..Len(s) |-> IF n = 0 THEN Blank ELSE Serial!Put(G[n - 1], s[n])]
  <2>1. G[0] = Blank
    BY <1>0, <1>1
  <2> HIDE DEF G
  <2>2. \A n \in 0..Len(s) : G[n] = IF n = 0 THEN Blank ELSE Serial!Put(G[n - 1], s[n])
    BY <1>2, <2>1
  <2>3. G = [n \in 0..Len(s) |-> G[n]]
    BY DEF G
  <2> QED BY <2>2, <2>3
<1> HIDE DEF G
<1>4. U = [n \in 0..Len(s) |-> IF n = 0 THEN Blank ELSE Serial!Put(U[n - 1], s[n])]
  BY <1>3, Zenon
<1>5. Serial!Assemble(s) = U[Len(s)]
  BY DEF Serial!Assemble, Blank
<1> HIDE DEF U
<1> DEFINE T == {n \in 0..Len(s) : U[n] = G[n]}
<1>6. 0 \in T
  BY <1>0, <1>1, <1>4 DEF G
<1>7. \A n \in 0..Len(s) : n < Len(s) /\ n \in T => n + 1 \in T
  <2> SUFFICES ASSUME NEW n \in 0..Len(s), n < Len(s), n \in T
               PROVE  n + 1 \in T
    OBVIOUS
  <2>1. n + 1 \in 0..Len(s) /\ n + 1 # 0 /\ (n + 1) - 1 = n
    BY <1>0
  <2>2. U[n + 1] = Serial!Put(U[n], s[n + 1])
    BY <1>4, <2>1
  <2>3. G[n + 1] = Serial!Put(G[n], s[n + 1])
    BY <1>2, <2>1
  <2> QED BY <2>1, <2>2, <2>3
<1> HIDE DEF T
<1>8. \A n \in 0..Len(s) : n \in T
  BY <1>0, <1>6, <1>7, UpTo, Zenon
<1>9. Len(s) \in T
  BY <1>0, <1>8
<1> QED BY <1>0, <1>5, <1>9 DEF T, G

\* The frame that makes the speaker's message m.
FrameOf(m) ==
  IF m.cmd \in {"getvolume", "setvolume"}
  THEN Serial!Frame(Serial!CommandByte[m.cmd], m.data + (IF m.mute THEN 128 ELSE 0))
  ELSE Serial!Frame(1, Serial!CommandByte[m.cmd])

Sayable ==
  {Serial!Message(c, v) : c \in {"getvolume", "setvolume"}, v \in 0..255}
    \cup {Serial!Message(c, 0) : c \in DOMAIN Serial!CommandByte}

CommandNames ==
  {"getvolume", "setvolume", "setmusmode", "booting", "connecting", "connectfail",
   "connectsecc", "afterwakeup", "searching", "playing", "alarm", "updating", "updatefail",
   "setnetworkconf", "setnewsmode", "setdefault", "setmovmode"}

LEMMA CommandsAre ==
  /\ DOMAIN Serial!CommandByte = CommandNames
  /\ \A c \in CommandNames : Serial!CommandByte[c] \in 161..177
  /\ Serial!CommandByte["getvolume"] = 161 /\ Serial!CommandByte["setvolume"] = 162
BY DEF Serial!CommandByte, CommandNames

LEMMA CodesDiffer ==
  \A c \in CommandNames, d \in CommandNames :
     Serial!CommandByte[c] = Serial!CommandByte[d] => c = d
BY DEF Serial!CommandByte, CommandNames

LEMMA XorIsAByte ==
  ASSUME NEW x \in 0..255, NEW y \in 0..255
  PROVE  Serial!Xor(x, y) \in 0..255
<1> DEFINE b == [i \in 1..8 |-> (Serial!Bits(x)[i] + Serial!Bits(y)[i]) % 2]
<1>1. \A z \in 0..255 : \A i \in 1..8 : Serial!Bits(z)[i] \in {0, 1}
  <2> SUFFICES ASSUME NEW z \in 0..255, NEW i \in 1..8 PROVE Serial!Bits(z)[i] \in {0, 1}
    OBVIOUS
  <2>1. Serial!Weights[i] \in {128, 64, 32, 16, 8, 4, 2, 1}
    BY DEF Serial!Weights
  <2>2. z \div Serial!Weights[i] \in Nat
    <3>1. \A w \in {128, 64, 32, 16, 8, 4, 2, 1} : z \div w \in Nat
      OBVIOUS
    <3> QED BY <2>1, <3>1
  <2>3. \A n \in Nat : n % 2 \in {0, 1}
    OBVIOUS
  <2> QED BY <2>2, <2>3 DEF Serial!Bits
<1>2. \A i \in 1..8 : b[i] \in {0, 1}
  <2> SUFFICES ASSUME NEW i \in 1..8 PROVE b[i] \in {0, 1}
    OBVIOUS
  <2>1. \A p, q \in {0, 1} : (p + q) % 2 \in {0, 1}
    OBVIOUS
  <2>2. Serial!Bits(x)[i] \in {0, 1} /\ Serial!Bits(y)[i] \in {0, 1}
    BY <1>1
  <2>3. b[i] = (Serial!Bits(x)[i] + Serial!Bits(y)[i]) % 2
    OBVIOUS
  <2> QED BY <2>1, <2>2, <2>3
<1> HIDE DEF b
<1>3. Serial!Byte(b) \in 0..255
  <2>1. /\ b[1] \in {0, 1} /\ b[2] \in {0, 1} /\ b[3] \in {0, 1} /\ b[4] \in {0, 1}
        /\ b[5] \in {0, 1} /\ b[6] \in {0, 1} /\ b[7] \in {0, 1} /\ b[8] \in {0, 1}
    BY <1>2
  <2> QED BY <2>1 DEF Serial!Byte
<1> QED BY <1>3 DEF b, Serial!Xor

LEMMA FrameParts ==
  ASSUME NEW addr, NEW comd, NEW f, f = Serial!Frame(addr, comd)
  PROVE  f[2] = addr /\ f[3] = comd
BY DEF Serial!Frame

LEMMA FrameIsSound ==
  ASSUME NEW addr, NEW comd
  PROVE  Serial!Sound(Serial!Frame(addr, comd))
BY DEF Serial!Frame, Serial!Sound, Serial!DHead

Octets == 0..255

LEMMA FrameIsBytes ==
  ASSUME NEW addr \in Octets, NEW comd \in Octets
  PROVE  Serial!Frame(addr, comd) \in [1..4 -> Octets]
<1>1. Serial!Xor(addr, comd) \in Octets /\ 122 \in Octets
  <2>1. addr \in 0..255 /\ comd \in 0..255
    BY DEF Octets
  <2>2. Serial!Xor(addr, comd) \in 0..255
    BY <2>1, XorIsAByte
  <2>3. 122 \in 0..255
    OBVIOUS
  <2> QED BY <2>2, <2>3 DEF Octets
<1> DEFINE x == Serial!Xor(addr, comd)
<1>2. Serial!Frame(addr, comd) = <<122, addr, comd, x>>
  BY DEF Serial!Frame, Serial!DHead
<1> HIDE DEF x
<1> QED BY <1>1, <1>2 DEF x

LEMMA MessageParts ==
  \A c, d : /\ Serial!Message(c, d).cmd = c
            /\ Serial!Message(c, d).data = d % 128
            /\ (IF Serial!Message(c, d).mute THEN 128 ELSE 0) = (IF d >= 128 THEN 128 ELSE 0)
BY DEF Serial!Message

LEMMA VolumeFrame ==
  ASSUME NEW c \in {"getvolume", "setvolume"}, NEW v \in 0..255
  PROVE  /\ FrameOf(Serial!Message(c, v)) = Serial!Frame(Serial!CommandByte[c], v)
         /\ Serial!Decode(Serial!Frame(Serial!CommandByte[c], v)) = Serial!Message(c, v)
<1>1. (v % 128) + (IF v >= 128 THEN 128 ELSE 0) = v
  OBVIOUS
<1>2. FrameOf(Serial!Message(c, v)) = Serial!Frame(Serial!CommandByte[c], v)
  <2> DEFINE m == Serial!Message(c, v)
  <2>1. m.cmd = c /\ m.data + (IF m.mute THEN 128 ELSE 0) = v
    BY <1>1, MessageParts
  <2> HIDE DEF m
  <2>2. FrameOf(m) = Serial!Frame(Serial!CommandByte[c], v)
    BY <2>1 DEF FrameOf
  <2> QED BY <2>2 DEF m
<1> DEFINE a == Serial!CommandByte[c]
           f == Serial!Frame(a, v)
<1>3. a \in 161..177 /\ c \in CommandNames
  BY CommandsAre DEF CommandNames
<1>4. f[2] = a /\ f[3] = v
  BY FrameParts
<1>5. f[2] # 1
  BY <1>3, <1>4
<1>6. Serial!Named(a) \cap Serial!VolumeCommands = {c}
  <2>1. Serial!Named(a) = {c}
    <3>1. \A x \in CommandNames : Serial!CommandByte[x] = a <=> x = c
      BY <1>3, CodesDiffer, Zenon
    <3> HIDE DEF a
    <3>2. Serial!Named(a) = {x \in CommandNames : Serial!CommandByte[x] = a}
      BY CommandsAre DEF Serial!Named
    <3> QED BY <1>3, <3>1, <3>2
  <2> QED BY <2>1 DEF Serial!VolumeCommands
<1> HIDE DEF f, a
<1>7. Serial!Decode(f) = Serial!Message(c, v)
  BY <1>4, <1>5, <1>6 DEF Serial!Decode, Serial!Host
<1> QED BY <1>2, <1>7 DEF f, a

LEMMA PlainFrame ==
  ASSUME NEW c \in CommandNames, c \notin {"getvolume", "setvolume"}
  PROVE  /\ FrameOf(Serial!Message(c, 0)) = Serial!Frame(1, Serial!CommandByte[c])
         /\ Serial!Decode(Serial!Frame(1, Serial!CommandByte[c])) = Serial!Message(c, 0)
<1>1. FrameOf(Serial!Message(c, 0)) = Serial!Frame(1, Serial!CommandByte[c])
  BY MessageParts DEF FrameOf
<1> DEFINE d == Serial!CommandByte[c]
           f == Serial!Frame(1, d)
<1>2. d \in 161..177
  BY CommandsAre
<1>3. f[2] = 1 /\ f[3] = d
  BY FrameParts
<1>4. Serial!Named(d) \cap Serial!Plain = {c}
  <2>1. Serial!Named(d) = {c}
    BY <1>2, CommandsAre, CodesDiffer DEF Serial!Named
  <2>2. c \in Serial!Plain
    BY CommandsAre DEF Serial!Plain, Serial!VolumeCommands
  <2> QED BY <2>1, <2>2
<1> HIDE DEF f, d
<1>5. Serial!Decode(f) = Serial!Message(c, 0)
  BY <1>3, <1>4 DEF Serial!Decode, Serial!Host
<1> QED BY <1>1, <1>5 DEF f, d

\* The frame of a message is sound, and is decoded to it.
LEMMA FramesDecode ==
  ASSUME NEW m \in Sayable
  PROVE  /\ FrameOf(m) \in [1..4 -> Octets]
         /\ Serial!Sound(FrameOf(m))
         /\ Serial!Decode(FrameOf(m)) = m
         /\ m # Serial!Unknown
<1>1. CASE \E c \in {"getvolume", "setvolume"}, v \in 0..255 : m = Serial!Message(c, v)
  <2>1. PICK c \in {"getvolume", "setvolume"}, v \in 0..255 : m = Serial!Message(c, v)
    BY <1>1
  <2>2. Serial!CommandByte[c] \in Octets /\ v \in Octets
    BY CommandsAre DEF CommandNames, Octets
  <2>3. m # Serial!Unknown
    BY <2>1, MessageParts DEF Serial!Unknown
  <2> QED BY <2>1, <2>2, <2>3, VolumeFrame, FrameIsBytes, FrameIsSound
<1>2. CASE \E c \in CommandNames \ {"getvolume", "setvolume"} : m = Serial!Message(c, 0)
  <2>1. PICK c \in CommandNames \ {"getvolume", "setvolume"} : m = Serial!Message(c, 0)
    BY <1>2
  <2>2. Serial!CommandByte[c] \in Octets /\ 1 \in Octets
    BY CommandsAre DEF Octets
  <2>i. c \in CommandNames /\ c \notin {"getvolume", "setvolume"}
    OBVIOUS
  <2>3. m # Serial!Unknown
    BY <2>1, MessageParts DEF Serial!Unknown, CommandNames
  <2> QED BY <2>1, <2>2, <2>3, <2>i, PlainFrame, FrameIsBytes, FrameIsSound
<1> QED BY <1>1, <1>2, CommandsAre DEF Sayable

LEMMA AskedFrame ==
  ASSUME NEW c \in Serial!Asked, NEW v \in 0..255, c \in Serial!VolumeCommands \/ v = 0
  PROVE  /\ Serial!Message(c, v) \in Sayable
         /\ Serial!Answer(Serial!Encode(c, v), v) = FrameOf(Serial!Message(c, v))
<1>1. c \in CommandNames /\ DOMAIN Serial!CommandByte = CommandNames
  BY CommandsAre DEF Serial!Asked
<1>2. Serial!CommandByte[c] \in 0..255 /\ 2 \in 0..255 /\ Serial!CommandByte[c] # 2
  BY <1>1, CommandsAre
<1>3. CASE c = "setvolume"
  <2>1. Serial!Encode(c, v) = Serial!Frame(Serial!CommandByte[c], v)
    BY <1>3 DEF Serial!Encode
  <2>2. Serial!Encode(c, v)[2] # 2
    BY <2>1, <1>2, FrameParts
  <2>3. Serial!Answer(Serial!Encode(c, v), v) = Serial!Encode(c, v)
    BY <2>2 DEF Serial!Answer, Serial!Speaker
  <2> QED BY <1>3, <2>1, <2>3, VolumeFrame DEF Sayable
<1>4. CASE c # "setvolume"
  <2>1. Serial!Encode(c, v) = Serial!Frame(2, Serial!CommandByte[c])
    BY <1>4 DEF Serial!Encode, Serial!Speaker
  <2>2. Serial!Encode(c, v)[2] = 2 /\ Serial!Encode(c, v)[3] = Serial!CommandByte[c]
    BY <2>1, <1>2, FrameParts
  <2>3. CASE c = "getvolume"
    <3>1. Serial!Answer(Serial!Encode(c, v), v) = Serial!Frame(Serial!CommandByte[c], v)
      BY <2>2, <2>3 DEF Serial!Answer, Serial!Speaker, Serial!CommandByte
    <3> QED BY <2>3, <3>1, VolumeFrame DEF Sayable
  <2>4. CASE c # "getvolume"
    <3>1. v = 0
      BY <1>4, <2>4 DEF Serial!VolumeCommands
    <3>2. Serial!CommandByte[c] # 161
      BY <1>1, <2>4, CommandsAre, CodesDiffer DEF CommandNames
    <3>3. Serial!Answer(Serial!Encode(c, v), v) = Serial!Frame(1, Serial!CommandByte[c])
      <4>1. Serial!CommandByte.getvolume = 161
        BY DEF Serial!CommandByte
      <4> QED BY <2>2, <3>2, <4>1 DEF Serial!Answer, Serial!Speaker, Serial!Host
    <3> QED BY <1>1, <1>4, <2>4, <3>1, <3>3, PlainFrame DEF Sayable
  <2> QED BY <2>3, <2>4
<1> QED BY <1>3, <1>4

\* Character n of what the speaker has sent, msgs being its messages.
CharAt(msgs, n) == Serial!Text(FrameOf(msgs[(n + 11) \div 12]))[((n - 1) % 12) + 1]

\* s is stored and w is in the line: the characters that follow those of the
\* frames that were heard, h.
Stream(s, w, m, h) ==
  /\ s \in Seq(Nat) /\ w \in Seq(Nat) /\ m \in Seq(Sayable) /\ h \in Seq(Sayable)
  /\ Len(h) <= Len(m) /\ \A i \in 1..Len(h) : h[i] = m[i]
  /\ Len(s) < 12
  /\ 12 * Len(h) + Len(s) + Len(w) = 12 * Len(m)
  /\ \A i \in 1..Len(s) : s[i] = CharAt(m, 12 * Len(h) + i)
  /\ \A i \in 1..Len(w) : w[i] = CharAt(m, 12 * Len(h) + Len(s) + i)

SerialInv ==
  /\ faults \in Nat
  /\ faults = 0 => Stream(store, wire, meant, heard)

LEMMA TextIsTwelve ==
  ASSUME NEW f \in [1..4 -> Octets]
  PROVE  Serial!Text(f) \in Seq(Nat) /\ Len(Serial!Text(f)) = 12
<1>1. \A k \in 1..12 : Serial!Text(f)[k] \in Nat
  <2> SUFFICES ASSUME NEW k \in 1..12 PROVE Serial!Text(f)[k] \in Nat
    OBVIOUS
  <2> DEFINE b == f[(k + 2) \div 3]
  <2>1. (k + 2) \div 3 \in 1..4
    OBVIOUS
  <2>2. b \in 0..255
    BY <2>1 DEF Octets
  <2>3. Serial!Text(f)[k] = IF k % 3 = 0 THEN 32
                            ELSE Serial!Digit(IF k % 3 = 1 THEN b \div 16 ELSE b % 16)
    BY DEF Serial!Text, Serial!MaxPacketLen, Serial!Space
  <2> HIDE DEF b
  <2>4. b \div 16 \in Nat /\ b % 16 \in Nat
    BY <2>2
  <2>5. \A n \in Nat : Serial!Digit(n) \in Nat
    BY DEF Serial!Digit
  <2> QED BY <2>3, <2>4, <2>5
<1>2. DOMAIN Serial!Text(f) = 1..12 /\ Serial!Text(f) = [k \in 1..12 |-> Serial!Text(f)[k]]
  BY DEF Serial!Text, Serial!MaxPacketLen
<1> QED BY <1>1, <1>2

LEMMA CharsOfFrame ==
  ASSUME NEW m, NEW H \in Nat, NEW i \in 1..12
  PROVE  CharAt(m, 12 * H + i) = Serial!Text(FrameOf(m[H + 1]))[i]
<1>1. (12 * H + i + 11) \div 12 = H + 1
  OBVIOUS
<1>2. ((12 * H + i - 1) % 12) + 1 = i
  OBVIOUS
<1> QED BY <1>1, <1>2 DEF CharAt

LEMMA Joined ==
  ASSUME NEW a \in Seq(Nat), NEW b \in Seq(Nat)
  PROVE  /\ a \o b \in Seq(Nat) /\ Len(a \o b) = Len(a) + Len(b)
         /\ \A i \in 1..Len(a) : (a \o b)[i] = a[i]
         /\ \A i \in 1..Len(b) : (a \o b)[Len(a) + i] = b[i]
<1>1. a \o b \in Seq(Nat) /\ Len(a \o b) = Len(a) + Len(b)
  OBVIOUS
<1>2. \A i \in 1..Len(a) : (a \o b)[i] = a[i]
  OBVIOUS
<1>3. \A i \in 1..Len(b) : (a \o b)[Len(a) + i] = b[i]
  <2> SUFFICES ASSUME NEW i \in 1..Len(b) PROVE (a \o b)[Len(a) + i] = b[i]
    OBVIOUS
  <2> DEFINE n == Len(a) + i
  <2>1. n \in 1..Len(a) + Len(b) /\ n > Len(a) /\ n - Len(a) = i
    OBVIOUS
  <2>2. (a \o b)[n] = b[n - Len(a)]
    BY <2>1
  <2> QED BY <2>1, <2>2
<1> QED BY <1>1, <1>2, <1>3

LEMMA Shifted ==
  ASSUME NEW H \in Nat, NEW S \in Nat, NEW k \in Nat, NEW i \in Nat
  PROVE  H + S + (k + i) = H + (S + k) + i
OBVIOUS

LEMMA Fits ==
  ASSUME NEW S \in Nat, NEW k \in 1..12, k <= 12 - S
  PROVE  S + k \in 1..12
OBVIOUS

LEMMA SentAfter ==
  ASSUME NEW s, NEW w, NEW m, NEW h, Stream(s, w, m, h), NEW x \in Sayable
  PROVE  Stream(s, w \o Serial!Text(FrameOf(x)), Append(m, x), h)
<1> DEFINE t == Serial!Text(FrameOf(x))
           w2 == w \o t
           m2 == Append(m, x)
           L == 12 * Len(h) + Len(s)
<1>0. /\ s \in Seq(Nat) /\ w \in Seq(Nat) /\ m \in Seq(Sayable) /\ h \in Seq(Sayable)
      /\ Len(h) <= Len(m) /\ Len(s) < 12
      /\ 12 * Len(h) + Len(s) + Len(w) = 12 * Len(m)
  BY DEF Stream
<1>int. Len(h) \in Nat /\ Len(s) \in Nat /\ Len(w) \in Nat /\ Len(m) \in Nat
  BY <1>0
<1>1. t \in Seq(Nat) /\ Len(t) = 12
  BY FramesDecode, TextIsTwelve
<1>2. m2 \in Seq(Sayable) /\ Len(m2) = Len(m) + 1 /\ m2[Len(m) + 1] = x
      /\ \A i \in 1..Len(m) : m2[i] = m[i]
  BY <1>0
<1> HIDE DEF t, m2
<1>j. /\ w2 \in Seq(Nat) /\ Len(w2) = Len(w) + Len(t)
      /\ \A i \in 1..Len(w) : w2[i] = w[i]
      /\ \A i \in 1..Len(t) : w2[Len(w) + i] = t[i]
  BY <1>0, <1>1, Joined, Zenon
<1> HIDE DEF w2
<1>3. /\ w2 \in Seq(Nat) /\ Len(w2) = Len(w) + 12
      /\ \A i \in 1..Len(w) : w2[i] = w[i]
      /\ \A i \in 1..12 : w2[Len(w) + i] = t[i]
  BY <1>1, <1>j
<1>len. /\ Len(w2) = Len(w) + 12 /\ Len(m2) = Len(m) + 1
        /\ 12 * Len(h) + Len(s) + Len(w) = 12 * Len(m) /\ Len(h) <= Len(m)
  BY <1>0, <1>2, <1>3
<1>4. \A n \in 1..12 * Len(m) : CharAt(m2, n) = CharAt(m, n)
  <2> SUFFICES ASSUME NEW n \in 1..12 * Len(m) PROVE CharAt(m2, n) = CharAt(m, n)
    OBVIOUS
  <2>1. (n + 11) \div 12 \in 1..Len(m)
    BY <1>int
  <2> QED BY <1>2, <2>1 DEF CharAt
<1>5. \A i \in 1..12 : CharAt(m2, 12 * Len(m) + i) = t[i]
  BY <1>int, <1>2, CharsOfFrame DEF t
<1>6. \A i \in 1..Len(s) : s[i] = CharAt(m2, 12 * Len(h) + i)
  <2> SUFFICES ASSUME NEW i \in 1..Len(s) PROVE s[i] = CharAt(m2, 12 * Len(h) + i)
    OBVIOUS
  <2>1. s[i] = CharAt(m, 12 * Len(h) + i)
    BY DEF Stream
  <2>2. 12 * Len(h) + i \in 1..12 * Len(m)
    BY <1>0, <1>int
  <2> QED BY <1>4, <2>1, <2>2
<1>7. \A i \in 1..Len(w2) : w2[i] = CharAt(m2, L + i)
  <2> SUFFICES ASSUME NEW i \in 1..Len(w2) PROVE w2[i] = CharAt(m2, L + i)
    OBVIOUS
  <2>1. CASE i <= Len(w)
    <3>i. i \in 1..Len(w)
      BY <1>int, <2>1
    <3>w. \A j \in 1..Len(w) : w[j] = CharAt(m, L + j)
      BY DEF Stream
    <3>1. w[i] = CharAt(m, L + i) /\ w2[i] = w[i]
      BY <1>3, <3>i, <3>w
    <3>2. L + i \in 1..12 * Len(m)
      BY <1>0, <1>int, <2>1
    <3> QED BY <1>4, <3>1, <3>2
  <2>2. CASE i > Len(w)
    <3> DEFINE j == i - Len(w)
    <3>i. i \in Nat /\ i <= Len(w) + 12
      BY <1>int, <1>len
    <3>1. j \in 1..12 /\ i = Len(w) + j /\ L + i = 12 * Len(m) + j
      <4> DEFINE A == 12 * Len(h)
                 B == Len(s)
                 C == Len(w)
                 D == 12 * Len(m)
      <4>1. /\ A \in Nat /\ B \in Nat /\ C \in Nat /\ D \in Nat
            /\ A + B + C = D /\ i \in Nat /\ i <= C + 12 /\ i > C
        BY <3>i, <1>int, <1>len, <2>2
      <4> HIDE DEF A, B, C, D
      <4>2. i - C \in 1..12
        BY <4>1
      <4>3. i = C + (i - C)
        BY <4>1
      <4>4. A + B + i = D + (i - C)
        BY <4>1
      <4> QED BY <4>2, <4>3, <4>4 DEF A, B, C, D
    <3>2. w2[Len(w) + j] = t[j] /\ CharAt(m2, 12 * Len(m) + j) = t[j]
      BY <1>3, <1>5, <3>1
    <3> QED BY <3>1, <3>2
  <2>3. i <= Len(w) \/ i > Len(w)
    BY <1>int, <1>len
  <2> QED BY <2>1, <2>2, <2>3
<1>8. \A i \in 1..Len(h) : h[i] = m2[i]
  <2>1. \A i \in 1..Len(h) : h[i] = m[i] /\ i \in 1..Len(m)
    BY <1>0, <1>int DEF Stream
  <2> QED BY <1>2, <2>1
<1>9. Len(h) <= Len(m2) /\ L + Len(w2) = 12 * Len(m2)
  BY <1>int, <1>len
<1>10. Stream(s, w2, m2, h)
  BY <1>0, <1>2, <1>3, <1>6, <1>7, <1>8, <1>9 DEF Stream
<1> QED BY <1>10 DEF w2, m2, t

LEMMA TailOf ==
  ASSUME NEW w \in Seq(Nat), NEW k \in Nat, k <= Len(w)
  PROVE  /\ SubSeq(w, k + 1, Len(w)) \in Seq(Nat)
         /\ Len(SubSeq(w, k + 1, Len(w))) = Len(w) - k
         /\ \A i \in 1..Len(SubSeq(w, k + 1, Len(w))) : SubSeq(w, k + 1, Len(w))[i] = w[k + i]
<1>1. SubSeq(w, k + 1, Len(w)) \in Seq(Nat)
  OBVIOUS
<1>2. Len(SubSeq(w, k + 1, Len(w))) = Len(w) - k
  OBVIOUS
<1>3. \A i \in 1..Len(w) - k : SubSeq(w, k + 1, Len(w))[i] = w[k + i]
  OBVIOUS
<1> QED BY <1>1, <1>2, <1>3

\* A read of k characters: s2 is stored then, and rest stays in the line.
Taken(s, w, k, s2, rest) ==
  /\ k <= Len(w) /\ k <= 12 - Len(s)
  /\ s2 = s \o SubSeq(w, 1, k)
  /\ rest = SubSeq(w, k + 1, Len(w))

LEMMA ReadOn ==
  ASSUME NEW s, NEW w, NEW m, NEW h, Stream(s, w, m, h),
         NEW k \in 1..12, NEW s2, NEW rest, Taken(s, w, k, s2, rest)
  PROVE  /\ s2 \in Seq(Nat) /\ Len(s2) = Len(s) + k /\ rest \in Seq(Nat)
         /\ Len(s2) \in 1..12 /\ Len(rest) = Len(w) - k
         /\ Len(h) + 1 <= Len(m)
         /\ \A i \in 1..Len(s2) : s2[i] = CharAt(m, 12 * Len(h) + i)
         /\ \A i \in 1..Len(rest) : rest[i] = CharAt(m, 12 * Len(h) + Len(s2) + i)
<1>0. /\ s \in Seq(Nat) /\ w \in Seq(Nat) /\ m \in Seq(Sayable) /\ h \in Seq(Sayable)
      /\ Len(h) <= Len(m) /\ Len(s) < 12
      /\ 12 * Len(h) + Len(s) + Len(w) = 12 * Len(m)
  BY DEF Stream
<1>k. k <= Len(w) /\ k <= 12 - Len(s)
  BY DEF Taken
<1>cut. s2 = s \o SubSeq(w, 1, k) /\ rest = SubSeq(w, k + 1, Len(w))
  BY DEF Taken
<1>int. Len(h) \in Nat /\ Len(s) \in Nat /\ Len(w) \in Nat /\ Len(m) \in Nat
  BY <1>0
<1> DEFINE p == SubSeq(w, 1, k)
<1>1. p \in Seq(Nat) /\ Len(p) = k /\ \A i \in 1..k : p[i] = w[i]
  <2>1. w \in Seq(Nat) /\ 1 \in 1..Len(w) + 1 /\ k \in 0..Len(w) /\ k \in Nat
    BY <1>0, <1>k, <1>int
  <2>2. Len(p) = k /\ \A i \in 1..k : p[i] = w[i]
    BY <2>1
  <2>3. p \in Seq(Nat)
    BY <2>1
  <2> QED BY <2>2, <2>3
<1>a. s \in Seq(Nat) /\ p \in Seq(Nat)
  BY <1>0, <1>1
<1>2. rest \in Seq(Nat) /\ Len(rest) = Len(w) - k /\ \A i \in 1..Len(rest) : rest[i] = w[k + i]
  <2> DEFINE r == SubSeq(w, k + 1, Len(w))
  <2>1. w \in Seq(Nat) /\ k \in Nat /\ Len(w) \in Nat /\ k <= Len(w)
    BY <1>0, <1>k, <1>int
  <2>2. r \in Seq(Nat) /\ Len(r) = Len(w) - k /\ \A i \in 1..Len(r) : r[i] = w[k + i]
    BY <2>1, TailOf, Zenon
  <2> HIDE DEF r
  <2>3. rest = r
    BY <1>cut DEF r
  <2> QED BY <2>2, <2>3
<1> HIDE DEF p
<1>3. s2 = s \o p
  BY <1>cut DEF p
<1> DEFINE q == s \o p
<1>j. /\ q \in Seq(Nat) /\ Len(q) = Len(s) + Len(p)
      /\ \A i \in 1..Len(s) : q[i] = s[i]
      /\ \A i \in 1..Len(p) : q[Len(s) + i] = p[i]
  BY <1>a, Joined, Zenon
<1>q. s2 = q
  BY <1>3
<1> HIDE DEF q
<1>4. /\ s2 \in Seq(Nat) /\ Len(s2) = Len(s) + k
      /\ \A i \in 1..Len(s) : s2[i] = s[i]
      /\ \A i \in 1..k : s2[Len(s) + i] = p[i]
  BY <1>1, <1>j, <1>q
<1>len. /\ Len(s2) = Len(s) + k
        /\ 12 * Len(h) + Len(s) + Len(w) = 12 * Len(m) /\ Len(h) <= Len(m)
  BY <1>0, <1>4
<1>5. Len(s2) \in 1..12 /\ Len(h) + 1 <= Len(m)
  <2>s. Len(s) + k \in 1..12
    BY <1>int, <1>k, Fits, Zenon
  <2>1. Len(s2) \in 1..12
    BY <1>len, <2>s, Zenon
  <2>2. 12 * Len(m) - 12 * Len(h) \in Nat /\ 12 * Len(m) - 12 * Len(h) > 0
    BY <1>int, <1>k, <1>len
  <2> QED BY <1>int, <2>1, <2>2
<1>6. \A i \in 1..Len(s2) : s2[i] = CharAt(m, 12 * Len(h) + i)
  <2> SUFFICES ASSUME NEW i \in 1..Len(s2) PROVE s2[i] = CharAt(m, 12 * Len(h) + i)
    OBVIOUS
  <2>1. CASE i <= Len(s)
    <3>i. i \in 1..Len(s)
      BY <1>int, <1>len, <2>1
    <3>s. \A j \in 1..Len(s) : s[j] = CharAt(m, 12 * Len(h) + j)
      BY DEF Stream
    <3> QED BY <1>4, <3>i, <3>s
  <2>2. CASE i > Len(s)
    <3> DEFINE j == i - Len(s)
    <3>1. j \in 1..k /\ j \in 1..Len(w) /\ i = Len(s) + j
      BY <1>len, <1>int, <1>k, <2>2
    <3>2. s2[Len(s) + j] = w[j]
      BY <1>1, <1>4, <3>1
    <3>3. w[j] = CharAt(m, 12 * Len(h) + Len(s) + j)
      BY <3>1 DEF Stream
    <3>4. 12 * Len(h) + Len(s) + j = 12 * Len(h) + i
      BY <1>int, <3>1
    <3> QED BY <3>1, <3>2, <3>3, <3>4
  <2> QED BY <2>1, <2>2, <1>int, <1>len
<1>7. \A i \in 1..Len(rest) : rest[i] = CharAt(m, 12 * Len(h) + Len(s2) + i)
  <2> SUFFICES ASSUME NEW i \in 1..Len(rest)
               PROVE  rest[i] = CharAt(m, 12 * Len(h) + Len(s2) + i)
    OBVIOUS
  <2>1. k + i \in 1..Len(w)
    BY <1>2, <1>int
  <2>2. w[k + i] = CharAt(m, 12 * Len(h) + Len(s) + (k + i))
    BY <2>1 DEF Stream
  <2>i. i \in Nat
    BY <1>2, <1>int
  <2>k. k \in Nat
    OBVIOUS
  <2>3. 12 * Len(h) + Len(s) + (k + i) = 12 * Len(h) + Len(s2) + i
    <3> DEFINE A == 12 * Len(h)
               B == Len(s)
               D == Len(s2)
    <3>1. A \in Nat /\ B \in Nat /\ D = B + k
      BY <1>int, <1>len
    <3> HIDE DEF A, B, D
    <3>2. A + B + (k + i) = A + D + i
      BY <2>i, <2>k, <3>1, Shifted
    <3> QED BY <3>2 DEF A, B, D
  <2> QED BY <1>2, <2>2, <2>3
<1> QED BY <1>2, <1>4, <1>5, <1>6, <1>7

\* A read that does not complete a frame: what it brings is kept.
LEMMA ReadPart ==
  ASSUME NEW s, NEW w, NEW m, NEW h, Stream(s, w, m, h),
         NEW k \in 1..12, NEW s2, NEW rest, Taken(s, w, k, s2, rest),
         Len(s2) < 12
  PROVE  /\ Serial!Assemble(s2).spaces \in Nat /\ Serial!Assemble(s2).spaces < 4
         /\ Stream(s2, rest, m, h)
<1>0. /\ s \in Seq(Nat) /\ w \in Seq(Nat) /\ m \in Seq(Sayable) /\ h \in Seq(Sayable)
      /\ Len(h) <= Len(m) /\ Len(s) < 12
      /\ 12 * Len(h) + Len(s) + Len(w) = 12 * Len(m)
      /\ \A i \in 1..Len(h) : h[i] = m[i]
  BY DEF Stream
<1>k. k <= Len(w) /\ k <= 12 - Len(s)
  BY DEF Taken
<1>int. Len(h) \in Nat /\ Len(s) \in Nat /\ Len(w) \in Nat /\ Len(m) \in Nat
  BY <1>0
<1>1. /\ s2 \in Seq(Nat) /\ Len(s2) = Len(s) + k /\ rest \in Seq(Nat)
      /\ Len(s2) \in 1..12 /\ Len(rest) = Len(w) - k
      /\ Len(h) + 1 <= Len(m)
      /\ \A i \in 1..Len(s2) : s2[i] = CharAt(m, 12 * Len(h) + i)
      /\ \A i \in 1..Len(rest) : rest[i] = CharAt(m, 12 * Len(h) + Len(s2) + i)
  BY ReadOn
<1> DEFINE x == m[Len(h) + 1]
           f == FrameOf(x)
<1>2. x \in Sayable
  <2>1. Len(h) + 1 \in 1..Len(m)
    BY <1>int, <1>1
  <2> QED BY <1>0, <2>1
<1>3. \A i \in 1..Len(s2) : s2[i] = Serial!Text(f)[i]
  <2> SUFFICES ASSUME NEW i \in 1..Len(s2) PROVE s2[i] = Serial!Text(f)[i]
    OBVIOUS
  <2>1. i \in 1..12
    BY <1>1
  <2>2. CharAt(m, 12 * Len(h) + i) = Serial!Text(FrameOf(m[Len(h) + 1]))[i]
    BY <1>int, <2>1, CharsOfFrame
  <2> QED BY <1>1, <2>2
<1>4. f \in [1..4 -> 0..255]
  <2> HIDE DEF x
  <2>1. f \in [1..4 -> Octets]
    BY <1>2, FramesDecode
  <2> QED BY <2>1 DEF Octets
<1> HIDE DEF f, x
<1>5. Serial!Assemble(s2) = Parsed(f, Len(s2))
  <2>1. s2 \in Seq(Nat) /\ Len(s2) <= 12
    BY <1>1
  <2> QED BY <1>3, <1>4, <2>1, Assembles, Zenon
<1>6. Serial!Assemble(s2).spaces \in Nat /\ Serial!Assemble(s2).spaces < 4
  <2> DEFINE n == Len(s2)
  <2>1. n \in 1..12 /\ n < 12
    BY <1>1
  <2> HIDE DEF n
  <2>2. n \div 3 \in Nat /\ n \div 3 < 4
    BY <2>1
  <2>3. Parsed(f, n).spaces = n \div 3
    BY DEF Parsed
  <2> QED BY <1>5, <2>2, <2>3 DEF n
<1>7. 12 * Len(h) + Len(s2) + Len(rest) = 12 * Len(m)
  <2> DEFINE A == 12 * Len(h)
             B == Len(s)
             C == Len(w)
             D == Len(s2)
             R == Len(rest)
             M == 12 * Len(m)
  <2>1. /\ A \in Nat /\ B \in Nat /\ C \in Nat /\ D = B + k /\ R = C - k /\ A + B + C = M
    BY <1>int, <1>0, <1>1
  <2>2. k \in Nat
    OBVIOUS
  <2> HIDE DEF A, B, C, D, R, M
  <2>3. A + D + R = M
    BY <2>1, <2>2
  <2> QED BY <2>3 DEF A, B, C, D, R, M
<1>8. Stream(s2, rest, m, h)
  BY <1>0, <1>1, <1>7 DEF Stream
<1> QED BY <1>6, <1>8

\* A read that completes a frame: it is decoded to the message it was sent for.
LEMMA ReadWhole ==
  ASSUME NEW s, NEW w, NEW m, NEW h, Stream(s, w, m, h),
         NEW k \in 1..12, NEW s2, NEW rest, Taken(s, w, k, s2, rest),
         ~(Len(s2) < 12),
         NEW a, a = Serial!Assemble(s2)
  PROVE  /\ a.spaces = 4 /\ Serial!Sound(a.bytes)
         /\ Serial!Decode(a.bytes) # Serial!Unknown
         /\ Stream(<<>>, rest, m, Append(h, Serial!Decode(a.bytes)))
<1>0. /\ s \in Seq(Nat) /\ w \in Seq(Nat) /\ m \in Seq(Sayable) /\ h \in Seq(Sayable)
      /\ Len(h) <= Len(m) /\ Len(s) < 12
      /\ 12 * Len(h) + Len(s) + Len(w) = 12 * Len(m)
      /\ \A i \in 1..Len(h) : h[i] = m[i]
  BY DEF Stream
<1>k. k <= Len(w) /\ k <= 12 - Len(s)
  BY DEF Taken
<1>int. Len(h) \in Nat /\ Len(s) \in Nat /\ Len(w) \in Nat /\ Len(m) \in Nat
  BY <1>0
<1>1. /\ s2 \in Seq(Nat) /\ Len(s2) = Len(s) + k /\ rest \in Seq(Nat)
      /\ Len(s2) \in 1..12 /\ Len(rest) = Len(w) - k
      /\ Len(h) + 1 <= Len(m)
      /\ \A i \in 1..Len(s2) : s2[i] = CharAt(m, 12 * Len(h) + i)
      /\ \A i \in 1..Len(rest) : rest[i] = CharAt(m, 12 * Len(h) + Len(s2) + i)
  BY ReadOn
<1> DEFINE x == m[Len(h) + 1]
           f == FrameOf(x)
           h2 == Append(h, x)
<1>in. Len(h) + 1 \in 1..Len(m)
  BY <1>int, <1>1
<1>2. x \in Sayable
  BY <1>0, <1>in
<1>12. Len(s2) = 12
  <2> DEFINE n == Len(s2)
  <2>1. n \in 1..12 /\ ~(n < 12)
    BY <1>1
  <2> HIDE DEF n
  <2>2. n = 12
    BY <2>1
  <2> QED BY <2>2 DEF n
<1>3. \A i \in 1..Len(s2) : s2[i] = Serial!Text(f)[i]
  <2> SUFFICES ASSUME NEW i \in 1..Len(s2) PROVE s2[i] = Serial!Text(f)[i]
    OBVIOUS
  <2>1. i \in 1..12
    BY <1>12
  <2>2. CharAt(m, 12 * Len(h) + i) = Serial!Text(FrameOf(m[Len(h) + 1]))[i]
    BY <1>int, <2>1, CharsOfFrame
  <2> QED BY <1>1, <2>2
<1>4. f \in [1..4 -> 0..255] /\ Serial!Sound(f) /\ Serial!Decode(f) = x /\ x # Serial!Unknown
  <2> HIDE DEF x
  <2>1. f \in [1..4 -> Octets]
    BY <1>2, FramesDecode
  <2>2. Serial!Sound(f) /\ Serial!Decode(f) = x /\ x # Serial!Unknown
    BY <1>2, FramesDecode
  <2>3. f \in [1..4 -> 0..255]
    BY <2>1 DEF Octets
  <2> QED BY <2>2, <2>3
<1>h. /\ h2 \in Seq(Sayable) /\ Len(h2) = Len(h) + 1 /\ h2[Len(h) + 1] = x
      /\ \A i \in 1..Len(h) : h2[i] = h[i]
  BY <1>0, <1>2
<1> HIDE DEF f, h2
<1>5. a = Parsed(f, 12)
  <2>1. s2 \in Seq(Nat) /\ Len(s2) <= 12
    <3>1. s2 \in Seq(Nat)
      BY <1>1
    <3>2. 12 <= 12
      OBVIOUS
    <3> QED BY <1>12, <3>1, <3>2
  <2>2. Serial!Assemble(s2) = Parsed(f, Len(s2))
    BY <1>3, <1>4, <2>1, Assembles, Zenon
  <2> QED BY <1>12, <2>2
<1>6. a.spaces = 4 /\ a.bytes = f
  <2>1. Parsed(f, 12).spaces = 4
    BY DEF Parsed
  <2>2. Parsed(f, 12).bytes = [i \in 1..4 |-> f[i]]
    <3>1. \A i \in 1..4 : Parsed(f, 12).bytes[i] = f[i]
      BY DEF Parsed
    <3>2. Parsed(f, 12).bytes = [i \in 1..4 |-> Parsed(f, 12).bytes[i]]
      BY DEF Parsed
    <3> QED BY <3>1, <3>2
  <2>3. f = [i \in 1..4 |-> f[i]]
    BY <1>4
  <2> QED BY <1>5, <2>1, <2>2, <2>3
<1>7. Stream(<<>>, rest, m, h2)
  <2>1. \A i \in 1..Len(h2) : h2[i] = m[i]
    <3> SUFFICES ASSUME NEW i \in 1..Len(h2) PROVE h2[i] = m[i]
      OBVIOUS
    <3>1. i \in 1..Len(h) \/ i = Len(h) + 1
      BY <1>int, <1>h
    <3>2. CASE i \in 1..Len(h)
      BY <1>0, <1>h, <3>2
    <3>3. CASE i = Len(h) + 1
      BY <1>h, <3>3
    <3> QED BY <3>1, <3>2, <3>3
  <2> DEFINE A == 12 * Len(h)
             B == Len(s)
             C == Len(w)
             R == Len(rest)
             M == 12 * Len(m)
             A2 == 12 * Len(h2)
  <2>2. /\ A \in Nat /\ B \in Nat /\ C \in Nat /\ 12 = B + k /\ R = C - k /\ A + B + C = M
        /\ A2 = A + 12
    BY <1>int, <1>k, <1>0, <1>1, <1>12, <1>h
  <2>k. k \in Nat
    OBVIOUS
  <2> HIDE DEF A, B, C, R, M, A2
  <2>3. A2 + 0 + R = M
    BY <2>2, <2>k
  <2>4. \A i \in Nat : A + 12 + i = A2 + 0 + i
    BY <2>2
  <2>5. Len(<<>>) = 0 /\ <<>> \in Seq(Nat)
    OBVIOUS
  <2>6. \A i \in 1..Len(rest) : rest[i] = CharAt(m, 12 * Len(h2) + 0 + i)
    <3> SUFFICES ASSUME NEW i \in 1..Len(rest)
                 PROVE  rest[i] = CharAt(m, 12 * Len(h2) + 0 + i)
      OBVIOUS
    <3>1. rest[i] = CharAt(m, 12 * Len(h) + Len(s2) + i)
      BY <1>1
    <3>2. i \in Nat
      OBVIOUS
    <3>3. 12 * Len(h) + 12 + i = 12 * Len(h2) + 0 + i
      BY <2>4, <3>2 DEF A, A2
    <3> QED BY <1>12, <3>1, <3>3
  <2>7. 12 * Len(h2) + 0 + Len(rest) = 12 * Len(m)
    BY <2>3 DEF A2, R, M
  <2>8. Len(h2) <= Len(m)
    BY <1>1, <1>h
  <2> DEFINE e == <<>>
  <2>9. e \in Seq(Nat) /\ Len(e) = 0
    BY <2>5
  <2> HIDE DEF e
  <2>10. \A i \in 1..Len(e) : e[i] = CharAt(m, 12 * Len(h2) + i)
    BY <2>9
  <2>11. /\ 12 * Len(h2) + Len(e) + Len(rest) = 12 * Len(m)
         /\ \A i \in 1..Len(rest) : rest[i] = CharAt(m, 12 * Len(h2) + Len(e) + i)
    BY <2>6, <2>7, <2>9
  <2>12. Len(e) < 12
    BY <2>9
  <2>13. m \in Seq(Sayable) /\ h2 \in Seq(Sayable) /\ rest \in Seq(Nat)
    BY <1>0, <1>1, <1>h
  <2>14. Stream(e, rest, m, h2)
    BY <2>1, <2>8, <2>9, <2>10, <2>11, <2>12, <2>13, Zenon DEF Stream
  <2> QED BY <2>14 DEF e
<1> QED BY <1>4, <1>6, <1>7 DEF h2

\* The speaker has sent the frame of x.
LEMMA SendIsRight ==
  ASSUME SerialInv, NEW x \in Sayable, Serial!Send(FrameOf(x), x)
  PROVE  SerialInv'
<1>0. faults \in Nat
  BY DEF SerialInv
<1>1. CASE wire' = wire \o Serial!Text(FrameOf(x)) /\ faults' = faults
  <2>1. meant' = Append(meant, x) /\ store' = store /\ heard' = heard
    BY DEF Serial!Send
  <2>2. faults = 0 => Stream(store, wire \o Serial!Text(FrameOf(x)), Append(meant, x), heard)
    BY SentAfter DEF SerialInv
  <2> QED BY <1>0, <1>1, <2>1, <2>2 DEF SerialInv
<1>2. CASE faults' = faults + 1
  BY <1>0, <1>2 DEF SerialInv
<1> QED BY <1>1, <1>2 DEF Serial!Send

LEMMA AskIsRight ==
  ASSUME SerialInv, NEW c \in Serial!Asked, NEW v \in Volumes \cup {0}, Serial!Ask(c, v)
  PROVE  SerialInv'
<1> DEFINE x == Serial!Message(c, v)
<1>1. x \in Sayable /\ Serial!Answer(Serial!Encode(c, v), v) = FrameOf(x)
  <2>1. v \in 0..255 /\ (c \in Serial!VolumeCommands \/ v = 0)
    BY PeripheralsAssumption DEF Serial!Ask
  <2> QED BY <2>1, AskedFrame
<1>2. Serial!Send(FrameOf(x), x)
  BY <1>1 DEF Serial!Ask
<1> HIDE DEF x
<1> QED BY <1>1, <1>2, SendIsRight

LEMMA OperationAsks ==
  ASSUME Serial!Operation
  PROVE  \E c \in Serial!Asked, v \in Volumes \cup {0} : Serial!Ask(c, v)
<1>1. {"booting", "connecting", "connectsecc", "connectfail", "afterwakeup", "searching",
       "playing", "alarm", "updating", "updatefail", "setmusmode", "setnewsmode",
       "setmovmode", "setvolume", "getvolume"} \subseteq Serial!Asked
  BY DEF Serial!Asked, Serial!CommandByte, Serial!Events
<1>2. 0 \in Volumes \cup {0}
  OBVIOUS
<1> QED
  BY <1>1, <1>2, Zenon
     DEF Serial!Operation, Serial!OnBooting, Serial!OnNetworkConnecting,
         Serial!OnNetworkConnectionSuccess, Serial!OnNetworkConnectionFailed,
         Serial!OnWakeup, Serial!OnSerchingOrLoading, Serial!OnPlaying, Serial!OnAlarm,
         Serial!OnSysUpgrading, Serial!OnSysUpgradeFailed, Serial!OnSetSoundMode,
         Serial!OnSetVolume, Serial!OnGetVolume

LEMMA TellIsRight ==
  ASSUME SerialInv, NEW c \in Serial!Events, Serial!Tell(c)
  PROVE  SerialInv'
<1> DEFINE x == Serial!Message(c, 0)
<1>1. c \in CommandNames /\ c \notin {"getvolume", "setvolume"}
  BY DEF Serial!Events, CommandNames
<1>2. FrameOf(x) = Serial!Frame(1, Serial!CommandByte[c])
  BY <1>1, PlainFrame
<1>3. x \in Sayable
  BY <1>1, CommandsAre DEF Sayable
<1>4. Serial!Send(FrameOf(x), x)
  BY <1>2 DEF Serial!Tell, Serial!Host
<1> HIDE DEF x
<1> QED BY <1>3, <1>4, SendIsRight

LEMMA ReadIsRight ==
  ASSUME SerialInv, NEW k \in 1..12, Serial!Read(k)
  PROVE  SerialInv'
<1> DEFINE s2 == store \o SubSeq(wire, 1, k)
           rest == SubSeq(wire, k + 1, Len(wire))
           a == Serial!Assemble(s2)
<1>0. faults \in Nat /\ (faults = 0 => Stream(store, wire, meant, heard))
  BY DEF SerialInv
<1>1. /\ k <= Len(wire) /\ k <= 12 - Len(store)
      /\ \/ Serial!KeepPart(s2, rest, a) \/ Serial!DropOverlong(s2, rest, a)
         \/ Serial!Deliver(s2, rest, a) \/ Serial!Refuse(s2, rest, a)
  BY DEF Serial!Read, Serial!MaxPacketLen
<1>2. Taken(store, wire, k, s2, rest)
  BY <1>1 DEF Taken
<1>a. a = Serial!Assemble(s2)
  OBVIOUS
<1> HIDE DEF s2, rest, a
<1>3. faults' = faults
  BY <1>1 DEF Serial!KeepPart, Serial!DropOverlong, Serial!Deliver, Serial!Refuse
<1>4. SUFFICES ASSUME faults = 0, Stream(store, wire, meant, heard)
               PROVE  Stream(store', wire', meant', heard')
  BY <1>0, <1>3 DEF SerialInv
<1>5. CASE Len(s2) < 12
  <2>1. a.spaces < 4 /\ Stream(s2, rest, meant, heard)
    BY <1>2, <1>4, <1>5, <1>a, ReadPart
  <2>2. Len(s2) \in 1..12
    BY <1>2, <1>4, ReadOn
  <2>3. ~Serial!Full(s2)
    <3> DEFINE n == Len(s2)
    <3>1. n \in 1..12 /\ n < 12
      BY <1>5, <2>2
    <3> HIDE DEF n
    <3>2. ~(n >= 12)
      BY <3>1
    <3> QED BY <3>2 DEF Serial!Full, Serial!MaxPacketLen, n
  <2>4. ~Serial!DropOverlong(s2, rest, a)
    BY <2>3 DEF Serial!DropOverlong
  <2>n. a.spaces \in Nat
    BY <1>2, <1>4, <1>5, <1>a, ReadPart
  <2>5. ~(a.spaces >= 4)
    BY <2>1, <2>n
  <2>6. ~Serial!Deliver(s2, rest, a) /\ ~Serial!Refuse(s2, rest, a)
    BY <2>5 DEF Serial!Deliver, Serial!Refuse, Serial!FrameLen
  <2>7. Serial!KeepPart(s2, rest, a)
    BY <1>1, <2>4, <2>6, Zenon
  <2>8. store' = s2 /\ wire' = rest /\ meant' = meant /\ heard' = heard
    BY <2>7 DEF Serial!KeepPart
  <2> QED BY <2>1, <2>8
<1>6. CASE ~(Len(s2) < 12)
  <2> DEFINE x == Serial!Decode(a.bytes)
  <2>1. /\ a.spaces = 4 /\ Serial!Sound(a.bytes)
        /\ x # Serial!Unknown
        /\ Stream(<<>>, rest, meant, Append(heard, x))
    BY <1>2, <1>4, <1>6, <1>a, ReadWhole
  <2>2. ~Serial!KeepPart(s2, rest, a) /\ ~Serial!DropOverlong(s2, rest, a)
    BY <2>1 DEF Serial!KeepPart, Serial!DropOverlong, Serial!FrameLen
  <2>3. ~Serial!Refuse(s2, rest, a)
    BY <2>1 DEF Serial!Refuse
  <2>4. Serial!Deliver(s2, rest, a)
    BY <1>1, <2>2, <2>3, Zenon
  <2>5. store' = <<>> /\ wire' = rest /\ meant' = meant /\ heard' = Append(heard, x)
    BY <2>1, <2>4 DEF Serial!Deliver
  <2> QED BY <2>1, <2>5
<1> QED BY <1>5, <1>6

LEMMA StreamArrives ==
  ASSUME NEW s, NEW w, NEW m, NEW h, Stream(s, w, m, h)
  PROVE  Serial!IsPrefix(h, m) /\ (w = <<>> => s = <<>> /\ h = m)
<1>0. /\ s \in Seq(Nat) /\ w \in Seq(Nat) /\ m \in Seq(Sayable) /\ h \in Seq(Sayable)
      /\ Len(h) <= Len(m) /\ Len(s) < 12
      /\ 12 * Len(h) + Len(s) + Len(w) = 12 * Len(m)
  BY DEF Stream
<1>1. \A i \in 1..Len(h) : h[i] = m[i]
  BY DEF Stream
<1>int. Len(h) \in Nat /\ Len(s) \in Nat /\ Len(w) \in Nat /\ Len(m) \in Nat
  BY <1>0
<1>2. Serial!IsPrefix(h, m)
  <2>1. SubSeq(h, 1, Len(h)) = SubSeq(m, 1, Len(h))
    BY <1>0, <1>1, <1>int
  <2> QED BY <1>0, <2>1 DEF Serial!IsPrefix
<1>3. ASSUME w = <<>> PROVE s = <<>> /\ h = m
  <2> DEFINE A == Len(h)
             B == Len(s)
             M == Len(m)
  <2>1. A \in Nat /\ B \in Nat /\ M \in Nat /\ B < 12 /\ 12 * A + B + 0 = 12 * M
    <3>1. Len(w) = 0
      BY <1>3
    <3> QED BY <3>1, <1>0, <1>int
  <2> HIDE DEF A, B, M
  <2>2. B = 0 /\ A = M
    BY <2>1
  <2>3. s = <<>>
    BY <1>0, <2>2 DEF B
  <2>4. h = m
    BY <1>0, <1>1, <2>2 DEF A, M
  <2> QED BY <2>3, <2>4
<1> QED BY <1>2, <1>3

LEMMA FramesArriveAlways == Serial!Spec => []Serial!FramesArrive
<1>1. Serial!Init => SerialInv
  <2> SUFFICES ASSUME Serial!Init PROVE SerialInv
    OBVIOUS
  <2>1. Stream(<<>>, <<>>, <<>>, <<>>)
    BY DEF Stream
  <2> QED BY <2>1 DEF Serial!Init, SerialInv
<1>2. SerialInv /\ [Serial!Next]_(Serial!vars) => SerialInv'
  <2> SUFFICES ASSUME SerialInv, [Serial!Next]_(Serial!vars)
               PROVE  SerialInv'
    OBVIOUS
  <2>1. CASE Serial!Operation
    BY <2>1, OperationAsks, AskIsRight
  <2>2. CASE \E c \in Serial!Events : Serial!Tell(c)
    BY <2>2, TellIsRight
  <2>3. CASE \E k \in 1..Serial!MaxPacketLen : Serial!Read(k)
    BY <2>3, ReadIsRight DEF Serial!MaxPacketLen
  <2>4. CASE UNCHANGED Serial!vars
    BY <2>4 DEF Serial!vars, SerialInv
  <2> QED BY <2>1, <2>2, <2>3, <2>4 DEF Serial!Next
<1>3. SerialInv => Serial!FramesArrive
  BY StreamArrives DEF SerialInv, Serial!FramesArrive
<1> QED BY <1>1, <1>2, <1>3, PTL DEF Serial!Spec

-----------------------------------------------------------------------------
(* The bytes of uart_tool's lines.                                         *)
\* The line of each device found is set up, from how it was left.
LinesInv ==
  /\ fds \in Seq([fd : Nat, left : Left, line : {Files!SetOpt(left) : left \in Left}])
  /\ \A k \in 1..Len(fds) : fds[k].line = Files!SetOpt(fds[k].left)

LEMMA LinesStep ==
  ASSUME Numbers \subseteq Nat, LinesInv, [Files!Next]_(Files!vars)
  PROVE  LinesInv'
<1> DEFINE Entry == [fd : Nat, left : Left, line : {Files!SetOpt(left) : left \in Left}]
<1>0. fds \in Seq(Entry) /\ \A k \in 1..Len(fds) : fds[k].line = Files!SetOpt(fds[k].left)
  BY DEF LinesInv
<1>1. CASE Files!FindTty
  <2>1. PICK n \in Files!Opens(open) \ {-1} :
          \/ \E left \in Left :
               fds' = Append(fds, [fd |-> n, left |-> left, line |-> Files!SetOpt(left)])
          \/ fds' = fds
    BY <1>1 DEF Files!FindTty
  <2>2. CASE fds' = fds
    BY <2>2 DEF LinesInv
  <2>3. CASE \E left \in Left :
               fds' = Append(fds, [fd |-> n, left |-> left, line |-> Files!SetOpt(left)])
    <3>1. PICK left \in Left :
               fds' = Append(fds, [fd |-> n, left |-> left, line |-> Files!SetOpt(left)])
      BY <2>3
    <3> DEFINE e == [fd |-> n, left |-> left, line |-> Files!SetOpt(left)]
    <3>2. n \in Nat
      BY DEF Files!Opens, Files!Free
    <3>3. e \in Entry /\ e.line = Files!SetOpt(e.left)
      BY <3>2
    <3> HIDE DEF e, Entry
    <3>4. /\ fds' \in Seq(Entry) /\ Len(fds') = Len(fds) + 1 /\ fds'[Len(fds) + 1] = e
          /\ \A k \in 1..Len(fds) : fds'[k] = fds[k]
      BY <3>1, <3>3, <1>0 DEF e
    <3>5. \A k \in 1..Len(fds') : fds'[k].line = Files!SetOpt(fds'[k].left)
      <4> SUFFICES ASSUME NEW k \in 1..Len(fds')
                   PROVE  fds'[k].line = Files!SetOpt(fds'[k].left)
        OBVIOUS
      <4>1. k \in 1..Len(fds) \/ k = Len(fds) + 1
        BY <3>4, <1>0
      <4>2. CASE k \in 1..Len(fds)
        BY <1>0, <3>4, <4>2
      <4>3. CASE k = Len(fds) + 1
        BY <3>3, <3>4, <4>3
      <4> QED BY <4>1, <4>2, <4>3
    <3> QED BY <3>4, <3>5 DEF LinesInv, Entry
  <2> QED BY <2>1, <2>2, <2>3
<1>2. CASE Files!CloseTtys
  <2>1. fds' = <<>>
    BY <1>2 DEF Files!CloseTtys
  <2> QED BY <2>1 DEF LinesInv
<1>3. CASE ~Files!FindTty /\ ~Files!CloseTtys
  <2>1. fds' = fds
    BY <1>3 DEF Files!Next, Files!vars, Files!OnlyOpen, Files!GpioCall, Files!EnableInterrupt,
         Files!PollPins, Files!SarInit, Files!SarGetValue, Files!VoltageVBat, Files!InputInit,
         Files!InputDeInit, Files!GetKeyStatus, Files!GetKeyValue, Files!KeyFrom, Files!FbOpen, Files!FbClose,
         Files!SclInit, Files!SerOpen, Files!SerClose
  <2> QED BY <2>1 DEF LinesInv
<1> QED BY <1>1, <1>2, <1>3

LEMMA LinesPass == LinesInv => Files!BytesPass
<1> SUFFICES ASSUME LinesInv, NEW line \in Files!Kept, NEW byte \in 0..255
             PROVE  Files!Through(line, byte) = byte
  BY DEF Files!BytesPass
<1>1. PICK k \in 1..Len(fds) : line = fds[k].line /\ ~fds[k].left.strip /\ ~fds[k].left.edit
  BY DEF Files!Kept, LinesInv
<1> DEFINE left == fds[k].left
<1>2. left \in Left /\ line = Files!SetOpt(left)
  <2> DEFINE Entry == [fd : Nat, left : Left, line : {Files!SetOpt(l) : l \in Left}]
  <2>1. fds \in Seq(Entry) /\ \A e \in Entry : e.left \in Left
    BY DEF LinesInv
  <2> HIDE DEF Entry
  <2>2. fds[k] \in Entry
    BY <2>1
  <2>3. fds[k].line = Files!SetOpt(fds[k].left)
    BY DEF LinesInv
  <2> QED BY <1>1, <2>1, <2>2, <2>3
<1>3. left \in [speed : Nat, bits : Nat, cooked : BOOLEAN, strip : BOOLEAN, edit : BOOLEAN]
  BY <1>2, PeripheralsAssumption
<1>4. left.strip = FALSE /\ left.edit = FALSE
  BY <1>1, <1>3
<1> HIDE DEF left
<1>5. line = [left EXCEPT !.speed = 115200, !.bits = 8, !.cooked = FALSE]
  BY <1>2 DEF Files!SetOpt
<1>6. line.speed = 115200 /\ line.bits = 8 /\ line.cooked = FALSE
  BY <1>3, <1>5
<1>7. line.strip = FALSE /\ line.edit = FALSE
  BY <1>3, <1>4, <1>5
<1> QED BY <1>6, <1>7 DEF Files!Through

LEMMA BytesPassAlways == Files!Spec => []Files!BytesPass
<1>1. Files!Init => LinesInv
  BY DEF Files!Init, LinesInv
<1>2. LinesInv /\ [Files!Next]_(Files!vars) => LinesInv'
  BY LinesStep, PeripheralsAssumption
<1> QED BY <1>1, <1>2, LinesPass, PTL DEF Files!Spec

(* Whoever reads an undisturbed serial line gets what was sent: the threads of *)
(* SerialCommand.cpp every frame, once and in order, however its characters    *)
(* are cut into reads, and uart_tool every byte of lines whose input flags do  *)
(* not change bytes; for any volumes and any number of frames waiting unread.  *)
THEOREM WhatIsSentIsRead == Serial!Spec /\ Files!Spec => []SentIsRead
<1>1. Serial!FramesArrive /\ Files!BytesPass => SentIsRead
  BY DEF SentIsRead
<1> QED BY <1>1, FramesArriveAlways, BytesPassAlways, PTL

-----------------------------------------------------------------------------
(* The frame buffer.  The memory holds the picture (Holds): no two pixels    *)
(* share a byte, so a dot changes its own pixel only; a line is a sequence   *)
(* of dots, a filled rectangle one of rows.                                  *)
LEMMA ScreenOK ==
  /\ Width \in Nat /\ Height \in Nat /\ line_length \in Nat /\ fb_mem_offset \in Nat
  /\ 4 * Width <= line_length
  /\ Paints \subseteq [r : Nat, g : Nat, b : Nat, t : Nat]
BY PeripheralsAssumption

Inks == [r : Nat, g : Nat, b : Nat, t : Nat]

\* Where the bytes of pixel p begin.
At(p) == fb_mem_offset + Drawing!Offset(p)

Pixel(m, p) == [r |-> m[At(p) + 2], g |-> m[At(p) + 1], b |-> m[At(p)], t |-> m[At(p) + 3]]

Margin(a) == a < fb_mem_offset \/ (a - fb_mem_offset) % line_length >= 4 * Width

\* Memory m shows the picture q.
Holds(m, q) ==
  /\ DOMAIN m = Drawing!Mapped /\ m = [a \in Drawing!Mapped |-> m[a]]
  /\ q = [p \in Drawing!Screen |-> q[p]]
  /\ \A p \in Drawing!Screen : Pixel(m, p) = q[p]
  /\ \A a \in Drawing!Mapped : Margin(a) => m[a] = 0

Over(q, pixels, c) == [p \in Drawing!Screen |-> IF p \in pixels THEN c ELSE q[p]]

LEMMA RowsApart ==
  ASSUME NEW L \in Nat, NEW y \in Nat, NEW d \in Nat, d > 0
  PROVE  (y + d) * L = y * L + d * L /\ d * L >= L /\ y * L \in Nat /\ d * L \in Nat
OBVIOUS

LEMMA PlacesApart ==
  ASSUME NEW L \in Nat, NEW y \in Nat, NEW z \in Nat, NEW r \in Nat, NEW q \in Nat,
         r < L, q < L, y * L + r = z * L + q
  PROVE  y = z /\ r = q
<1>1. ~(y < z)
  <2> SUFFICES ASSUME y < z PROVE FALSE
    OBVIOUS
  <2> DEFINE d == z - y
  <2>1. d \in Nat /\ d > 0 /\ z = y + d
    OBVIOUS
  <2> HIDE DEF d
  <2>2. z * L = y * L + d * L /\ d * L >= L /\ y * L \in Nat /\ d * L \in Nat
    BY <2>1, RowsApart
  <2> QED BY <2>2
<1>2. ~(z < y)
  <2> SUFFICES ASSUME z < y PROVE FALSE
    OBVIOUS
  <2> DEFINE d == y - z
  <2>1. d \in Nat /\ d > 0 /\ y = z + d
    OBVIOUS
  <2> HIDE DEF d
  <2>2. y * L = z * L + d * L /\ d * L >= L /\ z * L \in Nat /\ d * L \in Nat
    BY <2>1, RowsApart
  <2> QED BY <2>2
<1> QED BY <1>1, <1>2

LEMMA PlaceInRow ==
  ASSUME NEW L \in Nat, NEW y \in Nat, NEW r \in Nat, r < L
  PROVE  (y * L + r) % L = r
OBVIOUS

LEMMA AtIs ==
  ASSUME NEW p \in Drawing!Screen
  PROVE  /\ p[1] \in 0..(Width - 1) /\ p[2] \in 0..(Height - 1)
         /\ p = <<p[1], p[2]>>
         /\ At(p) = fb_mem_offset + (p[2] * line_length + 4 * p[1])
         /\ p[2] * line_length \in Nat
<1>1. p[1] \in 0..(Width - 1) /\ p[2] \in 0..(Height - 1) /\ p = <<p[1], p[2]>>
  BY DEF Drawing!Screen
<1>2. At(p) = fb_mem_offset + (p[2] * line_length + 4 * p[1])
  BY DEF At, Drawing!Offset
<1>3. p[2] * line_length \in Nat
  BY <1>1, ScreenOK
<1> QED BY <1>1, <1>2, <1>3

\* A byte of a pixel is in the memory, in the visible part of the pixel's row.
LEMMA AtMapped ==
  ASSUME NEW p \in Drawing!Screen, NEW i \in 0..3
  PROVE  /\ At(p) \in Nat /\ At(p) + i \in Drawing!Mapped
         /\ ~Margin(At(p) + i)
<1> DEFINE y == p[2]
           r == 4 * p[1] + i
<1>1. /\ y \in Nat /\ y < Height /\ r \in Nat /\ r < 4 * Width /\ r < line_length
      /\ At(p) = fb_mem_offset + (y * line_length + 4 * p[1]) /\ y * line_length \in Nat
      /\ 4 * p[1] \in Nat
  BY AtIs, ScreenOK
<1>2. At(p) + i = fb_mem_offset + (y * line_length + r)
  BY <1>1, ScreenOK
<1>a. At(p) \in Nat
  BY <1>1, ScreenOK
<1> HIDE DEF y, r
<1>3. (y * line_length + r) % line_length = r
  BY <1>1, PlaceInRow, ScreenOK
<1>4. y * line_length + r < Height * line_length
  <2> DEFINE d == Height - y
  <2>1. d \in Nat /\ d > 0 /\ Height = y + d
    BY <1>1, ScreenOK
  <2> HIDE DEF d
  <2>2. Height * line_length = y * line_length + d * line_length /\ d * line_length >= line_length
        /\ d * line_length \in Nat
    BY <1>1, <2>1, RowsApart, ScreenOK
  <2> QED BY <1>1, <2>2, ScreenOK
<1>5. At(p) + i \in Drawing!Mapped
  <2>1. Height * line_length \in Nat
    BY ScreenOK
  <2> QED BY <1>1, <1>2, <1>4, <2>1, ScreenOK DEF Drawing!Mapped
<1>6. ~Margin(At(p) + i)
  <2> DEFINE s == y * line_length + r
  <2>1. s \in Nat /\ s % line_length = r /\ r < 4 * Width /\ At(p) + i = fb_mem_offset + s
    BY <1>1, <1>2, <1>3
  <2> HIDE DEF s
  <2>2. (fb_mem_offset + s) - fb_mem_offset = s /\ ~(fb_mem_offset + s < fb_mem_offset)
    BY <2>1, ScreenOK
  <2>3. ~(r >= 4 * Width)
    BY <1>1, ScreenOK
  <2> QED BY <2>1, <2>2, <2>3 DEF Margin
<1> QED BY <1>a, <1>5, <1>6

LEMMA AtApart ==
  ASSUME NEW p \in Drawing!Screen, NEW q \in Drawing!Screen, NEW i \in 0..3, NEW j \in 0..3,
         At(p) + i = At(q) + j
  PROVE  p = q
<1>1. /\ p[1] \in Nat /\ q[1] \in Nat /\ p[2] \in Nat /\ q[2] \in Nat
      /\ p[1] < Width /\ q[1] < Width
  BY AtIs, ScreenOK
<1> DEFINE r == 4 * p[1] + i
           s == 4 * q[1] + j
<1>2. /\ r \in Nat /\ s \in Nat /\ r < line_length /\ s < line_length
  BY <1>1, ScreenOK
<1>3. p[2] * line_length + r = q[2] * line_length + s
  <2>1. /\ At(p) = fb_mem_offset + (p[2] * line_length + 4 * p[1])
        /\ At(q) = fb_mem_offset + (q[2] * line_length + 4 * q[1])
        /\ p[2] * line_length \in Nat /\ q[2] * line_length \in Nat
    BY AtIs
  <2> DEFINE Y == p[2] * line_length
             Z == q[2] * line_length
             x == p[1]
             z == q[1]
             A == At(p)
             B == At(q)
  <2>2. /\ A = fb_mem_offset + (Y + 4 * x) /\ B = fb_mem_offset + (Z + 4 * z)
        /\ Y \in Nat /\ Z \in Nat /\ x \in Nat /\ z \in Nat /\ A + i = B + j
    BY <2>1, <1>1
  <2> HIDE DEF Y, Z, x, z, A, B
  <2>3. Y + (4 * x + i) = Z + (4 * z + j)
    BY <2>2, ScreenOK
  <2> QED BY <2>3 DEF Y, Z, x, z
<1> HIDE DEF r, s
<1>l. line_length \in Nat
  BY ScreenOK
<1>4. p[2] = q[2] /\ r = s
  <2> DEFINE y == p[2]
             z == q[2]
             L == line_length
  <2>1. y \in Nat /\ z \in Nat /\ L \in Nat /\ r \in Nat /\ s \in Nat /\ r < L /\ s < L
        /\ y * L + r = z * L + s
    BY <1>1, <1>2, <1>3, <1>l
  <2> HIDE DEF y, z, L
  <2>2. y = z /\ r = s
    BY <2>1, PlacesApart
  <2> QED BY <2>2 DEF y, z
<1>5. p[1] = q[1]
  BY <1>1, <1>4 DEF r, s
<1>6. p = <<p[1], p[2]>> /\ q = <<q[1], q[2]>>
  BY AtIs
<1> QED BY <1>4, <1>5, <1>6

\* Memory d is m but for the bytes of pixel p, which are of colour c.
Dotted(d, m, p, c) ==
  /\ DOMAIN d = Drawing!Mapped /\ d = [a \in Drawing!Mapped |-> d[a]]
  /\ d[At(p)] = c.b /\ d[At(p) + 1] = c.g /\ d[At(p) + 2] = c.r /\ d[At(p) + 3] = c.t
  /\ \A a \in Drawing!Mapped : (\A i \in 0..3 : a # At(p) + i) => d[a] = m[a]

LEMMA DotBytes ==
  ASSUME NEW m, DOMAIN m = Drawing!Mapped, NEW p \in Drawing!Screen, NEW c
  PROVE  Dotted(Drawing!Dot(m, p, c), m, p, c)
<1> DEFINE base == At(p)
           bytes == <<c.b, c.g, c.r, c.t>>
           d == Drawing!Dot(m, p, c)
<1>1. d = [a \in Drawing!Mapped |-> IF a \in base..(base + 3) THEN bytes[a - base + 1] ELSE m[a]]
  BY DEF Drawing!Dot, At
<1>2. base \in Nat /\ \A i \in 0..3 : base + i \in Drawing!Mapped
  BY AtMapped
<1>3. base \in Drawing!Mapped /\ base + 1 \in Drawing!Mapped /\ base + 2 \in Drawing!Mapped
      /\ base + 3 \in Drawing!Mapped
  <2>1. base + 0 = base
    BY <1>2
  <2> QED BY <1>2, <2>1
<1> HIDE DEF base
<1>4. /\ base - base + 1 = 1 /\ (base + 1) - base + 1 = 2 /\ (base + 2) - base + 1 = 3
      /\ (base + 3) - base + 1 = 4
      /\ base \in base..(base + 3) /\ base + 1 \in base..(base + 3) /\ base + 2 \in base..(base + 3)
      /\ base + 3 \in base..(base + 3)
  BY <1>2
<1>5. d[base] = c.b /\ d[base + 1] = c.g /\ d[base + 2] = c.r /\ d[base + 3] = c.t
  <2>1. d[base] = bytes[1] /\ d[base + 1] = bytes[2] /\ d[base + 2] = bytes[3] /\ d[base + 3] = bytes[4]
    <3> HIDE DEF bytes, d
    <3> QED BY <1>1, <1>3, <1>4
  <2> QED BY <2>1
<1>6. \A a \in Drawing!Mapped : (\A i \in 0..3 : a # base + i) => d[a] = m[a]
  <2> SUFFICES ASSUME NEW a \in Drawing!Mapped, \A i \in 0..3 : a # base + i
               PROVE  d[a] = m[a]
    OBVIOUS
  <2>1. a \notin base..(base + 3)
    <3> SUFFICES ASSUME a \in base..(base + 3) PROVE FALSE
      OBVIOUS
    <3>1. a - base \in 0..3 /\ a = base + (a - base)
      BY <1>2
    <3> QED BY <3>1
  <2> HIDE DEF d, bytes
  <2> QED BY <1>1, <2>1
<1> HIDE DEF d
<1>7. DOMAIN d = Drawing!Mapped /\ d = [a \in Drawing!Mapped |-> d[a]]
  BY <1>1
<1> QED BY <1>5, <1>6, <1>7 DEF base, d, Dotted

LEMMA DotHolds ==
  ASSUME NEW m, NEW q, Holds(m, q), NEW p \in Drawing!Screen, NEW c \in Inks
  PROVE  Holds(Drawing!Dot(m, p, c), Over(q, {p}, c))
<1> DEFINE d == Drawing!Dot(m, p, c)
           o == Over(q, {p}, c)
<1>0. DOMAIN m = Drawing!Mapped
  BY DEF Holds
<1>d. Dotted(d, m, p, c)
  BY <1>0, DotBytes
<1> HIDE DEF d
<1>1. /\ DOMAIN d = Drawing!Mapped /\ d = [a \in Drawing!Mapped |-> d[a]]
      /\ d[At(p)] = c.b /\ d[At(p) + 1] = c.g
      /\ d[At(p) + 2] = c.r /\ d[At(p) + 3] = c.t
      /\ \A a \in Drawing!Mapped : (\A i \in 0..3 : a # At(p) + i) => d[a] = m[a]
  BY <1>d DEF Dotted
<1>2. o = [x \in Drawing!Screen |-> o[x]]
      /\ \A x \in Drawing!Screen : o[x] = IF x = p THEN c ELSE q[x]
  BY DEF Over
<1> HIDE DEF o
<1>3. \A x \in Drawing!Screen : Pixel(d, x) = o[x]
  <2> SUFFICES ASSUME NEW x \in Drawing!Screen PROVE Pixel(d, x) = o[x]
    OBVIOUS
  <2>1. CASE x = p
    <3>1. Pixel(d, x) = [r |-> c.r, g |-> c.g, b |-> c.b, t |-> c.t]
      BY <1>1, <2>1 DEF Pixel
    <3>2. c = [r |-> c.r, g |-> c.g, b |-> c.b, t |-> c.t]
      BY DEF Inks
    <3> QED BY <1>2, <2>1, <3>1, <3>2
  <2>2. CASE x # p
    <3>1. \A i \in 0..3 : At(x) + i \in Drawing!Mapped /\ At(x) \in Nat
      BY AtMapped
    <3>2. \A i \in 0..3 : \A j \in 0..3 : At(x) + i # At(p) + j
      BY <2>2, AtApart
    <3>3. \A i \in 0..3 : d[At(x) + i] = m[At(x) + i]
      BY <1>1, <3>1, <3>2
    <3>4. At(x) + 0 = At(x)
      BY <3>1
    <3>5. d[At(x)] = m[At(x)] /\ d[At(x) + 1] = m[At(x) + 1] /\ d[At(x) + 2] = m[At(x) + 2]
          /\ d[At(x) + 3] = m[At(x) + 3]
      BY <3>3, <3>4
    <3>6. Pixel(d, x) = Pixel(m, x)
      BY <3>5 DEF Pixel
    <3> QED BY <1>2, <2>2, <3>6 DEF Holds
  <2> QED BY <2>1, <2>2
<1>4. \A a \in Drawing!Mapped : Margin(a) => d[a] = 0
  <2> SUFFICES ASSUME NEW a \in Drawing!Mapped, Margin(a) PROVE d[a] = 0
    OBVIOUS
  <2>1. \A i \in 0..3 : a # At(p) + i
    BY AtMapped
  <2> QED BY <1>1, <2>1 DEF Holds
<1>5. Holds(d, o)
  BY <1>1, <1>2, <1>3, <1>4 DEF Holds
<1> QED BY <1>5 DEF d, o

\* The memories g after each of the first n points.
Drawn(g, n, m, points, c) ==
  g = [k \in 0..n |-> IF k = 0 THEN m ELSE Drawing!Dot(g[k - 1], points[k], c)]

LEMMA DotsDrawn ==
  ASSUME NEW m, NEW points \in Seq(Drawing!Screen), NEW c
  PROVE  \E u : Drawn(u, Len(points), m, points, c) /\ Drawing!Dots(m, points, c) = u[Len(points)]
<1> DEFINE N == Len(points)
           T == {n \in 0..N : \E g : Drawn(g, n, m, points, c)}
<1>0. N \in Nat
  OBVIOUS
<1>1. 0 \in T
  <2> DEFINE g == [k \in 0..0 |-> m]
  <2>1. \A k \in 0..0 : g[k] = IF k = 0 THEN m ELSE Drawing!Dot(g[k - 1], points[k], c)
    OBVIOUS
  <2>2. Drawn(g, 0, m, points, c)
    BY <2>1 DEF Drawn
  <2> QED BY <1>0, <2>2
<1>2. \A n \in 0..N : n < N /\ n \in T => n + 1 \in T
  <2> SUFFICES ASSUME NEW n \in 0..N, n < N, n \in T PROVE n + 1 \in T
    OBVIOUS
  <2>1. PICK g : Drawn(g, n, m, points, c)
    OBVIOUS
  <2>n. n \in Nat /\ n + 1 \in 0..N
    BY <1>0
  <2>2. \A k \in 0..n : g[k] = IF k = 0 THEN m ELSE Drawing!Dot(g[k - 1], points[k], c)
    BY <2>1 DEF Drawn
  <2> DEFINE h == [k \in 0..(n + 1) |-> IF k <= n THEN g[k] ELSE Drawing!Dot(g[n], points[n + 1], c)]
  <2>3. \A k \in 0..n : h[k] = g[k]
    BY <2>n
  <2>4. h[n + 1] = Drawing!Dot(g[n], points[n + 1], c)
    BY <2>n
  <2>5. h = [k \in 0..(n + 1) |-> h[k]]
    OBVIOUS
  <2> HIDE DEF h, T
  <2>6. \A k \in 0..(n + 1) : h[k] = IF k = 0 THEN m ELSE Drawing!Dot(h[k - 1], points[k], c)
    <3> SUFFICES ASSUME NEW k \in 0..(n + 1)
                 PROVE  h[k] = IF k = 0 THEN m ELSE Drawing!Dot(h[k - 1], points[k], c)
      OBVIOUS
    <3>1. CASE k \in 0..n
      <4>1. k # 0 => k - 1 \in 0..n
        BY <2>n, <3>1
      <4> QED BY <2>2, <2>3, <3>1, <4>1
    <3>2. CASE k = n + 1
      <4>1. k # 0 /\ k - 1 = n /\ n \in 0..n
        BY <2>n, <3>2
      <4> QED BY <2>3, <2>4, <3>2, <4>1
    <3> QED BY <2>n, <3>1, <3>2
  <2>7. Drawn(h, n + 1, m, points, c)
    BY <2>5, <2>6 DEF Drawn
  <2> QED BY <2>7, <2>n DEF T
<1> HIDE DEF T
<1>3. N \in T
  <2> HIDE DEF N
  <2>1. \A n \in 0..N : n \in T
    BY <1>0, <1>1, <1>2, UpTo, Zenon
  <2> QED BY <1>0, <2>1
<1> DEFINE U == CHOOSE u : u = [k \in 0..N |-> IF k = 0 THEN m ELSE Drawing!Dot(u[k - 1], points[k], c)]
<1>4. \E u : u = [k \in 0..N |-> IF k = 0 THEN m ELSE Drawing!Dot(u[k - 1], points[k], c)]
  BY <1>3 DEF T, Drawn
<1>5. U = [k \in 0..N |-> IF k = 0 THEN m ELSE Drawing!Dot(U[k - 1], points[k], c)]
  BY <1>4, Zenon
<1>6. Drawing!Dots(m, points, c) = U[N]
  BY DEF Drawing!Dots
<1> HIDE DEF U
<1> QED BY <1>5, <1>6 DEF Drawn

LEMMA OverNone ==
  ASSUME NEW m, NEW q, Holds(m, q), NEW c
  PROVE  Over(q, {}, c) = q
BY DEF Over, Holds

LEMMA OverTwice ==
  ASSUME NEW q, NEW S, NEW R, NEW c
  PROVE  Over(Over(q, S, c), R, c) = Over(q, S \cup R, c)
<1>1. \A p \in Drawing!Screen : Over(Over(q, S, c), R, c)[p] = Over(q, S \cup R, c)[p]
  BY DEF Over
<1> QED BY <1>1 DEF Over

\* The dots of a line.
LEMMA DotsHold ==
  ASSUME NEW m, NEW q, Holds(m, q), NEW points \in Seq(Drawing!Screen), NEW c \in Inks
  PROVE  Holds(Drawing!Dots(m, points, c), Over(q, {points[k] : k \in 1..Len(points)}, c))
<1> DEFINE N == Len(points)
           Upon(n) == {points[k] : k \in 1..n}
<1>0. N \in Nat
  OBVIOUS
<1>1. PICK u : Drawn(u, N, m, points, c) /\ Drawing!Dots(m, points, c) = u[N]
  BY DotsDrawn
<1>2. \A k \in 0..N : u[k] = IF k = 0 THEN m ELSE Drawing!Dot(u[k - 1], points[k], c)
  BY <1>1 DEF Drawn
<1> DEFINE T == {n \in 0..N : Holds(u[n], Over(q, Upon(n), c))}
<1>3. 0 \in T
  <2>1. Upon(0) = {}
    OBVIOUS
  <2>2. u[0] = m /\ 0 \in 0..N
    BY <1>0, <1>2
  <2> HIDE DEF Upon
  <2>3. Over(q, Upon(0), c) = q
    BY <2>1, OverNone
  <2> QED BY <2>2, <2>3
<1>4. \A n \in 0..N : n < N /\ n \in T => n + 1 \in T
  <2> SUFFICES ASSUME NEW n \in 0..N, n < N, n \in T PROVE n + 1 \in T
    OBVIOUS
  <2>1. n + 1 \in 1..N /\ n + 1 \in 0..N /\ (n + 1) - 1 = n /\ n + 1 # 0 /\ n \in Nat
    BY <1>0
  <2>2. points[n + 1] \in Drawing!Screen
    BY <2>1
  <2>3. u[n + 1] = Drawing!Dot(u[n], points[n + 1], c)
    BY <1>2, <2>1
  <2>4. Upon(n + 1) = Upon(n) \cup {points[n + 1]}
    <3>1. 1..(n + 1) = (1..n) \cup {n + 1}
      BY <2>1
    <3> QED BY <3>1
  <2> HIDE DEF Upon
  <2>5. Holds(u[n], Over(q, Upon(n), c))
    OBVIOUS
  <2> HIDE DEF T
  <2>6. Holds(u[n + 1], Over(Over(q, Upon(n), c), {points[n + 1]}, c))
    BY <2>2, <2>3, <2>5, DotHolds
  <2>7. Over(Over(q, Upon(n), c), {points[n + 1]}, c) = Over(q, Upon(n + 1), c)
    BY <2>4, OverTwice
  <2> QED BY <2>1, <2>6, <2>7 DEF T
<1> HIDE DEF T
<1>5. \A n \in 0..N : n \in T
  <2> HIDE DEF N
  <2> QED BY <1>0, <1>3, <1>4, UpTo, Zenon
<1>6. N \in T
  BY <1>0, <1>5
<1> QED BY <1>1, <1>6 DEF T

\* The pixels of a line from one point to another, which is not one of them.
Across(from, to) ==
  {p \in Drawing!Screen : p[2] = from[2] /\ from[1] <= p[1] /\ p[1] < to[1]}
Down(from, to) ==
  {p \in Drawing!Screen : p[1] = from[1] /\ from[2] <= p[2] /\ p[2] < to[2]}

LEMMA HLineHolds ==
  ASSUME NEW m, NEW q, Holds(m, q), NEW c \in Inks,
         NEW from \in Drawing!Screen, NEW to, to[1] \in 0..Width
  PROVE  Holds(Drawing!HLine(m, from, to, c), Over(q, Across(from, to), c))
<1> DEFINE n == to[1] - from[1]
           points == [k \in 1..n |-> <<from[1] + k - 1, from[2]>>]
<1>0. from[1] \in 0..(Width - 1) /\ from[2] \in 0..(Height - 1) /\ n \in Int
  BY AtIs, ScreenOK
<1>1. \A k \in 1..n : points[k] \in Drawing!Screen
  <2> SUFFICES ASSUME NEW k \in 1..n PROVE points[k] \in Drawing!Screen
    OBVIOUS
  <2>1. from[1] + k - 1 \in 0..(Width - 1)
    BY <1>0, ScreenOK
  <2> QED BY <1>0, <2>1 DEF Drawing!Screen
<1>2. points \in Seq(Drawing!Screen) /\ 1..Len(points) = 1..n
  <2>1. CASE n > 0
    <3>1. n \in Nat
      BY <1>0, <2>1
    <3> HIDE DEF n
    <3>2. points \in [1..n -> Drawing!Screen]
      BY <1>1
    <3>3. points \in Seq(Drawing!Screen) /\ Len(points) = n
      BY <3>1, <3>2
    <3> QED BY <3>3
  <2>2. CASE ~(n > 0)
    <3>1. 1..n = {} /\ 1..0 = {}
      BY <1>0, <2>2
    <3> HIDE DEF n
    <3>2. points = <<>>
      BY <3>1
    <3> HIDE DEF points
    <3> QED BY <3>1, <3>2
  <2> QED BY <2>1, <2>2
<1>3. {points[k] : k \in 1..Len(points)} = Across(from, to)
  <2>1. \A p \in Across(from, to) : \E k \in 1..n : points[k] = p
    <3> SUFFICES ASSUME NEW p \in Across(from, to) PROVE \E k \in 1..n : points[k] = p
      OBVIOUS
    <3>1. p \in Drawing!Screen /\ p[2] = from[2] /\ from[1] <= p[1] /\ p[1] < to[1]
      BY DEF Across
    <3>2. p = <<p[1], p[2]>> /\ p[1] \in 0..(Width - 1)
      BY <3>1, AtIs
    <3> DEFINE k == p[1] - from[1] + 1
    <3>3. k \in 1..n /\ from[1] + k - 1 = p[1]
      BY <1>0, <3>1, <3>2, ScreenOK
    <3>4. points[k] = <<from[1] + k - 1, from[2]>>
      BY <3>3
    <3> QED BY <3>1, <3>2, <3>3, <3>4
  <2>2. \A k \in 1..n : points[k] \in Across(from, to)
    <3> SUFFICES ASSUME NEW k \in 1..n PROVE points[k] \in Across(from, to)
      OBVIOUS
    <3>1. points[k][1] = from[1] + k - 1 /\ points[k][2] = from[2]
      OBVIOUS
    <3>2. from[1] <= from[1] + k - 1 /\ from[1] + k - 1 < to[1]
      BY <1>0, ScreenOK
    <3> HIDE DEF n
    <3>p. points[k] \in Drawing!Screen
      BY <1>1
    <3> HIDE DEF points
    <3> QED BY <3>p, <3>1, <3>2 DEF Across
  <2>3. {points[k] : k \in 1..n} = Across(from, to)
    <3> HIDE DEF points, n
    <3> QED BY <2>1, <2>2
  <2> HIDE DEF points, n
  <2> QED BY <1>2, <2>3
<1>4. Drawing!HLine(m, from, to, c) = Drawing!Dots(m, points, c)
  <2>1. 1..Drawing!Steps(from[1], to[1]) = 1..n
    BY <1>0 DEF Drawing!Steps
  <2> QED BY <2>1 DEF Drawing!HLine
<1> HIDE DEF points
<1>5. Holds(Drawing!Dots(m, points, c), Over(q, {points[k] : k \in 1..Len(points)}, c))
  BY <1>2, DotsHold
<1> QED BY <1>3, <1>4, <1>5

LEMMA VLineHolds ==
  ASSUME NEW m, NEW q, Holds(m, q), NEW c \in Inks,
         NEW from \in Drawing!Screen, NEW to, to[2] \in 0..Height
  PROVE  Holds(Drawing!VLine(m, from, to, c), Over(q, Down(from, to), c))
<1> DEFINE n == to[2] - from[2]
           points == [k \in 1..n |-> <<from[1], from[2] + k - 1>>]
<1>0. from[1] \in 0..(Width - 1) /\ from[2] \in 0..(Height - 1) /\ n \in Int
  BY AtIs, ScreenOK
<1>1. \A k \in 1..n : points[k] \in Drawing!Screen
  <2> SUFFICES ASSUME NEW k \in 1..n PROVE points[k] \in Drawing!Screen
    OBVIOUS
  <2>1. from[2] + k - 1 \in 0..(Height - 1)
    BY <1>0, ScreenOK
  <2> QED BY <1>0, <2>1 DEF Drawing!Screen
<1>2. points \in Seq(Drawing!Screen) /\ 1..Len(points) = 1..n
  <2>1. CASE n > 0
    <3>1. n \in Nat
      BY <1>0, <2>1
    <3> HIDE DEF n
    <3>2. points \in [1..n -> Drawing!Screen]
      BY <1>1
    <3>3. points \in Seq(Drawing!Screen) /\ Len(points) = n
      BY <3>1, <3>2
    <3> QED BY <3>3
  <2>2. CASE ~(n > 0)
    <3>1. 1..n = {} /\ 1..0 = {}
      BY <1>0, <2>2
    <3> HIDE DEF n
    <3>2. points = <<>>
      BY <3>1
    <3> HIDE DEF points
    <3> QED BY <3>1, <3>2
  <2> QED BY <2>1, <2>2
<1>3. {points[k] : k \in 1..Len(points)} = Down(from, to)
  <2>1. \A p \in Down(from, to) : \E k \in 1..n : points[k] = p
    <3> SUFFICES ASSUME NEW p \in Down(from, to) PROVE \E k \in 1..n : points[k] = p
      OBVIOUS
    <3>1. p \in Drawing!Screen /\ p[1] = from[1] /\ from[2] <= p[2] /\ p[2] < to[2]
      BY DEF Down
    <3>2. p = <<p[1], p[2]>> /\ p[2] \in 0..(Height - 1)
      BY <3>1, AtIs
    <3> DEFINE k == p[2] - from[2] + 1
    <3>3. k \in 1..n /\ from[2] + k - 1 = p[2]
      BY <1>0, <3>1, <3>2, ScreenOK
    <3>4. points[k] = <<from[1], from[2] + k - 1>>
      BY <3>3
    <3> QED BY <3>1, <3>2, <3>3, <3>4
  <2>2. \A k \in 1..n : points[k] \in Down(from, to)
    <3> SUFFICES ASSUME NEW k \in 1..n PROVE points[k] \in Down(from, to)
      OBVIOUS
    <3>1. points[k][2] = from[2] + k - 1 /\ points[k][1] = from[1]
      OBVIOUS
    <3>2. from[2] <= from[2] + k - 1 /\ from[2] + k - 1 < to[2]
      BY <1>0, ScreenOK
    <3> HIDE DEF n
    <3>p. points[k] \in Drawing!Screen
      BY <1>1
    <3> HIDE DEF points
    <3> QED BY <3>p, <3>1, <3>2 DEF Down
  <2>3. {points[k] : k \in 1..n} = Down(from, to)
    <3> HIDE DEF points, n
    <3> QED BY <2>1, <2>2
  <2> HIDE DEF points, n
  <2> QED BY <1>2, <2>3
<1>4. Drawing!VLine(m, from, to, c) = Drawing!Dots(m, points, c)
  <2>1. 1..Drawing!Steps(from[2], to[2]) = 1..n
    BY <1>0 DEF Drawing!Steps
  <2> QED BY <2>1 DEF Drawing!VLine
<1> HIDE DEF points
<1>5. Holds(Drawing!Dots(m, points, c), Over(q, {points[k] : k \in 1..Len(points)}, c))
  BY <1>2, DotsHold
<1> QED BY <1>3, <1>4, <1>5

\* The frame of a rectangle.
LEMMA RecHolds ==
  ASSUME NEW m, NEW q, Holds(m, q), NEW c \in Inks,
         NEW lu \in Drawing!Screen, NEW rd \in Drawing!Screen, lu[1] <= rd[1], lu[2] <= rd[2]
  PROVE  Holds(Drawing!Rec(m, lu, rd, c),
               Over(q, Drawing!Box(lu, <<rd[1] + 1, rd[2] + 1>>)
                         \ (Drawing!Box(<<lu[1] + 1, lu[2] + 1>>, rd) \cup {rd}), c))
<1> DEFINE ld == <<lu[1], rd[2]>>
           ru == <<rd[1], lu[2]>>
           m1 == Drawing!HLine(m, lu, ru, c)
           m2 == Drawing!HLine(m1, ld, rd, c)
           m3 == Drawing!VLine(m2, lu, ld, c)
           m4 == Drawing!VLine(m3, ru, rd, c)
           S1 == Across(lu, ru)
           S2 == Across(ld, rd)
           S3 == Down(lu, ld)
           S4 == Down(ru, rd)
<1>0. /\ lu[1] \in 0..(Width - 1) /\ lu[2] \in 0..(Height - 1) /\ lu = <<lu[1], lu[2]>>
      /\ rd[1] \in 0..(Width - 1) /\ rd[2] \in 0..(Height - 1) /\ rd = <<rd[1], rd[2]>>
  BY AtIs
<1>1. /\ ld \in Drawing!Screen /\ ru \in Drawing!Screen
      /\ ru[1] \in 0..Width /\ rd[1] \in 0..Width /\ ld[2] \in 0..Height /\ rd[2] \in 0..Height
  BY <1>0, ScreenOK DEF Drawing!Screen
<1>2. Drawing!Rec(m, lu, rd, c) = m4
  BY DEF Drawing!Rec
<1>c. \A p : p \in S1 \cup S2 \cup S3 \cup S4 <=>
             p \in Drawing!Box(lu, <<rd[1] + 1, rd[2] + 1>>)
                     \ (Drawing!Box(<<lu[1] + 1, lu[2] + 1>>, rd) \cup {rd})
  <2> SUFFICES ASSUME NEW p \in Drawing!Screen
               PROVE  p \in S1 \cup S2 \cup S3 \cup S4 <=>
                      p \in Drawing!Box(lu, <<rd[1] + 1, rd[2] + 1>>)
                              \ (Drawing!Box(<<lu[1] + 1, lu[2] + 1>>, rd) \cup {rd})
    BY DEF Across, Down, Drawing!Box
  <2> DEFINE x == p[1]
             y == p[2]
             l == lu[1]
             u == lu[2]
             r == rd[1]
             b == rd[2]
  <2>1. p = <<x, y>> /\ x \in Nat /\ y \in Nat /\ l \in Nat /\ u \in Nat /\ r \in Nat /\ b \in Nat
        /\ l <= r /\ u <= b
    BY <1>0, AtIs
  <2>2. /\ (p \in S1) = (y = u /\ l <= x /\ x < r)
        /\ (p \in S2) = (y = b /\ l <= x /\ x < r)
        /\ (p \in S3) = (x = l /\ u <= y /\ y < b)
        /\ (p \in S4) = (x = r /\ u <= y /\ y < b)
    BY DEF Across, Down
  <2>3. /\ (p \in Drawing!Box(lu, <<r + 1, b + 1>>)) = (l <= x /\ x < r + 1 /\ u <= y /\ y < b + 1)
        /\ (p \in Drawing!Box(<<l + 1, u + 1>>, rd)) = (l + 1 <= x /\ x < r /\ u + 1 <= y /\ y < b)
    BY DEF Drawing!Box
  <2>4. (p = rd) = (x = r /\ y = b)
    BY <1>0, <2>1
  <2> HIDE DEF x, y, l, u, r, b, S1, S2, S3, S4
  <2>5. ((y = u /\ l <= x /\ x < r) \/ (y = b /\ l <= x /\ x < r) \/ (x = l /\ u <= y /\ y < b)
          \/ (x = r /\ u <= y /\ y < b))
        <=> /\ l <= x /\ x < r + 1 /\ u <= y /\ y < b + 1
            /\ ~(l + 1 <= x /\ x < r /\ u + 1 <= y /\ y < b)
            /\ ~(x = r /\ y = b)
    BY <2>1
  <2> USE DEF r, b, l, u
  <2> QED BY <2>2, <2>3, <2>4, <2>5
<1> HIDE DEF ld, ru, S1, S2, S3, S4
<1>m1. Holds(m1, Over(q, S1, c))
  BY <1>1, HLineHolds DEF S1
<1> HIDE DEF m1
<1>m2. Holds(m2, Over(Over(q, S1, c), S2, c))
  BY <1>m1, <1>1, HLineHolds DEF S2
<1> HIDE DEF m2
<1>m3. Holds(m3, Over(Over(Over(q, S1, c), S2, c), S3, c))
  BY <1>m2, <1>1, VLineHolds DEF S3
<1> HIDE DEF m3
<1>m4. Holds(m4, Over(Over(Over(Over(q, S1, c), S2, c), S3, c), S4, c))
  BY <1>m3, <1>1, VLineHolds DEF S4
<1> HIDE DEF m4
<1>o. Over(Over(Over(Over(q, S1, c), S2, c), S3, c), S4, c) = Over(q, S1 \cup S2 \cup S3 \cup S4, c)
  <2>1. Over(Over(q, S1, c), S2, c) = Over(q, S1 \cup S2, c)
    BY OverTwice
  <2>2. Over(Over(q, S1 \cup S2, c), S3, c) = Over(q, S1 \cup S2 \cup S3, c)
    BY OverTwice
  <2>3. Over(Over(q, S1 \cup S2 \cup S3, c), S4, c) = Over(q, S1 \cup S2 \cup S3 \cup S4, c)
    BY OverTwice
  <2> QED BY <2>1, <2>2, <2>3, Zenon
<1>s. S1 \cup S2 \cup S3 \cup S4 =
      Drawing!Box(lu, <<rd[1] + 1, rd[2] + 1>>)
        \ (Drawing!Box(<<lu[1] + 1, lu[2] + 1>>, rd) \cup {rd})
  BY <1>c, Zenon
<1> QED BY <1>2, <1>m4, <1>o, <1>s

\* The memories g after each of the first n rows of a filled rectangle.
Filled(g, n, m, lu, rd, c) ==
  g = [k \in 0..n |->
         IF k = 0 THEN m
         ELSE Drawing!HLine(g[k - 1], <<lu[1], lu[2] + k - 1>>, <<rd[1], lu[2] + k - 1>>, c)]

LEMMA RowsFilled ==
  ASSUME NEW m, NEW lu, NEW rd, NEW c, NEW N \in Nat, N = rd[2] - lu[2], ~(rd[2] <= lu[2])
  PROVE  \E u : Filled(u, N, m, lu, rd, c) /\ Drawing!Fill(m, lu, rd, c) = u[N]
<1> DEFINE Next1(b, k) == Drawing!HLine(b, <<lu[1], lu[2] + k - 1>>, <<rd[1], lu[2] + k - 1>>, c)
           T == {n \in 0..N : \E g : Filled(g, n, m, lu, rd, c)}
<1>1. 0 \in T
  <2> DEFINE g == [k \in 0..0 |-> m]
  <2>1. \A k \in 0..0 : g[k] = IF k = 0 THEN m ELSE Next1(g[k - 1], k)
    OBVIOUS
  <2> HIDE DEF Next1
  <2>3. g = [k \in 0..0 |-> IF k = 0 THEN m ELSE Next1(g[k - 1], k)]
    BY <2>1
  <2>2. Filled(g, 0, m, lu, rd, c)
    BY <2>3 DEF Filled, Next1
  <2> QED BY <2>2
<1>2. \A n \in 0..N : n < N /\ n \in T => n + 1 \in T
  <2> SUFFICES ASSUME NEW n \in 0..N, n < N, n \in T PROVE n + 1 \in T
    OBVIOUS
  <2>1. PICK g : Filled(g, n, m, lu, rd, c)
    OBVIOUS
  <2>n. n \in Nat /\ n + 1 \in 0..N
    OBVIOUS
  <2>2. \A k \in 0..n : g[k] = IF k = 0 THEN m ELSE Next1(g[k - 1], k)
    BY <2>1 DEF Filled
  <2> HIDE DEF Next1
  <2> DEFINE h == [k \in 0..(n + 1) |-> IF k <= n THEN g[k] ELSE Next1(g[n], n + 1)]
  <2>3. \A k \in 0..n : h[k] = g[k]
    BY <2>n
  <2>4. h[n + 1] = Next1(g[n], n + 1)
    BY <2>n
  <2>5. h = [k \in 0..(n + 1) |-> h[k]]
    OBVIOUS
  <2> HIDE DEF h, T
  <2>6. \A k \in 0..(n + 1) : h[k] = IF k = 0 THEN m ELSE Next1(h[k - 1], k)
    <3> SUFFICES ASSUME NEW k \in 0..(n + 1)
                 PROVE  h[k] = IF k = 0 THEN m ELSE Next1(h[k - 1], k)
      OBVIOUS
    <3>1. CASE k \in 0..n
      <4>1. k # 0 => k - 1 \in 0..n
        BY <2>n, <3>1
      <4> QED BY <2>2, <2>3, <3>1, <4>1
    <3>2. CASE k = n + 1
      <4>1. k # 0 /\ k - 1 = n /\ n \in 0..n
        BY <2>n, <3>2
      <4> QED BY <2>3, <2>4, <3>2, <4>1
    <3> QED BY <2>n, <3>1, <3>2
  <2>8. h = [k \in 0..(n + 1) |-> IF k = 0 THEN m ELSE Next1(h[k - 1], k)]
    BY <2>5, <2>6
  <2>7. Filled(h, n + 1, m, lu, rd, c)
    BY <2>8 DEF Filled, Next1
  <2> QED BY <2>7, <2>n DEF T
<1> HIDE DEF T
<1>3. N \in T
  <2>1. \A n \in 0..N : n \in T
    BY <1>1, <1>2, UpTo, Zenon
  <2> QED BY <2>1
<1> DEFINE U == CHOOSE u : u = [k \in 0..(rd[2] - lu[2]) |-> IF k = 0 THEN m ELSE Next1(u[k - 1], k)]
<1>4. \E u : u = [k \in 0..(rd[2] - lu[2]) |-> IF k = 0 THEN m ELSE Next1(u[k - 1], k)]
  BY <1>3 DEF T, Filled
<1>5. U = [k \in 0..(rd[2] - lu[2]) |-> IF k = 0 THEN m ELSE Next1(U[k - 1], k)]
  <2> HIDE DEF Next1
  <2> QED BY <1>4, Zenon
<1>6. Drawing!Fill(m, lu, rd, c) = U[N]
  BY DEF Drawing!Fill
<1> HIDE DEF U
<1> QED BY <1>5, <1>6 DEF Filled

LEMMA FillHolds ==
  ASSUME NEW m, NEW q, Holds(m, q), NEW c \in Inks,
         NEW lu \in Drawing!Screen, NEW rd \in (0..Width) \X (0..Height)
  PROVE  Holds(Drawing!Fill(m, lu, rd, c), Over(q, Drawing!Box(lu, rd), c))
<1>0. /\ lu[1] \in 0..(Width - 1) /\ lu[2] \in 0..(Height - 1)
      /\ rd[1] \in 0..Width /\ rd[2] \in 0..Height
  BY AtIs
<1>1. CASE rd[2] <= lu[2]
  <2>1. Drawing!Fill(m, lu, rd, c) = m
    BY <1>1 DEF Drawing!Fill
  <2>2. Drawing!Box(lu, rd) = {}
    <3> SUFFICES ASSUME NEW p \in Drawing!Screen, lu[2] <= p[2], p[2] < rd[2] PROVE FALSE
      BY DEF Drawing!Box
    <3>1. p[2] \in 0..(Height - 1)
      BY AtIs
    <3> QED BY <1>0, <1>1, <3>1, ScreenOK
  <2> QED BY <2>1, <2>2, OverNone
<1>2. CASE ~(rd[2] <= lu[2])
  <2> DEFINE N == rd[2] - lu[2]
             Rows(n) == {p \in Drawing!Screen : /\ lu[1] <= p[1] /\ p[1] < rd[1]
                                                /\ lu[2] <= p[2] /\ p[2] < lu[2] + n}
  <2>0. N \in Nat /\ N > 0
    BY <1>0, <1>2, ScreenOK
  <2>1. PICK u : Filled(u, N, m, lu, rd, c) /\ Drawing!Fill(m, lu, rd, c) = u[N]
    BY <1>2, <2>0, RowsFilled
  <2> DEFINE T == {n \in 0..N : Holds(u[n], Over(q, Rows(n), c))}
  <2>2. 0 \in T
    <3>1. Rows(0) = {}
      <4> SUFFICES ASSUME NEW p \in Drawing!Screen, lu[2] <= p[2], p[2] < lu[2] + 0 PROVE FALSE
        OBVIOUS
      <4>1. p[2] \in 0..(Height - 1)
        BY AtIs
      <4> QED BY <1>0, <4>1, ScreenOK
    <3>2. u[0] = m /\ 0 \in 0..N
      BY <2>0, <2>1 DEF Filled
    <3> HIDE DEF Rows
    <3>3. Over(q, Rows(0), c) = q
      BY <3>1, OverNone
    <3> QED BY <3>2, <3>3
  <2>3. \A n \in 0..N : n < N /\ n \in T => n + 1 \in T
    <3> SUFFICES ASSUME NEW n \in 0..N, n < N, n \in T PROVE n + 1 \in T
      OBVIOUS
    <3> DEFINE from == <<lu[1], lu[2] + n>>
               to == <<rd[1], lu[2] + n>>
    <3>1. n + 1 \in 0..N /\ n + 1 # 0 /\ (n + 1) - 1 = n /\ n \in Nat /\ lu[2] + (n + 1) - 1 = lu[2] + n
      BY <1>0, <2>0
    <3>2. u[n + 1] = Drawing!HLine(u[n], from, to, c)
      BY <2>1, <3>1 DEF Filled
    <3>3. from \in Drawing!Screen /\ to[1] \in 0..Width
      <4>1. lu[2] + n \in 0..(Height - 1)
        BY <1>0, <2>0, <3>1, ScreenOK
      <4> QED BY <1>0, <4>1 DEF Drawing!Screen
    <3>4. Rows(n + 1) = Rows(n) \cup Across(from, to)
      <4>1. \A p \in Drawing!Screen :
               (p[2] < lu[2] + (n + 1) /\ lu[2] <= p[2]) <=>
               (lu[2] <= p[2] /\ p[2] < lu[2] + n) \/ p[2] = lu[2] + n
        <5> SUFFICES ASSUME NEW p \in Drawing!Screen
                     PROVE  (p[2] < lu[2] + (n + 1) /\ lu[2] <= p[2]) <=>
                            (lu[2] <= p[2] /\ p[2] < lu[2] + n) \/ p[2] = lu[2] + n
          OBVIOUS
        <5>1. p[2] \in 0..(Height - 1)
          BY AtIs
        <5> QED BY <1>0, <3>1, <5>1, ScreenOK
      <4>2. from[1] = lu[1] /\ from[2] = lu[2] + n /\ to[1] = rd[1]
        OBVIOUS
      <4> HIDE DEF from, to
      <4>3. \A p \in Drawing!Screen : p \in Rows(n + 1) <=> p \in Rows(n) \/ p \in Across(from, to)
        BY <4>1, <4>2 DEF Across
      <4>4. Rows(n + 1) \subseteq Drawing!Screen /\ Rows(n) \subseteq Drawing!Screen
            /\ Across(from, to) \subseteq Drawing!Screen
        BY DEF Across
      <4> HIDE DEF Rows
      <4> QED BY <4>3, <4>4
    <3> HIDE DEF Rows, from, to
    <3>5. Holds(u[n], Over(q, Rows(n), c))
      OBVIOUS
    <3> HIDE DEF T
    <3>6. Holds(u[n + 1], Over(Over(q, Rows(n), c), Across(from, to), c))
      BY <3>2, <3>3, <3>5, HLineHolds
    <3>7. Over(Over(q, Rows(n), c), Across(from, to), c) = Over(q, Rows(n + 1), c)
      BY <3>4, OverTwice
    <3> QED BY <3>1, <3>6, <3>7 DEF T
  <2> HIDE DEF T
  <2>4. N \in T
    <3> HIDE DEF N
    <3>1. \A n \in 0..N : n \in T
      BY <2>0, <2>2, <2>3, UpTo, Zenon
    <3> QED BY <2>0, <3>1
  <2>5. Rows(N) = Drawing!Box(lu, rd)
    <3>1. lu[2] + N = rd[2]
      BY <1>0, ScreenOK
    <3> HIDE DEF N
    <3> QED BY <3>1 DEF Drawing!Box
  <2> HIDE DEF Rows
  <2> QED BY <2>1, <2>4, <2>5 DEF T
<1> QED BY <1>1, <1>2

LEMMA InksGiven ==
  ASSUME NEW c \in Paints
  PROVE  /\ c \in Inks /\ Drawing!Opaque(c) \in Inks
         /\ \A d \in Drawing!Read(c) : d \in Inks
<1>1. c \in Inks
  BY ScreenOK DEF Inks
<1>2. Drawing!Opaque(c) \in Inks
  BY <1>1 DEF Drawing!Opaque, Inks
<1>3. [r |-> 255, g |-> 255, b |-> 255, t |-> 255] \in Inks
  BY DEF Inks
<1> QED BY <1>1, <1>2, <1>3 DEF Drawing!Read

LEMMA DrawingStarts == Drawing!Init => Holds(mem, picture)
<1> SUFFICES ASSUME Drawing!Init PROVE Holds(mem, picture)
  OBVIOUS
<1>1. mem = [a \in Drawing!Mapped |-> 0] /\ picture = [p \in Drawing!Screen |-> Drawing!Black]
  BY DEF Drawing!Init
<1>2. \A p \in Drawing!Screen : Pixel(mem, p) = picture[p]
  <2> SUFFICES ASSUME NEW p \in Drawing!Screen PROVE Pixel(mem, p) = picture[p]
    OBVIOUS
  <2>1. At(p) \in Nat /\ \A i \in 0..3 : At(p) + i \in Drawing!Mapped
    BY AtMapped
  <2>2. At(p) + 0 = At(p)
    BY <2>1
  <2>3. At(p) \in Drawing!Mapped /\ At(p) + 1 \in Drawing!Mapped /\ At(p) + 2 \in Drawing!Mapped
        /\ At(p) + 3 \in Drawing!Mapped
    BY <2>1, <2>2
  <2>4. mem[At(p)] = 0 /\ mem[At(p) + 1] = 0 /\ mem[At(p) + 2] = 0 /\ mem[At(p) + 3] = 0
    BY <1>1, <2>3
  <2> QED BY <1>1, <2>4 DEF Pixel, Drawing!Black
<1> QED BY <1>1, <1>2 DEF Holds

LEMMA DrawingKeeps == Holds(mem, picture) /\ [Drawing!Next]_(Drawing!vars) => Holds(mem, picture)'
<1> SUFFICES ASSUME Holds(mem, picture), [Drawing!Next]_(Drawing!vars) PROVE Holds(mem', picture')
  BY DEF Holds, Pixel, At
<1>p. \A S, c : Drawing!Painted(S, c) => picture' = Over(picture, S, c)
  BY DEF Drawing!Painted, Over
<1>1. CASE Drawing!DrawDot
  <2>1. PICK p \in Drawing!Screen, c \in Paints :
          mem' = Drawing!Dot(mem, p, Drawing!Opaque(c)) /\ Drawing!Painted({p}, Drawing!Opaque(c))
    BY <1>1 DEF Drawing!DrawDot
  <2> QED BY <1>p, <2>1, InksGiven, DotHolds
<1>2. CASE Drawing!DrawDotWithString
  <2>1. PICK p \in Drawing!Screen, s \in Paints : \E c \in Drawing!Read(s) :
          mem' = Drawing!Dot(mem, p, c) /\ Drawing!Painted({p}, c)
    BY <1>2 DEF Drawing!DrawDotWithString
  <2>2. PICK c \in Drawing!Read(s) : mem' = Drawing!Dot(mem, p, c) /\ Drawing!Painted({p}, c)
    BY <2>1
  <2>3. c \in Inks
    BY InksGiven
  <2> QED BY <1>p, <2>2, <2>3, DotHolds
<1>3. CASE Drawing!DrawHLineWithString
  <2>1. PICK from \in Drawing!Screen, to \in Drawing!Screen, s \in Paints :
          \E c \in Drawing!Read(s) :
            /\ from[2] = to[2]
            /\ mem' = Drawing!HLine(mem, from, to, c)
            /\ Drawing!Painted(Drawing!Box(from, <<to[1], to[2] + 1>>), c)
    BY <1>3 DEF Drawing!DrawHLineWithString
  <2>2. PICK c \in Drawing!Read(s) :
            /\ from[2] = to[2]
            /\ mem' = Drawing!HLine(mem, from, to, c)
            /\ Drawing!Painted(Drawing!Box(from, <<to[1], to[2] + 1>>), c)
    BY <2>1
  <2>3. c \in Inks
    BY InksGiven
  <2>4. to[1] \in 0..Width
    BY AtIs, ScreenOK
  <2>5. Drawing!Box(from, <<to[1], to[2] + 1>>) = Across(from, to)
    <3>1. \A p \in Drawing!Screen : from[2] <= p[2] /\ p[2] < to[2] + 1 <=> p[2] = from[2]
      <4> SUFFICES ASSUME NEW p \in Drawing!Screen
                   PROVE  from[2] <= p[2] /\ p[2] < to[2] + 1 <=> p[2] = from[2]
        OBVIOUS
      <4>1. p[2] \in 0..(Height - 1) /\ from[2] \in 0..(Height - 1)
        BY AtIs
      <4> QED BY <2>2, <4>1, ScreenOK
    <3>2. <<to[1], to[2] + 1>>[1] = to[1] /\ <<to[1], to[2] + 1>>[2] = to[2] + 1
      OBVIOUS
    <3> QED BY <3>1, <3>2 DEF Drawing!Box, Across
  <2> QED BY <1>p, <2>2, <2>3, <2>4, <2>5, HLineHolds
<1>4. CASE Drawing!DrawRec
  <2>1. PICK lu \in Drawing!Screen, rd \in Drawing!Screen, c \in Paints :
          /\ lu[1] <= rd[1] /\ lu[2] <= rd[2]
          /\ mem' = Drawing!Rec(mem, lu, rd, Drawing!Opaque(c))
          /\ Drawing!Painted(Drawing!Box(lu, <<rd[1] + 1, rd[2] + 1>>)
                     \ (Drawing!Box(<<lu[1] + 1, lu[2] + 1>>, rd) \cup {rd}), Drawing!Opaque(c))
    BY <1>4 DEF Drawing!DrawRec
  <2>2. Drawing!Opaque(c) \in Inks
    BY InksGiven
  <2> QED BY <1>p, <2>1, <2>2, RecHolds
<1>5. CASE Drawing!FillRec
  <2>1. PICK lu \in Drawing!Screen, rd \in (0..Width) \X (0..Height), c \in Paints :
          /\ mem' = Drawing!Fill(mem, lu, rd, Drawing!Opaque(c))
          /\ Drawing!Painted(Drawing!Box(lu, rd), Drawing!Opaque(c))
    BY <1>5 DEF Drawing!FillRec
  <2>2. Drawing!Opaque(c) \in Inks
    BY InksGiven
  <2> QED BY <1>p, <2>1, <2>2, FillHolds
<1>6. CASE UNCHANGED Drawing!vars
  BY <1>6 DEF Drawing!vars
<1> QED BY <1>1, <1>2, <1>3, <1>4, <1>5, <1>6 DEF Drawing!Next

LEMMA ScreenIsPicture == Holds(mem, picture) => Drawing!ScreenShowsPicture
<1> SUFFICES ASSUME Holds(mem, picture) PROVE Drawing!ScreenShowsPicture
  OBVIOUS
<1>1. \A p \in Drawing!Screen : Drawing!Shown(p) = Pixel(mem, p)
  <2> SUFFICES ASSUME NEW p \in Drawing!Screen PROVE Drawing!Shown(p) = Pixel(mem, p)
    OBVIOUS
  <2>1. At(p) = fb_mem_offset + (p[2] * line_length + 4 * p[1]) /\ p[2] * line_length \in Nat
        /\ p[1] \in Nat
    BY AtIs
  <2> DEFINE Y == p[2] * line_length
  <2> HIDE DEF Y
  <2>2. fb_mem_offset + Y + 4 * p[1] = fb_mem_offset + (Y + 4 * p[1])
    BY <2>1, ScreenOK DEF Y
  <2>3. fb_mem_offset + p[2] * line_length + 4 * p[1] = At(p)
    BY <2>1, <2>2 DEF Y
  <2> QED BY <2>3 DEF Drawing!Shown, Pixel
<1> QED BY <1>1 DEF Holds, Margin, Drawing!ScreenShowsPicture

-----------------------------------------------------------------------------
(* The serial modes of mi_gpio_spi.c: what the device takes for a word.  The   *)
(* changes of the pins are followed one by one; before CS rises the device has *)
(* taken nothing, and the bits that it has then seen are those it had seen     *)
(* before and the word's.                                                      *)
LEMMA SpiWordsGiven == SpiWords \subseteq Nat
BY PeripheralsAssumption

Pins == {"CS", "SCLK", "SDI"}
Devices3 == [levels : [Pins -> {0, 1}], seen : Seq({0, 1}), got : Seq({0, 1})]
Told3 == Pins \X {0, 1}

\* What the device has seen after one more bit.
More(kind, s, b) == IF Len(s) > Transfers!Length(kind) THEN s ELSE Append(s, b)

\* The device e that d becomes by one change of a pin.
SeenBy(kind, d, pin, level, e) ==
  /\ e \in Devices3
  /\ e.levels = [d.levels EXCEPT ![pin] = level]
  /\ e.seen = IF pin = "CS" /\ d.levels["CS"] = 0 /\ level = 1 THEN <<>>
              ELSE IF pin = "SCLK" /\ d.levels["SCLK"] = 0 /\ level = 1 /\ d.levels["CS"] = 0
              THEN More(kind, d.seen, d.levels["SDI"]) ELSE d.seen
  /\ e.got = IF pin = "CS" /\ d.levels["CS"] = 0 /\ level = 1
             THEN (IF Len(d.seen) = Transfers!Length(kind) THEN d.seen ELSE <<>>)
             ELSE d.got

\* One change of a pin, field by field.
LEMMA SeeIs ==
  ASSUME NEW d \in Devices3, NEW pin \in Pins, NEW level \in {0, 1}, NEW kind
  PROVE  SeenBy(kind, d, pin, level, Transfers!See(kind, d, <<pin, level>>))
<1> DEFINE e == Transfers!See(kind, d, <<pin, level>>)
           rises == d.levels[pin] = 0 /\ level = 1
           after == [d EXCEPT !.levels[pin] = level]
<1>1. /\ after \in Devices3 /\ after.levels = [d.levels EXCEPT ![pin] = level]
      /\ after.seen = d.seen /\ after.got = d.got
  BY DEF Devices3
<1>2. e = IF pin = "CS" /\ rises
          THEN [after EXCEPT !.seen = <<>>,
                      !.got = IF Len(d.seen) = Transfers!Length(kind) THEN d.seen ELSE <<>>]
          ELSE IF pin = "SCLK" /\ rises /\ d.levels["CS"] = 0
          THEN [after EXCEPT !.seen = IF Len(@) > Transfers!Length(kind) THEN @
                                      ELSE Append(@, d.levels["SDI"])]
          ELSE after
  BY DEF Transfers!See
<1>3. d.seen \in Seq({0, 1}) /\ d.got \in Seq({0, 1}) /\ d.levels["SDI"] \in {0, 1}
  BY DEF Devices3, Pins
<1> SUFFICES SeenBy(kind, d, pin, level, e)
  OBVIOUS
<1> HIDE DEF after, e
<1>4. CASE pin = "CS" /\ rises
  <2> DEFINE h == IF Len(d.seen) = Transfers!Length(kind) THEN d.seen ELSE <<>>
  <2>1. e = [after EXCEPT !.seen = <<>>, !.got = h]
    BY <1>2, <1>4
  <2>2. h \in Seq({0, 1}) /\ <<>> \in Seq({0, 1})
    BY <1>3
  <2> HIDE DEF h
  <2>3. e \in Devices3 /\ e.levels = after.levels /\ e.seen = <<>> /\ e.got = h
    BY <1>1, <2>1, <2>2 DEF Devices3
  <2>4. /\ e \in Devices3 /\ e.levels = [d.levels EXCEPT ![pin] = level]
        /\ pin = "CS" /\ d.levels["CS"] = 0 /\ level = 1
        /\ e.seen = <<>> /\ e.got = h
    BY <1>1, <1>4, <2>3
  <2>5. /\ e.seen = <<>>
        /\ e.got = IF Len(d.seen) = Transfers!Length(kind) THEN d.seen ELSE <<>>
    BY <2>3 DEF h
  <2> QED BY <2>4, <2>5 DEF SeenBy
<1>5. CASE pin = "SCLK" /\ rises /\ d.levels["CS"] = 0
  <2> DEFINE h == More(kind, d.seen, d.levels["SDI"])
  <2>1. e = [after EXCEPT !.seen = h]
    BY <1>1, <1>2, <1>5 DEF More
  <2>2. h \in Seq({0, 1})
    BY <1>3 DEF More
  <2> HIDE DEF h
  <2>3. e \in Devices3 /\ e.levels = after.levels /\ e.seen = h /\ e.got = after.got
    BY <1>1, <2>1, <2>2 DEF Devices3
  <2>4. /\ e \in Devices3 /\ e.levels = [d.levels EXCEPT ![pin] = level]
        /\ pin = "SCLK" /\ d.levels["SCLK"] = 0 /\ level = 1 /\ d.levels["CS"] = 0
        /\ e.seen = More(kind, d.seen, d.levels["SDI"]) /\ e.got = d.got
    BY <1>1, <1>5, <2>3 DEF h
  <2> QED BY <2>4 DEF SeenBy
<1>6. CASE ~(pin = "CS" /\ rises) /\ ~(pin = "SCLK" /\ rises /\ d.levels["CS"] = 0)
  <2>1. e = after
    BY <1>2, <1>6
  <2> QED BY <1>1, <1>6, <2>1 DEF SeenBy
<1> QED BY <1>4, <1>5, <1>6

\* The device d with the levels of its pins, the bits seen and those taken.
Wired(d, cs, sclk, sdi, s, g) ==
  /\ d \in Devices3
  /\ d.levels["CS"] = cs /\ d.levels["SCLK"] = sclk /\ d.levels["SDI"] = sdi
  /\ d.seen = s /\ d.got = g

\* The changes of single pins that the words are made of: SDI is set, SCLK falls and
\* rises, CS falls and rises.
LEMMA DataSet ==
  ASSUME NEW d, NEW cs, NEW sclk, NEW sdi, NEW s, NEW g, NEW kind, NEW b \in {0, 1},
         Wired(d, cs, sclk, sdi, s, g)
  PROVE  Wired(Transfers!See(kind, d, <<"SDI", b>>), cs, sclk, b, s, g)
<1> DEFINE e == Transfers!See(kind, d, <<"SDI", b>>)
<1>1. d \in Devices3 /\ "SDI" \in Pins
  BY DEF Wired, Pins
<1> HIDE DEF e
<1>s. SeenBy(kind, d, "SDI", b, e)
  BY <1>1, SeeIs DEF e
<1>2. /\ e \in Devices3 /\ e.levels = [d.levels EXCEPT !["SDI"] = b]
      /\ e.seen = d.seen /\ e.got = d.got
  BY <1>1, <1>s DEF SeenBy
<1>3. Wired(e, cs, sclk, b, s, g)
  BY <1>1, <1>2 DEF Wired, Devices3, Pins
<1> QED BY <1>3 DEF e

LEMMA ClockFalls ==
  ASSUME NEW d, NEW cs, NEW sclk, NEW sdi, NEW s, NEW g, NEW kind,
         Wired(d, cs, sclk, sdi, s, g)
  PROVE  Wired(Transfers!See(kind, d, <<"SCLK", 0>>), cs, 0, sdi, s, g)
<1> DEFINE e == Transfers!See(kind, d, <<"SCLK", 0>>)
<1>1. d \in Devices3 /\ "SCLK" \in Pins
  BY DEF Wired, Pins
<1> HIDE DEF e
<1>s. SeenBy(kind, d, "SCLK", 0, e)
  BY <1>1, SeeIs DEF e
<1>2. /\ e \in Devices3 /\ e.levels = [d.levels EXCEPT !["SCLK"] = 0]
      /\ e.seen = d.seen /\ e.got = d.got
  BY <1>1, <1>s DEF SeenBy
<1>3. Wired(e, cs, 0, sdi, s, g)
  BY <1>1, <1>2 DEF Wired, Devices3, Pins
<1> QED BY <1>3 DEF e

LEMMA ClockRises ==
  ASSUME NEW d, NEW sdi, NEW s, NEW g, NEW kind, Wired(d, 0, 0, sdi, s, g)
  PROVE  Wired(Transfers!See(kind, d, <<"SCLK", 1>>), 0, 1, sdi, More(kind, s, sdi), g)
<1> DEFINE e == Transfers!See(kind, d, <<"SCLK", 1>>)
<1>1. d \in Devices3 /\ "SCLK" \in Pins /\ d.levels["CS"] = 0 /\ d.levels["SCLK"] = 0
      /\ d.levels["SDI"] = sdi /\ d.seen = s
  BY DEF Wired, Pins
<1> HIDE DEF e
<1>s. SeenBy(kind, d, "SCLK", 1, e)
  BY <1>1, SeeIs DEF e
<1>2. /\ e \in Devices3 /\ e.levels = [d.levels EXCEPT !["SCLK"] = 1]
      /\ e.seen = More(kind, s, sdi) /\ e.got = d.got
  BY <1>1, <1>s DEF SeenBy
<1>3. Wired(e, 0, 1, sdi, More(kind, s, sdi), g)
  BY <1>1, <1>2 DEF Wired, Devices3, Pins
<1> QED BY <1>3 DEF e

\* A rise of the clock while the device is not selected.
LEMMA ClockIgnored ==
  ASSUME NEW d, NEW sclk, NEW sdi, NEW s, NEW g, NEW kind, Wired(d, 1, sclk, sdi, s, g)
  PROVE  Wired(Transfers!See(kind, d, <<"SCLK", 1>>), 1, 1, sdi, s, g)
<1> DEFINE e == Transfers!See(kind, d, <<"SCLK", 1>>)
<1>1. d \in Devices3 /\ "SCLK" \in Pins /\ d.levels["CS"] = 1
  BY DEF Wired, Pins
<1> HIDE DEF e
<1>s. SeenBy(kind, d, "SCLK", 1, e)
  BY <1>1, SeeIs DEF e
<1>2. /\ e \in Devices3 /\ e.levels = [d.levels EXCEPT !["SCLK"] = 1]
      /\ e.seen = d.seen /\ e.got = d.got
  BY <1>1, <1>s DEF SeenBy
<1>3. Wired(e, 1, 1, sdi, s, g)
  BY <1>1, <1>2 DEF Wired, Devices3, Pins
<1> QED BY <1>3 DEF e

LEMMA Selected ==
  ASSUME NEW d, NEW cs, NEW sclk, NEW sdi, NEW s, NEW g, NEW kind,
         Wired(d, cs, sclk, sdi, s, g)
  PROVE  Wired(Transfers!See(kind, d, <<"CS", 0>>), 0, sclk, sdi, s, g)
<1> DEFINE e == Transfers!See(kind, d, <<"CS", 0>>)
<1>1. d \in Devices3 /\ "CS" \in Pins
  BY DEF Wired, Pins
<1> HIDE DEF e
<1>s. SeenBy(kind, d, "CS", 0, e)
  BY <1>1, SeeIs DEF e
<1>2. /\ e \in Devices3 /\ e.levels = [d.levels EXCEPT !["CS"] = 0]
      /\ e.seen = d.seen /\ e.got = d.got
  BY <1>1, <1>s DEF SeenBy
<1>3. Wired(e, 0, sclk, sdi, s, g)
  BY <1>1, <1>2 DEF Wired, Devices3, Pins
<1> QED BY <1>3 DEF e

LEMMA Deselected ==
  ASSUME NEW d, NEW sclk, NEW sdi, NEW s, NEW g, NEW kind, Wired(d, 0, sclk, sdi, s, g)
  PROVE  Wired(Transfers!See(kind, d, <<"CS", 1>>), 1, sclk, sdi, <<>>,
               IF Len(s) = Transfers!Length(kind) THEN s ELSE <<>>)
<1> DEFINE e == Transfers!See(kind, d, <<"CS", 1>>)
           h == IF Len(s) = Transfers!Length(kind) THEN s ELSE <<>>
<1>1. d \in Devices3 /\ "CS" \in Pins /\ d.levels["CS"] = 0 /\ d.seen = s
  BY DEF Wired, Pins
<1> HIDE DEF e
<1>s. SeenBy(kind, d, "CS", 1, e)
  BY <1>1, SeeIs DEF e
<1>2. /\ e \in Devices3 /\ e.levels = [d.levels EXCEPT !["CS"] = 1]
      /\ e.seen = <<>> /\ e.got = h
  BY <1>1, <1>s DEF SeenBy
<1> HIDE DEF h
<1>3. Wired(e, 1, sclk, sdi, <<>>, h)
  BY <1>1, <1>2 DEF Wired, Devices3, Pins
<1> QED BY <1>3 DEF e, h

\* The changes c are those of a and then those of b.
Glued(a, b, c) ==
  /\ c \in Seq(Told3) /\ Len(c) = Len(a) + Len(b)
  /\ \A i \in 1..Len(a) : c[i] = a[i]
  /\ \A i \in 1..Len(b) : c[Len(a) + i] = b[i]

\* Where the changes of two parts stand in both together.
LEMMA Glue ==
  ASSUME NEW a \in Seq(Told3), NEW b \in Seq(Told3)
  PROVE  Glued(a, b, a \o b)
<1>1. a \o b \in Seq(Told3) /\ Len(a \o b) = Len(a) + Len(b)
  OBVIOUS
<1>2. \A i \in 1..Len(a) : (a \o b)[i] = a[i]
  OBVIOUS
<1>3. \A i \in 1..Len(b) : (a \o b)[Len(a) + i] = b[i]
  <2> SUFFICES ASSUME NEW i \in 1..Len(b) PROVE (a \o b)[Len(a) + i] = b[i]
    OBVIOUS
  <2> DEFINE n == Len(a) + i
  <2>1. n \in 1..Len(a) + Len(b) /\ n > Len(a) /\ n - Len(a) = i
    OBVIOUS
  <2>2. (a \o b)[n] = b[n - Len(a)]
    BY <2>1
  <2> QED BY <2>1, <2>2
<1> QED BY <1>1, <1>2, <1>3 DEF Glued

\* From place P on the changes c are those of the clocked bits and the end.
Carries(c, P, bits) ==
  /\ c[P + 1] = <<"SCLK", 0>>
  /\ \A j \in 0..Len(bits) - 1 :
       /\ c[P + 3 * j + 2] = <<"SDI", bits[j + 1]>>
       /\ c[P + 3 * j + 3] = <<"SCLK", 0>>
       /\ c[P + 3 * j + 4] = <<"SCLK", 1>>
  /\ c[P + 3 * Len(bits) + 2] = <<"SCLK", 0>>

\* The changes that the code makes are of the kinds the device knows.
LEMMA TellTyped == <<"SCLK", 0>> \in Told3 /\ <<"SCLK", 1>> \in Told3 /\ <<"CS", 0>> \in Told3
                   /\ <<"CS", 1>> \in Told3 /\ \A b \in {0, 1} : <<"SDI", b>> \in Told3
BY DEF Told3, Pins

\* _SDI_write_8bit: SDI, and SCLK down and up, for each bit, between two falls of SCLK.
LEMMA ClockedIs ==
  ASSUME NEW bits \in Seq({0, 1}), NEW L \in Nat, L = Len(bits)
  PROVE  /\ Transfers!Clocked(bits) \in Seq(Told3)
         /\ Len(Transfers!Clocked(bits)) = 3 * L + 2
         /\ Carries(Transfers!Clocked(bits), 0, bits)
         /\ \A i \in 1..3 * L + 2 : Transfers!Clocked(bits)[i][1] # "CS"
<1> DEFINE F == [k \in 1..3 * Len(bits) |->
                   IF k % 3 = 1 THEN <<"SDI", bits[(k + 2) \div 3]>>
                   ELSE <<"SCLK", IF k % 3 = 2 THEN 0 ELSE 1>>]
           z == << <<"SCLK", 0>> >>
<1>1. \A k \in 1..3 * L : F[k] = IF k % 3 = 1 THEN <<"SDI", bits[(k + 2) \div 3]>>
                                ELSE <<"SCLK", IF k % 3 = 2 THEN 0 ELSE 1>>
  OBVIOUS
<1>lo. \A k \in 1..3 * L : k % 3 = 2 => F[k] = <<"SCLK", 0>>
  OBVIOUS
<1>hi. \A k \in 1..3 * L : k % 3 = 0 => F[k] = <<"SCLK", 1>>
  OBVIOUS
<1>2. \A k \in 1..3 * L : F[k] \in Told3 /\ F[k][1] # "CS"
  <2> SUFFICES ASSUME NEW k \in 1..3 * L PROVE F[k] \in Told3 /\ F[k][1] # "CS"
    OBVIOUS
  <2> HIDE DEF F
  <2>1. CASE k % 3 = 1
    <3>1. (k + 2) \div 3 \in 1..L
      BY <2>1
    <3>2. bits[(k + 2) \div 3] \in {0, 1}
      BY <3>1
    <3>3. F[k] = <<"SDI", bits[(k + 2) \div 3]>>
      BY <1>1, <2>1
    <3> QED BY <3>2, <3>3 DEF Told3, Pins
  <2>2. CASE k % 3 # 1
    <3>1. F[k] = <<"SCLK", 0>> \/ F[k] = <<"SCLK", 1>>
      BY <1>1, <2>2
    <3>2. <<"SCLK", 0>>[1] # "CS" /\ <<"SCLK", 1>>[1] # "CS"
      OBVIOUS
    <3>3. CASE F[k] = <<"SCLK", 0>>
      BY <3>2, <3>3, TellTyped
    <3>4. CASE F[k] = <<"SCLK", 1>>
      BY <3>2, <3>4, TellTyped
    <3> QED BY <3>1, <3>3, <3>4
  <2> QED BY <2>1, <2>2
<1>3. F \in Seq(Told3) /\ Len(F) = 3 * L
  <2>1. F \in [1..3 * L -> Told3] /\ 3 * L \in Nat
    BY <1>2
  <2> HIDE DEF F
  <2> QED BY <2>1
<1>4. z \in Seq(Told3) /\ Len(z) = 1 /\ z[1] = <<"SCLK", 0>>
  BY TellTyped
<1> DEFINE g == z \o F
           c == g \o z
<1>5. Transfers!Clocked(bits) = c
  BY DEF Transfers!Clocked
<1>6. \A j \in 0..L - 1 : F[3 * j + 1] = <<"SDI", bits[j + 1]>> /\ F[3 * j + 2] = <<"SCLK", 0>>
                          /\ F[3 * j + 3] = <<"SCLK", 1>>
  <2> SUFFICES ASSUME NEW j \in 0..L - 1
               PROVE  F[3 * j + 1] = <<"SDI", bits[j + 1]>> /\ F[3 * j + 2] = <<"SCLK", 0>>
                      /\ F[3 * j + 3] = <<"SCLK", 1>>
    OBVIOUS
  <2> HIDE DEF F
  <2>1. /\ 3 * j + 1 \in 1..3 * L /\ 3 * j + 2 \in 1..3 * L /\ 3 * j + 3 \in 1..3 * L
        /\ (3 * j + 1) % 3 = 1 /\ (3 * j + 2) % 3 = 2 /\ (3 * j + 3) % 3 = 0
        /\ (3 * j + 1 + 2) \div 3 = j + 1
    OBVIOUS
  <2>2. F[3 * j + 1] = <<"SDI", bits[(3 * j + 1 + 2) \div 3]>>
    BY <1>1, <2>1
  <2>3. F[3 * j + 2] = <<"SCLK", 0>>
    <3> DEFINE k == 3 * j + 2
    <3>1. k \in 1..3 * L /\ k % 3 = 2
      BY <2>1
    <3> HIDE DEF k
    <3>2. F[k] = <<"SCLK", 0>>
      BY <1>lo, <3>1
    <3> QED BY <3>2 DEF k
  <2>4. F[3 * j + 3] = <<"SCLK", 1>>
    <3> DEFINE k == 3 * j + 3
    <3>1. k \in 1..3 * L /\ k % 3 = 0
      BY <2>1
    <3> HIDE DEF k
    <3>2. F[k] = <<"SCLK", 1>>
      BY <1>hi, <3>1
    <3> QED BY <3>2 DEF k
  <2> QED BY <2>1, <2>2, <2>3, <2>4
<1> HIDE DEF F, z
<1>7. Glued(z, F, g)
  BY <1>3, <1>4, Glue
<1> HIDE DEF g
<1>8. /\ g \in Seq(Told3) /\ Len(g) = 3 * L + 1
      /\ \A i \in 1..3 * L : g[1 + i] = F[i]
      /\ g[1] = <<"SCLK", 0>>
  BY <1>3, <1>4, <1>7 DEF Glued
<1>9. Glued(g, z, c)
  BY <1>4, <1>8, Glue
<1> HIDE DEF c
<1>10. /\ c \in Seq(Told3) /\ Len(c) = 3 * L + 2
       /\ \A i \in 1..3 * L + 1 : c[i] = g[i]
       /\ c[3 * L + 2] = <<"SCLK", 0>>
  BY <1>4, <1>8, <1>9 DEF Glued
<1>11. /\ c[1] = <<"SCLK", 0>>
       /\ \A i \in 1..3 * L : c[1 + i] = F[i]
  BY <1>8, <1>10
<1>12. \A j \in 0..L - 1 :
         /\ c[0 + 3 * j + 2] = <<"SDI", bits[j + 1]>>
         /\ c[0 + 3 * j + 3] = <<"SCLK", 0>>
         /\ c[0 + 3 * j + 4] = <<"SCLK", 1>>
  <2> SUFFICES ASSUME NEW j \in 0..L - 1
               PROVE  /\ c[0 + 3 * j + 2] = <<"SDI", bits[j + 1]>>
                      /\ c[0 + 3 * j + 3] = <<"SCLK", 0>>
                      /\ c[0 + 3 * j + 4] = <<"SCLK", 1>>
    OBVIOUS
  <2>1. /\ 0 + 3 * j + 2 = 1 + (3 * j + 1) /\ 0 + 3 * j + 3 = 1 + (3 * j + 2)
        /\ 0 + 3 * j + 4 = 1 + (3 * j + 3)
        /\ 3 * j + 1 \in 1..3 * L /\ 3 * j + 2 \in 1..3 * L /\ 3 * j + 3 \in 1..3 * L
    OBVIOUS
  <2> QED BY <1>6, <1>11, <2>1
<1>13. Carries(c, 0, bits)
  BY <1>10, <1>11, <1>12 DEF Carries
<1>14. \A i \in 1..3 * L + 2 : c[i][1] # "CS"
  <2> SUFFICES ASSUME NEW i \in 1..3 * L + 2 PROVE c[i][1] # "CS"
    OBVIOUS
  <2>1. CASE i = 1 \/ i = 3 * L + 2
    BY <1>10, <1>11, <2>1
  <2>2. CASE i # 1 /\ i # 3 * L + 2
    <3>1. i - 1 \in 1..3 * L /\ i = 1 + (i - 1)
      BY <2>2
    <3> QED BY <1>2, <1>11, <3>1
  <2> QED BY <2>1, <2>2
<1> QED BY <1>5, <1>10, <1>13, <1>14

\* The devices u after each of the first n changes.
Run(u, n, kind, d, c) ==
  u = [k \in 0..n |-> IF k = 0 THEN d ELSE Transfers!See(kind, u[k - 1], c[k])]

Beginning(kind) ==
  [levels |-> levels, seen |-> IF kind = sent.mode THEN seen ELSE <<>>, got |-> <<>>]

\* A transfer of N changes is a run of N steps of the device.
LEMMA ClockRuns ==
  ASSUME NEW kind, NEW c, NEW N \in Nat, Transfers!Clock(kind, c, N)
  PROVE  \E u : /\ Run(u, N, kind, Beginning(kind), c)
               /\ levels' = u[N].levels /\ seen' = u[N].seen /\ got' = u[N].got
<1> DEFINE m == Beginning(kind)
           T == {n \in 0..N : \E g : Run(g, n, kind, m, c)}
<1> HIDE DEF m
<1>1. 0 \in T
  <2> DEFINE g == [k \in 0..0 |-> m]
  <2>1. \A k \in 0..0 : g[k] = IF k = 0 THEN m ELSE Transfers!See(kind, g[k - 1], c[k])
    OBVIOUS
  <2>2. Run(g, 0, kind, m, c)
    BY <2>1 DEF Run
  <2> QED BY <2>2
<1>2. \A n \in 0..N : n < N /\ n \in T => n + 1 \in T
  <2> SUFFICES ASSUME NEW n \in 0..N, n < N, n \in T PROVE n + 1 \in T
    OBVIOUS
  <2>1. PICK g : Run(g, n, kind, m, c)
    OBVIOUS
  <2>n. n \in Nat /\ n + 1 \in 0..N
    OBVIOUS
  <2>2. \A k \in 0..n : g[k] = IF k = 0 THEN m ELSE Transfers!See(kind, g[k - 1], c[k])
    BY <2>1 DEF Run
  <2> DEFINE h == [k \in 0..(n + 1) |-> IF k <= n THEN g[k] ELSE Transfers!See(kind, g[n], c[n + 1])]
  <2>3. \A k \in 0..n : h[k] = g[k]
    BY <2>n
  <2>4. h[n + 1] = Transfers!See(kind, g[n], c[n + 1])
    BY <2>n
  <2>5. h = [k \in 0..(n + 1) |-> h[k]]
    OBVIOUS
  <2> HIDE DEF h, T
  <2>6. \A k \in 0..(n + 1) : h[k] = IF k = 0 THEN m ELSE Transfers!See(kind, h[k - 1], c[k])
    <3> SUFFICES ASSUME NEW k \in 0..(n + 1)
                 PROVE  h[k] = IF k = 0 THEN m ELSE Transfers!See(kind, h[k - 1], c[k])
      OBVIOUS
    <3>1. CASE k \in 0..n
      <4>1. k # 0 => k - 1 \in 0..n
        BY <2>n, <3>1
      <4> QED BY <2>2, <2>3, <3>1, <4>1
    <3>2. CASE k = n + 1
      <4>1. k # 0 /\ k - 1 = n /\ n \in 0..n
        BY <2>n, <3>2
      <4> QED BY <2>3, <2>4, <3>2, <4>1
    <3> QED BY <2>n, <3>1, <3>2
  <2>7. Run(h, n + 1, kind, m, c)
    BY <2>5, <2>6 DEF Run
  <2> QED BY <2>7, <2>n DEF T
<1> HIDE DEF T
<1>3. N \in T
  <2>1. \A n \in 0..N : n \in T
    BY <1>1, <1>2, UpTo, Zenon
  <2> QED BY <2>1
<1> DEFINE U == CHOOSE u : u = [k \in 0..N |-> IF k = 0 THEN m ELSE Transfers!See(kind, u[k - 1], c[k])]
<1>4. \E u : u = [k \in 0..N |-> IF k = 0 THEN m ELSE Transfers!See(kind, u[k - 1], c[k])]
  BY <1>3 DEF T, Run
<1>5. U = [k \in 0..N |-> IF k = 0 THEN m ELSE Transfers!See(kind, U[k - 1], c[k])]
  BY <1>4, Zenon
<1>6. levels' = U[N].levels /\ seen' = U[N].seen /\ got' = U[N].got
  BY DEF Transfers!Clock, m, Beginning
<1> HIDE DEF U
<1>7. Run(U, N, kind, m, c)
  BY <1>5 DEF Run
<1> QED BY <1>6, <1>7 DEF m

\* The run, step by step.
LEMMA RunSteps ==
  ASSUME NEW u, NEW n \in Nat, NEW kind, NEW d, NEW c, Run(u, n, kind, d, c)
  PROVE  /\ u[0] = d
         /\ \A k \in 1..n : u[k] = Transfers!See(kind, u[k - 1], c[k])
<1>1. \A k \in 0..n : u[k] = IF k = 0 THEN d ELSE Transfers!See(kind, u[k - 1], c[k])
  BY DEF Run
<1> HIDE DEF Run
<1>2. \A k \in 1..n : k \in 0..n /\ k # 0
  OBVIOUS
<1>3. 0 \in 0..n
  OBVIOUS
<1> QED BY <1>1, <1>2, <1>3

\* The lengths of words.
LEMMA LengthTyped == \A kind : Transfers!Length(kind) \in {8, 9, 16}
BY DEF Transfers!Length

\* Bits s are those of base and the first j of bits.
Joint(base, bits, j, s) ==
  /\ Len(s) = Len(base) + j
  /\ \A i \in 1..Len(base) : s[i] = base[i]
  /\ \A i \in 1..j : s[Len(base) + i] = bits[i]

\* What a device of the kind may have seen after j bits, when it had seen base.
Gathered(kind, base, bits, j, s) ==
  /\ s \in Seq({0, 1})
  /\ \/ Len(s) > Transfers!Length(kind) /\ Len(base) + Len(bits) > Transfers!Length(kind)
     \/ Joint(base, bits, j, s)

\* One bit more, also for a device that has seen too many already.
LEMMA GatherMore ==
  ASSUME NEW kind, NEW base \in Seq({0, 1}), NEW bits \in Seq({0, 1}),
         NEW j \in 0..Len(bits) - 1, NEW s, Gathered(kind, base, bits, j, s)
  PROVE  Gathered(kind, base, bits, j + 1, More(kind, s, bits[j + 1]))
<1> DEFINE b == bits[j + 1]
           L == Transfers!Length(kind)
           t == More(kind, s, b)
<1>1. b \in {0, 1} /\ L \in Nat /\ s \in Seq({0, 1}) /\ j \in Nat /\ Len(base) \in Nat
      /\ Len(bits) \in Nat /\ j < Len(bits)
  BY LengthTyped DEF Gathered
<1>2. t = IF Len(s) > L THEN s ELSE Append(s, b)
  BY DEF More
<1> HIDE DEF t, L
<1>3. CASE Len(s) > L
  <2>1. Len(base) + Len(bits) > L
    <3>1. CASE Joint(base, bits, j, s)
      <4>1. Len(s) = Len(base) + j
        BY <3>1 DEF Joint
      <4> QED BY <1>1, <1>3, <4>1
    <3>2. CASE ~Joint(base, bits, j, s)
      BY <3>2 DEF Gathered, L
    <3> QED BY <3>1, <3>2
  <2>2. t = s
    BY <1>2, <1>3
  <2> QED BY <1>1, <1>3, <2>1, <2>2 DEF Gathered, L, t
<1>4. CASE ~(Len(s) > L)
  <2>1. Joint(base, bits, j, s)
    BY <1>4 DEF Gathered, L
  <2>2. t = Append(s, b)
    BY <1>2, <1>4
  <2>3. /\ t \in Seq({0, 1}) /\ Len(t) = Len(s) + 1 /\ t[Len(s) + 1] = b
        /\ \A i \in 1..Len(s) : t[i] = s[i]
    BY <1>1, <2>2
  <2>4. Len(s) = Len(base) + j
    BY <2>1 DEF Joint
  <2>5. Len(t) = Len(base) + (j + 1) /\ t[Len(base) + (j + 1)] = b
    <3>1. Len(s) + 1 = Len(base) + (j + 1)
      BY <1>1, <2>4
    <3> QED BY <2>3, <3>1
  <2>6. \A i \in 1..Len(base) : t[i] = base[i]
    <3>1. \A i \in 1..Len(base) : s[i] = base[i] /\ i \in 1..Len(s)
      BY <1>1, <2>1, <2>4 DEF Joint
    <3> QED BY <2>3, <3>1
  <2>7. \A i \in 1..(j + 1) : t[Len(base) + i] = bits[i]
    <3> SUFFICES ASSUME NEW i \in 1..(j + 1) PROVE t[Len(base) + i] = bits[i]
      OBVIOUS
    <3>1. CASE i = j + 1
      BY <2>5, <3>1
    <3>2. CASE i # j + 1
      <4>1. i \in 1..j /\ Len(base) + i \in 1..Len(s)
        BY <1>1, <2>4, <3>2
      <4>2. s[Len(base) + i] = bits[i]
        BY <2>1, <4>1 DEF Joint
      <4> QED BY <2>3, <4>1, <4>2
    <3> QED BY <3>1, <3>2
  <2>8. Joint(base, bits, j + 1, t)
    BY <2>5, <2>6, <2>7 DEF Joint
  <2> QED BY <2>3, <2>8 DEF Gathered, t
<1> QED BY <1>3, <1>4

\* The device after the clocked bits.
LEMMA BitsClocked ==
  ASSUME NEW u, NEW n \in Nat, NEW kind, NEW d, NEW c, Run(u, n, kind, d, c),
         NEW P \in Nat, NEW bits \in Seq({0, 1}), Carries(c, P, bits),
         P + 3 * Len(bits) + 2 <= n,
         NEW base \in Seq({0, 1}), NEW x, NEW y, NEW g, Wired(u[P], 0, x, y, base, g)
  PROVE  \E s, z : Gathered(kind, base, bits, Len(bits), s)
                   /\ Wired(u[P + 3 * Len(bits) + 2], 0, 0, z, s, g)
<1> DEFINE L == Len(bits)
           Stage(j) == \E s, v, z : Gathered(kind, base, bits, j, s) /\ Wired(u[P + 3 * j + 1], 0, v, z, s, g)
           T == {j \in 0..L : Stage(j)}
<1>s. \A k \in 1..n : u[k] = Transfers!See(kind, u[k - 1], c[k])
  BY RunSteps
<1>0. L \in Nat
  OBVIOUS
<1>1. Stage(0)
  <2>1. u[P + 1] = Transfers!See(kind, u[P], <<"SCLK", 0>>)
    <3>1. P + 1 \in 1..n /\ (P + 1) - 1 = P
      BY <1>0
    <3>2. c[P + 1] = <<"SCLK", 0>>
      BY DEF Carries
    <3> QED BY <1>s, <3>1, <3>2
  <2>2. Wired(u[P + 1], 0, 0, y, base, g)
    BY <2>1, ClockFalls
  <2>3. Gathered(kind, base, bits, 0, base)
    BY DEF Gathered, Joint
  <2>4. P + 3 * 0 + 1 = P + 1
    OBVIOUS
  <2> QED BY <2>2, <2>3, <2>4
<1>2. \A j \in 0..L : j < L /\ j \in T => j + 1 \in T
  <2> SUFFICES ASSUME NEW j \in 0..L, j < L, j \in T PROVE j + 1 \in T
    OBVIOUS
  <2>0. Stage(j) /\ j + 1 \in 0..L
    BY <1>0
  <2>1. PICK s, v, z : Gathered(kind, base, bits, j, s) /\ Wired(u[P + 3 * j + 1], 0, v, z, s, g)
    BY <2>0
  <2> DEFINE k == P + 3 * j + 1
             b == bits[j + 1]
  <2>2. /\ k + 1 = P + 3 * j + 2 /\ k + 2 = P + 3 * j + 3 /\ k + 3 = P + 3 * j + 4
        /\ k + 1 \in 1..n /\ k + 2 \in 1..n /\ k + 3 \in 1..n /\ k \in Nat
        /\ k + 3 = P + 3 * (j + 1) + 1 /\ j \in 0..Len(bits) - 1
    BY <1>0
  <2>3. c[k + 1] = <<"SDI", b>> /\ c[k + 2] = <<"SCLK", 0>> /\ c[k + 3] = <<"SCLK", 1>>
    BY <2>2 DEF Carries
  <2>b. b \in {0, 1}
    BY <2>2
  <2>w. Wired(u[k], 0, v, z, s, g)
    BY <2>1
  <2> HIDE DEF k, b
  <2>4. u[k + 1] = Transfers!See(kind, u[k], <<"SDI", b>>)
    <3>1. (k + 1) - 1 = k
      BY <2>2
    <3> QED BY <1>s, <2>2, <2>3, <3>1
  <2>5. u[k + 2] = Transfers!See(kind, u[k + 1], <<"SCLK", 0>>)
    <3>1. (k + 2) - 1 = k + 1
      BY <2>2
    <3> QED BY <1>s, <2>2, <2>3, <3>1
  <2>6. u[k + 3] = Transfers!See(kind, u[k + 2], <<"SCLK", 1>>)
    <3>1. (k + 3) - 1 = k + 2
      BY <2>2
    <3> QED BY <1>s, <2>2, <2>3, <3>1
  <2>7. Wired(u[k + 1], 0, v, b, s, g)
    BY <2>4, <2>b, <2>w, DataSet
  <2>8. Wired(u[k + 2], 0, 0, b, s, g)
    BY <2>5, <2>7, ClockFalls
  <2>9. Wired(u[k + 3], 0, 1, b, More(kind, s, b), g)
    BY <2>6, <2>8, ClockRises
  <2>10. Gathered(kind, base, bits, j + 1, More(kind, s, b))
    BY <2>1, <2>2, GatherMore DEF b
  <2>11. Wired(u[P + 3 * (j + 1) + 1], 0, 1, b, More(kind, s, b), g)
    BY <2>2, <2>9
  <2>12. Stage(j + 1)
    BY <2>10, <2>11
  <2> QED BY <2>0, <2>12
<1>3. Stage(L)
  <2>1. 0 \in T
    BY <1>0, <1>1
  <2> HIDE DEF T, L
  <2>2. \A j \in 0..L : j \in T
    BY <1>0, <1>2, <2>1, UpTo, Zenon
  <2>3. L \in T
    BY <1>0, <2>2
  <2> QED BY <2>3 DEF T
<1>4. PICK s, v, z : Gathered(kind, base, bits, L, s) /\ Wired(u[P + 3 * L + 1], 0, v, z, s, g)
  BY <1>3
<1> DEFINE k == P + 3 * L + 1
<1>5. k + 1 = P + 3 * L + 2 /\ k + 1 \in 1..n /\ (k + 1) - 1 = k
  BY <1>0
<1>6. c[k + 1] = <<"SCLK", 0>>
  BY <1>5 DEF Carries
<1>w. Wired(u[k], 0, v, z, s, g)
  BY <1>4
<1> HIDE DEF k
<1>7. u[k + 1] = Transfers!See(kind, u[k], <<"SCLK", 0>>)
  BY <1>s, <1>5, <1>6
<1>8. Wired(u[k + 1], 0, 0, z, s, g)
  BY <1>7, <1>w, ClockFalls
<1> QED BY <1>4, <1>5, <1>8

\* What the device takes when CS rises after base and all bits.
Accepted(kind, base, bits) ==
  IF Len(base) + Len(bits) = Transfers!Length(kind) THEN base \o bits ELSE <<>>

\* Bits that begin with one sequence and go on with another are both together.
LEMMA JointIs ==
  ASSUME NEW base \in Seq({0, 1}), NEW bits \in Seq({0, 1}), NEW s \in Seq({0, 1}),
         Joint(base, bits, Len(bits), s)
  PROVE  s = base \o bits /\ Len(s) = Len(base) + Len(bits)
<1> DEFINE m == Len(base)
           n == Len(bits)
           t == base \o bits
<1>1. m \in Nat /\ n \in Nat /\ Len(s) = m + n /\ t \in Seq({0, 1}) /\ Len(t) = m + n
  BY DEF Joint
<1>2. \A i \in 1..m : s[i] = base[i] /\ t[i] = base[i]
  BY DEF Joint
<1>3. \A i \in 1..n : s[m + i] = bits[i]
  BY DEF Joint
<1>4. \A i \in 1..n : t[m + i] = bits[i]
  <2> SUFFICES ASSUME NEW i \in 1..n PROVE t[m + i] = bits[i]
    OBVIOUS
  <2> DEFINE k == m + i
  <2>1. k \in 1..m + n /\ k > m /\ k - m = i
    BY <1>1
  <2>2. t[k] = bits[k - m]
    BY <2>1
  <2> QED BY <2>1, <2>2
<1> HIDE DEF m, n, t
<1>5. \A i \in 1..(m + n) : s[i] = t[i]
  <2> SUFFICES ASSUME NEW i \in 1..(m + n) PROVE s[i] = t[i]
    OBVIOUS
  <2>1. CASE i <= m
    BY <1>1, <1>2, <2>1
  <2>2. CASE i > m
    <3>1. i - m \in 1..n /\ m + (i - m) = i
      BY <1>1, <2>2
    <3> QED BY <1>3, <1>4, <3>1
  <2>3. i <= m \/ i > m
    BY <1>1
  <2> QED BY <2>1, <2>2, <2>3
<1>6. s = t
  BY <1>1, <1>5
<1> QED BY <1>1, <1>6 DEF m, n, t

\* What has the right length when CS rises is what was seen before and the word's bits.
LEMMA TakenIs ==
  ASSUME NEW kind, NEW base \in Seq({0, 1}), NEW bits \in Seq({0, 1}), NEW s,
         Gathered(kind, base, bits, Len(bits), s)
  PROVE  (IF Len(s) = Transfers!Length(kind) THEN s ELSE <<>>) = Accepted(kind, base, bits)
<1> DEFINE L == Transfers!Length(kind)
<1>1. s \in Seq({0, 1}) /\ L \in Nat /\ Len(s) \in Nat /\ Len(base) \in Nat /\ Len(bits) \in Nat
  BY LengthTyped DEF Gathered
<1>2. CASE Joint(base, bits, Len(bits), s)
  BY <1>1, <1>2, JointIs DEF Accepted
<1>3. CASE ~Joint(base, bits, Len(bits), s)
  <2>1. Len(s) > L /\ Len(base) + Len(bits) > L
    BY <1>3 DEF Gathered
  <2> HIDE DEF L
  <2>2. Len(s) # L /\ Len(base) + Len(bits) # L
    BY <1>1, <2>1
  <2> QED BY <2>2 DEF Accepted, L
<1> QED BY <1>2, <1>3

\* A device that takes nothing while it is not selected.
Quiet(d) == d \in Devices3 /\ d.got = <<>> /\ (d.levels["CS"] = 1 => d.seen = <<>>)

\* Without a rise of CS a device takes nothing.
LEMMA QuietStays ==
  ASSUME NEW kind, NEW d, Quiet(d), NEW t \in Told3, t # <<"CS", 1>>
  PROVE  Quiet(Transfers!See(kind, d, t))
<1>1. PICK pin \in Pins, level \in {0, 1} : t = <<pin, level>>
  BY DEF Told3
<1> DEFINE e == Transfers!See(kind, d, <<pin, level>>)
<1>2. d \in Devices3 /\ d.levels \in [Pins -> {0, 1}] /\ "CS" \in Pins
  BY DEF Quiet, Devices3, Pins
<1>s. SeenBy(kind, d, pin, level, e)
  BY <1>2, SeeIs
<1> HIDE DEF e
<1>3. ~(pin = "CS" /\ level = 1)
  BY <1>1
<1>4. e \in Devices3 /\ e.got = <<>>
  BY <1>3, <1>s DEF SeenBy, Quiet
<1>5. e.levels["CS"] = 1 => e.seen = <<>>
  <2>1. e.levels = [d.levels EXCEPT ![pin] = level]
    BY <1>s DEF SeenBy
  <2>2. e.levels["CS"] = 1 => pin # "CS" /\ d.levels["CS"] = 1
    <3>1. CASE pin = "CS"
      BY <1>2, <1>3, <2>1, <3>1
    <3>2. CASE pin # "CS"
      BY <1>2, <2>1, <3>2
    <3> QED BY <3>1, <3>2
  <2>3. d.levels["CS"] = 1 /\ pin # "CS" => e.seen = d.seen
    BY <1>s DEF SeenBy
  <2> QED BY <2>2, <2>3 DEF Quiet
<1> QED BY <1>1, <1>4, <1>5 DEF Quiet, e

\* The same of any number of changes, so of a word that is broken off before CS rises.
LEMMA QuietRun ==
  ASSUME NEW u, NEW n \in Nat, NEW kind, NEW d, NEW c, Run(u, n, kind, d, c), Quiet(d),
         \A k \in 1..n : c[k] \in Told3 /\ c[k] # <<"CS", 1>>
  PROVE  Quiet(u[n])
<1> DEFINE T == {k \in 0..n : Quiet(u[k])}
<1>1. 0 \in T
  BY RunSteps
<1>s. \A k \in 1..n : u[k] = Transfers!See(kind, u[k - 1], c[k])
  BY RunSteps
<1>2. \A k \in 0..n : k < n /\ k \in T => k + 1 \in T
  <2> SUFFICES ASSUME NEW k \in 0..n, k < n, k \in T PROVE k + 1 \in T
    OBVIOUS
  <2>1. k + 1 \in 1..n /\ (k + 1) - 1 = k /\ Quiet(u[k]) /\ k + 1 \in 0..n
    OBVIOUS
  <2>2. u[k + 1] = Transfers!See(kind, u[k], c[k + 1])
    BY <1>s, <2>1
  <2>3. Quiet(u[k + 1])
    BY <2>1, <2>2, QuietStays
  <2> QED BY <2>1, <2>3
<1> HIDE DEF T
<1>3. \A k \in 0..n : k \in T
  BY <1>1, <1>2, UpTo, Zenon
<1>4. n \in T
  BY <1>3
<1> QED BY <1>4 DEF T

\* The changes c: some that open the word, its clocked bits, CS that rises, and
\* in one kind the clock.
Worded(c, P, bits, more) ==
  /\ c \in Seq(Told3) /\ Len(c) = P + 3 * Len(bits) + 2 + more
  /\ Carries(c, P, bits)
  /\ \A i \in 1..P + 3 * Len(bits) + 2 : c[i] # <<"CS", 1>>
  /\ c[P + 3 * Len(bits) + 3] = <<"CS", 1>>
  /\ more = 2 => c[P + 3 * Len(bits) + 4] = <<"SCLK", 1>>

\* A word from the end of its opening to its end, or to the rise of CS before it.
LEMMA WordTaken ==
  ASSUME NEW u, NEW n \in Nat, NEW kind, NEW d, NEW c, Run(u, n, kind, d, c),
         NEW P \in Nat, NEW bits \in Seq({0, 1}), NEW more \in {1, 2}, Worded(c, P, bits, more),
         P + 3 * Len(bits) + 3 <= n, n <= P + 3 * Len(bits) + 2 + more,
         NEW base \in Seq({0, 1}), NEW x, NEW y, Wired(u[P], 0, x, y, base, <<>>)
  PROVE  \E w, z : Wired(u[n], 1, w, z, <<>>, Accepted(kind, base, bits))
<1> DEFINE R == P + 3 * Len(bits) + 2
<1>1. R \in Nat /\ R + 1 = P + 3 * Len(bits) + 3 /\ R + 2 = P + 3 * Len(bits) + 4
      /\ P + 3 * Len(bits) + 2 + more = R + more
  OBVIOUS
<1>2. PICK s, z : Gathered(kind, base, bits, Len(bits), s) /\ Wired(u[R], 0, 0, z, s, <<>>)
  <2>1. Carries(c, P, bits) /\ P + 3 * Len(bits) + 2 <= n
    BY DEF Worded
  <2> QED BY <2>1, BitsClocked
<1>s. \A k \in 1..n : u[k] = Transfers!See(kind, u[k - 1], c[k])
  BY RunSteps
<1>3. c[R + 1] = <<"CS", 1>> /\ (more = 2 => c[R + 2] = <<"SCLK", 1>>)
  BY <1>1 DEF Worded
<1>4. R + 1 <= n /\ n <= R + more
  BY <1>1
<1>w. Wired(u[R], 0, 0, z, s, <<>>)
  BY <1>2
<1> HIDE DEF R
<1>5. u[R + 1] = Transfers!See(kind, u[R], <<"CS", 1>>)
  <2>1. R + 1 \in 1..n /\ (R + 1) - 1 = R
    BY <1>1, <1>4
  <2> QED BY <1>s, <1>3, <2>1
<1>6. Wired(u[R + 1], 1, 0, z, <<>>, IF Len(s) = Transfers!Length(kind) THEN s ELSE <<>>)
  BY <1>5, <1>w, Deselected
<1>7. Wired(u[R + 1], 1, 0, z, <<>>, Accepted(kind, base, bits))
  BY <1>2, <1>6, TakenIs
<1>8. CASE n = R + 1
  BY <1>7, <1>8
<1>9. CASE n # R + 1
  <2>1. n = R + 2 /\ more = 2
    BY <1>1, <1>4, <1>9
  <2>2. u[R + 2] = Transfers!See(kind, u[R + 1], <<"SCLK", 1>>)
    <3>1. R + 2 \in 1..n /\ (R + 2) - 1 = R + 1
      BY <1>1, <2>1
    <3> QED BY <1>s, <1>3, <2>1, <3>1
  <2>3. Wired(u[R + 2], 1, 1, z, <<>>, Accepted(kind, base, bits))
    BY <1>7, <2>2, ClockIgnored
  <2> QED BY <2>1, <2>3
<1> QED BY <1>8, <1>9

\* An opening, clocked bits and an end make such a word.
LEMMA WordedIs ==
  ASSUME NEW pre \in Seq(Told3), \A i \in 1..Len(pre) : pre[i] # <<"CS", 1>>,
         NEW bits \in Seq({0, 1}), NEW post \in Seq(Told3),
         Len(post) \in {1, 2}, post[1] = <<"CS", 1>>,
         Len(post) = 2 => post[2] = <<"SCLK", 1>>
  PROVE  LET c == (pre \o Transfers!Clocked(bits)) \o post
         IN  /\ Worded(c, Len(pre), bits, Len(post))
             /\ \A i \in 1..Len(pre) : c[i] = pre[i]
<1> DEFINE k == Transfers!Clocked(bits)
           a == pre \o k
           c == a \o post
           P == Len(pre)
           L == Len(bits)
           M == Len(post)
<1>1. P \in Nat /\ L \in Nat /\ M \in {1, 2}
  OBVIOUS
<1>2. /\ k \in Seq(Told3) /\ Len(k) = 3 * L + 2 /\ Carries(k, 0, bits)
      /\ \A i \in 1..3 * L + 2 : k[i][1] # "CS"
  BY <1>1, ClockedIs
<1> HIDE DEF k
<1>3. Glued(pre, k, a)
  BY <1>2, Glue
<1> HIDE DEF a
<1>4. /\ a \in Seq(Told3) /\ Len(a) = P + 3 * L + 2
      /\ \A i \in 1..P : a[i] = pre[i]
      /\ \A i \in 1..3 * L + 2 : a[P + i] = k[i]
  BY <1>1, <1>2, <1>3 DEF Glued
<1>5. Glued(a, post, c)
  BY <1>4, Glue
<1> HIDE DEF c
<1> DEFINE R == P + 3 * L + 2
<1>6. /\ c \in Seq(Told3) /\ Len(c) = R + M
      /\ \A i \in 1..R : c[i] = a[i]
      /\ \A i \in 1..M : c[R + i] = post[i]
  BY <1>4, <1>5 DEF Glued
<1>7. R \in Nat /\ R = P + (3 * L + 2) /\ R + 1 = P + 3 * L + 3 /\ R + 2 = P + 3 * L + 4
      /\ R + M = P + 3 * L + 2 + M
  BY <1>1
<1>8. (\A i \in 1..P : c[i] = pre[i]) /\ (\A i \in 1..3 * L + 2 : c[P + i] = k[i])
  <2>1. \A i \in 1..P : i \in 1..R
    BY <1>1, <1>7
  <2>2. \A i \in 1..3 * L + 2 : P + i \in 1..R
    BY <1>1, <1>7
  <2> HIDE DEF R
  <2> QED BY <1>4, <1>6, <2>1, <2>2
<1>9. Carries(c, P, bits)
  <2>1. c[P + 1] = <<"SCLK", 0>>
    <3>1. 1 \in 1..3 * L + 2 /\ k[0 + 1] = <<"SCLK", 0>> /\ 0 + 1 = 1
      BY <1>1, <1>2 DEF Carries
    <3> QED BY <1>8, <3>1
  <2>2. c[P + 3 * L + 2] = <<"SCLK", 0>>
    <3> DEFINE i == 3 * L + 2
    <3>1. i \in 1..3 * L + 2 /\ k[0 + 3 * L + 2] = <<"SCLK", 0>> /\ 0 + 3 * L + 2 = i
          /\ P + 3 * L + 2 = P + i
      BY <1>1, <1>2 DEF Carries
    <3> HIDE DEF i
    <3> QED BY <1>8, <3>1
  <2>3. ASSUME NEW j \in 0..L - 1
        PROVE  /\ c[P + 3 * j + 2] = <<"SDI", bits[j + 1]>>
               /\ c[P + 3 * j + 3] = <<"SCLK", 0>>
               /\ c[P + 3 * j + 4] = <<"SCLK", 1>>
    <3> DEFINE i == 3 * j + 2
    <3>1. /\ i \in 1..3 * L + 2 /\ i + 1 \in 1..3 * L + 2 /\ i + 2 \in 1..3 * L + 2
          /\ 0 + 3 * j + 2 = i /\ 0 + 3 * j + 3 = i + 1 /\ 0 + 3 * j + 4 = i + 2
          /\ P + 3 * j + 2 = P + i /\ P + 3 * j + 3 = P + (i + 1)
          /\ P + 3 * j + 4 = P + (i + 2)
      BY <1>1
    <3>2. /\ k[0 + 3 * j + 2] = <<"SDI", bits[j + 1]>>
          /\ k[0 + 3 * j + 3] = <<"SCLK", 0>>
          /\ k[0 + 3 * j + 4] = <<"SCLK", 1>>
      BY <1>2 DEF Carries
    <3>3. k[i] = <<"SDI", bits[j + 1]>> /\ k[i + 1] = <<"SCLK", 0>> /\ k[i + 2] = <<"SCLK", 1>>
      BY <3>1, <3>2
    <3> HIDE DEF i
    <3> QED BY <1>8, <3>1, <3>3
  <2> QED BY <2>1, <2>2, <2>3 DEF Carries
<1>10. \A i \in 1..R : c[i] # <<"CS", 1>>
  <2> SUFFICES ASSUME NEW i \in 1..R PROVE c[i] # <<"CS", 1>>
    OBVIOUS
  <2>1. CASE i <= P
    <3>1. i \in 1..P
      BY <1>1, <1>7, <2>1
    <3>2. pre[i] # <<"CS", 1>>
      BY <3>1
    <3> HIDE DEF R, P
    <3>3. c[i] = pre[i]
      BY <1>8, <3>1
    <3> QED BY <3>2, <3>3
  <2>2. CASE i > P
    <3> DEFINE j == i - P
    <3>1. j \in 1..3 * L + 2 /\ P + j = i
      BY <1>1, <1>7, <2>2
    <3> HIDE DEF j, R
    <3>2. c[i] = k[j] /\ k[j][1] # "CS"
      BY <1>2, <1>8, <3>1
    <3>3. <<"CS", 1>>[1] = "CS"
      OBVIOUS
    <3> QED BY <3>2, <3>3
  <2>3. i <= P \/ i > P
    BY <1>1, <1>7
  <2> QED BY <2>1, <2>2, <2>3
<1>11. c[R + 1] = <<"CS", 1>> /\ (M = 2 => c[R + 2] = <<"SCLK", 1>>)
  <2>1. 1 \in 1..M /\ (M = 2 => 2 \in 1..M)
    BY <1>1
  <2> HIDE DEF R
  <2> QED BY <1>6, <2>1
<1>12. Worded(c, P, bits, M)
  <2>1. c[P + 3 * L + 3] = <<"CS", 1>> /\ (M = 2 => c[P + 3 * L + 4] = <<"SCLK", 1>>)
    BY <1>7, <1>11
  <2> QED BY <1>6, <1>7, <1>9, <1>10, <2>1 DEF Worded
<1> QED BY <1>8, <1>12 DEF a, c, k

\* Functions over 1..n are sequences, and lengths add up.
LEMMA SeqOf ==
  ASSUME NEW S, NEW n \in Nat, NEW f \in [1..n -> S]
  PROVE  f \in Seq(S) /\ Len(f) = n
OBVIOUS

LEMMA LenBoth ==
  ASSUME NEW S, NEW a \in Seq(S), NEW b \in Seq(S)
  PROVE  a \o b \in Seq(S) /\ Len(a \o b) = Len(a) + Len(b)
OBVIOUS

\* The bits of a byte.
LEMMA BitsTyped ==
  ASSUME NEW byte \in Nat
  PROVE  Transfers!Bits(byte) \in Seq({0, 1}) /\ Len(Transfers!Bits(byte)) = 8
<1>1. \A k \in 1..8 : Transfers!Weights[k] \in Nat \ {0}
  BY DEF Transfers!Weights
<1>2. \A k \in 1..8 : (byte \div Transfers!Weights[k]) % 2 \in {0, 1}
  <2> SUFFICES ASSUME NEW k \in 1..8 PROVE (byte \div Transfers!Weights[k]) % 2 \in {0, 1}
    OBVIOUS
  <2> DEFINE q == byte \div Transfers!Weights[k]
  <2>1. q \in Int
    BY <1>1
  <2> HIDE DEF q
  <2>2. q % 2 \in {0, 1}
    BY <2>1
  <2> QED BY <2>2 DEF q
<1>3. Transfers!Bits(byte) \in [1..8 -> {0, 1}]
  BY <1>2 DEF Transfers!Bits
<1> DEFINE b == Transfers!Bits(byte)
<1>4. b \in [1..8 -> {0, 1}]
  BY <1>3
<1> HIDE DEF b
<1>5. b \in Seq({0, 1}) /\ Len(b) = 8
  BY <1>4, SeqOf
<1> QED BY <1>5 DEF b

\* What a word of the kind opens with, its bits, and what the device has seen
\* before them.
Data(kind, word) ==
  IF kind \in {"cmd8", "dat8", "cmd9", "dat9"} THEN Transfers!Bits(word % 256)
  ELSE Transfers!Bits(word % 256) \o Transfers!Bits(0)

Before(kind, s) ==
  IF kind = "cmd9" THEN More(kind, s, 0)
  ELSE IF kind = "dat9" THEN More(kind, s, 1) ELSE s

\* The bits of a word, and what the device has seen before the first of them.
LEMMA DataTyped ==
  ASSUME NEW kind, NEW word \in Nat
  PROVE  /\ Data(kind, word) \in Seq({0, 1})
         /\ Len(Data(kind, word)) = IF kind \in {"cmd8", "dat8", "cmd9", "dat9"} THEN 8 ELSE 16
<1>1. word % 256 \in Nat /\ 0 \in Nat
  OBVIOUS
<1> DEFINE a == Transfers!Bits(word % 256)
           z == Transfers!Bits(0)
<1>2. a \in Seq({0, 1}) /\ Len(a) = 8 /\ z \in Seq({0, 1}) /\ Len(z) = 8
  BY <1>1, BitsTyped
<1> HIDE DEF a, z
<1>3. a \o z \in Seq({0, 1})
  BY <1>2
<1>4. Len(a \o z) = 16
  <2>1. Len(a \o z) = Len(a) + Len(z)
    BY <1>2, LenBoth
  <2>2. 8 + 8 = 16
    OBVIOUS
  <2> QED BY <1>2, <2>1, <2>2
<1>5. CASE kind \in {"cmd8", "dat8", "cmd9", "dat9"}
  <2>1. Data(kind, word) = a
    BY <1>5 DEF Data, a
  <2> QED BY <1>2, <1>5, <2>1
<1>6. CASE kind \notin {"cmd8", "dat8", "cmd9", "dat9"}
  <2>1. Data(kind, word) = a \o z
    BY <1>6 DEF Data, a, z
  <2> QED BY <1>3, <1>4, <1>6, <2>1
<1> QED BY <1>5, <1>6

LEMMA BeforeTyped ==
  ASSUME NEW kind, NEW s \in Seq({0, 1})
  PROVE  Before(kind, s) \in Seq({0, 1})
BY DEF Before, More

\* A word that is sent, after the changes that open it.
Opens(kind, word, c) ==
  \E P \in 2..4, more \in {1, 2} :
    /\ Worded(c, P, Data(kind, word), more)
    /\ \A u, d, n, x, y, z, s :
         (n \in Nat /\ Run(u, n, kind, d, c) /\ P <= n /\ s \in Seq({0, 1})
          /\ Wired(d, x, y, z, s, <<>>))
         => \E v, w : Wired(u[P], 0, v, w, Before(kind, s), <<>>)

Told8 == << <<"SCLK", 0>>, <<"SDI", 0>>, <<"CS", 0>> >>
Told9(b) == << <<"SCLK", 0>>, <<"SDI", b>>, <<"CS", 0>>, <<"SCLK", 1>> >>
Told16 == << <<"SCLK", 0>>, <<"CS", 0>> >>
Ends == << <<"CS", 1>> >>
Ends16 == << <<"CS", 1>>, <<"SCLK", 1>> >>

\* The openings and the ends, none of which raises CS before its time.
LEMMA ToldTyped ==
  /\ Told8 \in Seq(Told3) /\ Len(Told8) = 3 /\ \A i \in 1..3 : Told8[i] # <<"CS", 1>>
  /\ \A b \in {0, 1} : Told9(b) \in Seq(Told3) /\ Len(Told9(b)) = 4
                       /\ \A i \in 1..4 : Told9(b)[i] # <<"CS", 1>>
  /\ Told16 \in Seq(Told3) /\ Len(Told16) = 2 /\ \A i \in 1..2 : Told16[i] # <<"CS", 1>>
  /\ Ends \in Seq(Told3) /\ Len(Ends) = 1 /\ Ends[1] = <<"CS", 1>>
  /\ Ends16 \in Seq(Told3) /\ Len(Ends16) = 2 /\ Ends16[1] = <<"CS", 1>> /\ Ends16[2] = <<"SCLK", 1>>
<1>1. Told8 \in Seq(Told3) /\ Len(Told8) = 3 /\ \A i \in 1..3 : Told8[i] # <<"CS", 1>>
  BY TellTyped DEF Told8
<1>2. ASSUME NEW b \in {0, 1}
      PROVE  Told9(b) \in Seq(Told3) /\ Len(Told9(b)) = 4
             /\ \A i \in 1..4 : Told9(b)[i] # <<"CS", 1>>
  BY TellTyped DEF Told9
<1>3. Told16 \in Seq(Told3) /\ Len(Told16) = 2 /\ \A i \in 1..2 : Told16[i] # <<"CS", 1>>
  BY TellTyped DEF Told16
<1>4. /\ Ends \in Seq(Told3) /\ Len(Ends) = 1 /\ Ends[1] = <<"CS", 1>>
      /\ Ends16 \in Seq(Told3) /\ Len(Ends16) = 2 /\ Ends16[1] = <<"CS", 1>> /\ Ends16[2] = <<"SCLK", 1>>
  BY TellTyped DEF Ends, Ends16
<1> QED BY <1>1, <1>2, <1>3, <1>4

\* _WriteCmd_8bit and _WriteDat_8bit.
LEMMA Opens8 ==
  ASSUME NEW kind \in {"cmd8", "dat8"}, NEW word \in Nat
  PROVE  Opens(kind, word, Transfers!Transfer(kind, word))
<1> DEFINE bits == Transfers!Bits(word % 256)
           c == Transfers!Transfer(kind, word)
<1>1. c = (Told8 \o Transfers!Clocked(bits)) \o Ends
  BY DEF Transfers!Transfer, Transfers!Write8bit, Transfers!SDI_write_8bit, Told8, Ends
<1>2. bits \in Seq({0, 1}) /\ Data(kind, word) = bits /\ Before(kind, 0) = 0
  <2>1. word % 256 \in Nat
    OBVIOUS
  <2>2. Data(kind, word) = bits
    BY DEF Data
  <2> QED BY <2>1, <2>2, BitsTyped DEF Before
<1> HIDE DEF bits, c
<1>3. Worded(c, 3, bits, 1) /\ \A i \in 1..3 : c[i] = Told8[i]
  <2>1. /\ Worded(c, Len(Told8), bits, Len(Ends))
        /\ \A i \in 1..Len(Told8) : c[i] = Told8[i]
    <3>1. \A i \in 1..Len(Told8) : Told8[i] # <<"CS", 1>>
      BY ToldTyped
    <3>2. Len(Ends) \in {1, 2} /\ ~(Len(Ends) = 2)
      BY ToldTyped
    <3> QED BY <1>1, <1>2, <3>1, <3>2, ToldTyped, WordedIs
  <2> QED BY <2>1, ToldTyped
<1>4. c[1] = <<"SCLK", 0>> /\ c[2] = <<"SDI", 0>> /\ c[3] = <<"CS", 0>>
  <2>1. 1 \in 1..3 /\ 2 \in 1..3 /\ 3 \in 1..3
    OBVIOUS
  <2>2. Told8[1] = <<"SCLK", 0>> /\ Told8[2] = <<"SDI", 0>> /\ Told8[3] = <<"CS", 0>>
    BY DEF Told8
  <2> QED BY <1>3, <2>1, <2>2
<1>5. ASSUME NEW u, NEW d, NEW n, NEW x, NEW y, NEW z, NEW s,
             n \in Nat, Run(u, n, kind, d, c), 3 <= n, s \in Seq({0, 1}), Wired(d, x, y, z, s, <<>>)
      PROVE  \E v, w : Wired(u[3], 0, v, w, Before(kind, s), <<>>)
  <2>1. u[0] = d /\ \A k \in 1..n : u[k] = Transfers!See(kind, u[k - 1], c[k])
    BY <1>5, RunSteps
  <2>2. 1 \in 1..n /\ 2 \in 1..n /\ 3 \in 1..n /\ 1 - 1 = 0 /\ 2 - 1 = 1 /\ 3 - 1 = 2
    BY <1>5
  <2>3. /\ u[1] = Transfers!See(kind, u[0], <<"SCLK", 0>>)
        /\ u[2] = Transfers!See(kind, u[1], <<"SDI", 0>>)
        /\ u[3] = Transfers!See(kind, u[2], <<"CS", 0>>)
    BY <1>4, <2>1, <2>2
  <2>4. Wired(u[1], x, 0, z, s, <<>>)
    BY <1>5, <2>1, <2>3, ClockFalls
  <2>5. Wired(u[2], x, 0, 0, s, <<>>)
    BY <2>3, <2>4, DataSet
  <2>6. Wired(u[3], 0, 0, 0, s, <<>>)
    BY <2>3, <2>5, Selected
  <2>7. Before(kind, s) = s
    BY DEF Before
  <2> QED BY <2>6, <2>7
<1>6. Opens(kind, word, c)
  <2>1. 3 \in 2..4 /\ 1 \in {1, 2}
    OBVIOUS
  <2>2. Worded(c, 3, Data(kind, word), 1)
    BY <1>2, <1>3
  <2> QED BY <1>5, <2>1, <2>2 DEF Opens
<1> QED BY <1>6 DEF c

\* _WriteCmd_9bit and _WriteDat_9bit, whose first bit is clocked while CS is down.
LEMMA Opens9 ==
  ASSUME NEW kind \in {"cmd9", "dat9"}, NEW word \in Nat
  PROVE  Opens(kind, word, Transfers!Transfer(kind, word))
<1> DEFINE bits == Transfers!Bits(word % 256)
           c == Transfers!Transfer(kind, word)
           first == IF kind = "cmd9" THEN 0 ELSE 1
           pre == Told9(first)
<1>0. first \in {0, 1}
  OBVIOUS
<1>1. c = (pre \o Transfers!Clocked(bits)) \o Ends
  <2>1. CASE kind = "cmd9"
    BY <2>1 DEF Transfers!Transfer, Transfers!Write9bit, Transfers!SDI_write_8bit, Told9, Ends
  <2>2. CASE kind = "dat9"
    BY <2>2 DEF Transfers!Transfer, Transfers!Write9bit, Transfers!SDI_write_8bit, Told9, Ends
  <2> QED BY <2>1, <2>2
<1>2. bits \in Seq({0, 1}) /\ Data(kind, word) = bits
  <2>1. word % 256 \in Nat
    OBVIOUS
  <2>2. Data(kind, word) = bits
    BY DEF Data
  <2> QED BY <2>1, <2>2, BitsTyped
<1>b. \A s : Before(kind, s) = More(kind, s, first)
  BY DEF Before
<1> HIDE DEF bits, c, first
<1>t. /\ pre \in Seq(Told3) /\ Len(pre) = 4
      /\ \A i \in 1..4 : pre[i] # <<"CS", 1>>
  BY <1>0, ToldTyped
<1>4. pre[1] = <<"SCLK", 0>> /\ pre[2] = <<"SDI", first>> /\ pre[3] = <<"CS", 0>>
      /\ pre[4] = <<"SCLK", 1>>
  BY DEF Told9
<1> HIDE DEF pre
<1>3. Worded(c, 4, bits, 1) /\ \A i \in 1..4 : c[i] = pre[i]
  <2>1. /\ Worded(c, Len(pre), bits, Len(Ends))
        /\ \A i \in 1..Len(pre) : c[i] = pre[i]
    <3>1. \A i \in 1..Len(pre) : pre[i] # <<"CS", 1>>
      BY <1>t
    <3>2. Len(Ends) \in {1, 2} /\ ~(Len(Ends) = 2)
      BY ToldTyped
    <3> QED BY <1>1, <1>2, <1>t, <3>1, <3>2, ToldTyped, WordedIs
  <2> QED BY <1>t, <2>1, ToldTyped
<1>5. ASSUME NEW u, NEW d, NEW n, NEW x, NEW y, NEW z, NEW s,
             n \in Nat, Run(u, n, kind, d, c), 4 <= n, s \in Seq({0, 1}), Wired(d, x, y, z, s, <<>>)
      PROVE  \E v, w : Wired(u[4], 0, v, w, Before(kind, s), <<>>)
  <2>1. u[0] = d /\ \A k \in 1..n : u[k] = Transfers!See(kind, u[k - 1], c[k])
    BY <1>5, RunSteps
  <2>2. 1 \in 1..n /\ 2 \in 1..n /\ 3 \in 1..n /\ 4 \in 1..n
        /\ 1 - 1 = 0 /\ 2 - 1 = 1 /\ 3 - 1 = 2 /\ 4 - 1 = 3
        /\ 1 \in 1..4 /\ 2 \in 1..4 /\ 3 \in 1..4 /\ 4 \in 1..4
    BY <1>5
  <2>3. /\ u[1] = Transfers!See(kind, u[0], <<"SCLK", 0>>)
        /\ u[2] = Transfers!See(kind, u[1], <<"SDI", first>>)
        /\ u[3] = Transfers!See(kind, u[2], <<"CS", 0>>)
        /\ u[4] = Transfers!See(kind, u[3], <<"SCLK", 1>>)
    BY <1>3, <1>4, <2>1, <2>2
  <2>4. Wired(u[1], x, 0, z, s, <<>>)
    BY <1>5, <2>1, <2>3, ClockFalls
  <2>5. Wired(u[2], x, 0, first, s, <<>>)
    BY <1>0, <2>3, <2>4, DataSet
  <2>6. Wired(u[3], 0, 0, first, s, <<>>)
    BY <2>3, <2>5, Selected
  <2>7. Wired(u[4], 0, 1, first, More(kind, s, first), <<>>)
    BY <2>3, <2>6, ClockRises
  <2> QED BY <1>b, <2>7
<1>6. Opens(kind, word, c)
  <2>1. 4 \in 2..4 /\ 1 \in {1, 2}
    OBVIOUS
  <2>2. Worded(c, 4, Data(kind, word), 1)
    BY <1>2, <1>3
  <2> QED BY <1>5, <2>1, <2>2 DEF Opens
<1> QED BY <1>6 DEF c

\* _WriteValue_16bit, which clocks once more after CS has risen.
LEMMA Opens16 ==
  ASSUME NEW word \in Nat
  PROVE  Opens("value16", word, Transfers!Transfer("value16", word))
<1> DEFINE kind == "value16"
           bits == Data(kind, word)
           c == Transfers!Transfer(kind, word)
<1>1. c = (Told16 \o Transfers!Clocked(bits)) \o Ends16
  BY DEF Transfers!Transfer, Transfers!WriteValue16bit, Transfers!SDI_write_16bit, Told16, Ends16,
         Data
<1>2. bits \in Seq({0, 1}) /\ \A s : Before(kind, s) = s
  BY DataTyped DEF Before
<1> HIDE DEF bits, c
<1>3. Worded(c, 2, bits, 2) /\ \A i \in 1..2 : c[i] = Told16[i]
  <2>1. /\ Worded(c, Len(Told16), bits, Len(Ends16))
        /\ \A i \in 1..Len(Told16) : c[i] = Told16[i]
    <3>1. \A i \in 1..Len(Told16) : Told16[i] # <<"CS", 1>>
      BY ToldTyped
    <3>2. Len(Ends16) \in {1, 2} /\ (Len(Ends16) = 2 => Ends16[2] = <<"SCLK", 1>>)
      BY ToldTyped
    <3> QED BY <1>1, <1>2, <3>1, <3>2, ToldTyped, WordedIs
  <2> QED BY <2>1, ToldTyped
<1>4. Told16[1] = <<"SCLK", 0>> /\ Told16[2] = <<"CS", 0>>
  BY DEF Told16
<1>5. ASSUME NEW u, NEW d, NEW n, NEW x, NEW y, NEW z, NEW s,
             n \in Nat, Run(u, n, kind, d, c), 2 <= n, s \in Seq({0, 1}), Wired(d, x, y, z, s, <<>>)
      PROVE  \E v, w : Wired(u[2], 0, v, w, Before(kind, s), <<>>)
  <2>1. u[0] = d /\ \A k \in 1..n : u[k] = Transfers!See(kind, u[k - 1], c[k])
    BY <1>5, RunSteps
  <2>2. 1 \in 1..n /\ 2 \in 1..n /\ 1 - 1 = 0 /\ 2 - 1 = 1 /\ 1 \in 1..2 /\ 2 \in 1..2
    BY <1>5
  <2>3. /\ u[1] = Transfers!See(kind, u[0], <<"SCLK", 0>>)
        /\ u[2] = Transfers!See(kind, u[1], <<"CS", 0>>)
    BY <1>3, <1>4, <2>1, <2>2
  <2>4. Wired(u[1], x, 0, z, s, <<>>)
    BY <1>5, <2>1, <2>3, ClockFalls
  <2>5. Wired(u[2], 0, 0, z, s, <<>>)
    BY <2>3, <2>4, Selected
  <2> QED BY <1>2, <2>5
<1>6. Opens(kind, word, c)
  <2>1. 2 \in 2..4 /\ 2 \in {1, 2}
    OBVIOUS
  <2>2. Worded(c, 2, Data(kind, word), 2)
    BY <1>3 DEF bits
  <2> HIDE DEF kind
  <2> QED BY <1>5, <2>1, <2>2 DEF Opens
<1> QED BY <1>6 DEF c

\* Every mode.
LEMMA AllOpen ==
  ASSUME NEW kind \in Transfers!Modes, NEW word \in Nat
  PROVE  Opens(kind, word, Transfers!Transfer(kind, word))
BY Opens8, Opens9, Opens16 DEF Transfers!Modes

\* The bits that are clocked, which in all modes but the one of 16 bits are those meant.
SaidBits(kind, word) ==
  IF kind \in {"cmd8", "dat8"} THEN Transfers!Bits(word % 256)
  ELSE IF kind = "cmd9" THEN <<0>> \o Transfers!Bits(word % 256)
  ELSE IF kind = "dat9" THEN <<1>> \o Transfers!Bits(word % 256)
  ELSE Transfers!Bits(word % 256) \o Transfers!Bits(0)

\* A device that had seen s takes g where h is clocked.
TakenFor(g, s, h) == g \in Seq({0, 1}) /\ (g # <<>> => g = h) /\ (s = <<>> => g = h)

\* What the device accepts of a word that went to its end is the word: it had seen nothing
\* before, or the bits are too many.
LEMMA TakenIsMeant ==
  ASSUME NEW kind \in Transfers!Modes, NEW word \in Nat, NEW s \in Seq({0, 1})
  PROVE  TakenFor(Accepted(kind, Before(kind, s), Data(kind, word)), s, SaidBits(kind, word))
<1> DEFINE g == Accepted(kind, Before(kind, s), Data(kind, word))
           h == SaidBits(kind, word)
<1> DEFINE data == Data(kind, word)
           b == Before(kind, s)
           L == Transfers!Length(kind)
<1>1. /\ data \in Seq({0, 1}) /\ b \in Seq({0, 1}) /\ Len(data) \in Nat /\ Len(b) \in Nat
      /\ Len(s) \in Nat /\ L \in {8, 9, 16}
      /\ Len(data) = IF kind \in {"cmd8", "dat8", "cmd9", "dat9"} THEN 8 ELSE 16
  BY DataTyped, BeforeTyped, LengthTyped
<1>m. h = SaidBits(kind, word)
  OBVIOUS
<1>2. g = IF Len(b) + Len(data) = L THEN b \o data ELSE <<>>
  BY DEF Accepted
<1> HIDE DEF g, h
<1> SUFFICES TakenFor(g, s, h)
  BY DEF g, h
<1>3. <<>> \o data = data
  BY <1>1
<1>4. s = <<>> <=> Len(s) = 0
  OBVIOUS
<1>5. g \in Seq({0, 1})
  <2>1. b \o data \in Seq({0, 1}) /\ <<>> \in Seq({0, 1})
    BY <1>1, LenBoth
  <2> QED BY <1>2, <2>1
<1>6. CASE kind \in {"cmd8", "dat8"}
  <2>1. b = s /\ L = 8 /\ Len(data) = 8 /\ h = data
    BY <1>1, <1>6, <1>m DEF Before, Transfers!Length, Data, SaidBits
  <2> HIDE DEF b, data, L
  <2>2. CASE s = <<>>
    <3>1. Len(b) + Len(data) = L
      BY <1>4, <2>1, <2>2
    <3> QED BY <1>2, <1>3, <1>5, <2>1, <2>2, <3>1 DEF TakenFor
  <2>3. CASE s # <<>>
    <3> DEFINE n == Len(s)
    <3>n. n \in Nat /\ n # 0 /\ Len(b) = n
      BY <1>1, <1>4, <2>1, <2>3
    <3> HIDE DEF n
    <3>1. Len(b) + Len(data) # L
      BY <2>1, <3>n
    <3> QED BY <1>2, <1>5, <2>3, <3>1 DEF TakenFor
  <2> QED BY <2>2, <2>3
<1>7. CASE kind \in {"cmd9", "dat9"}
  <2> DEFINE first == IF kind = "cmd9" THEN 0 ELSE 1
  <2>1. b = More(kind, s, first) /\ L = 9 /\ Len(data) = 8 /\ first \in {0, 1}
    BY <1>1, <1>7 DEF Before, Transfers!Length
  <2>d. h = <<first>> \o data
    <3>1. CASE kind = "cmd9"
      BY <1>m, <3>1 DEF Data, SaidBits
    <3>2. CASE kind = "dat9"
      BY <1>m, <3>2 DEF Data, SaidBits
    <3> QED BY <1>7, <3>1, <3>2
  <2>2. CASE s = <<>>
    <3>1. b = <<first>> /\ Len(b) = 1
      <4>1. ~(Len(s) > Transfers!Length(kind))
        BY <1>1, <1>4, <2>2
      <4>2. b = Append(<<>>, first)
        BY <2>1, <2>2, <4>1 DEF More
      <4> HIDE DEF b
      <4> QED BY <4>2
    <3> HIDE DEF b, data, L, first
    <3>2. Len(b) + Len(data) = L
      BY <2>1, <3>1
    <3> QED BY <1>2, <1>5, <2>d, <2>2, <3>1, <3>2 DEF TakenFor
  <2>3. CASE s # <<>>
    <3>1. Len(b) > 1
      <4>1. CASE Len(s) > L
        <5>1. b = s
          BY <2>1, <4>1 DEF More
        <5> HIDE DEF b, L
        <5> QED BY <1>1, <2>1, <4>1, <5>1
      <4>2. CASE ~(Len(s) > L)
        <5>1. b = Append(s, first)
          BY <2>1, <4>2 DEF More
        <5>2. Len(Append(s, first)) = Len(s) + 1
          BY <2>1
        <5> HIDE DEF b, L
        <5> QED BY <1>1, <1>4, <2>3, <5>1, <5>2
      <4> QED BY <4>1, <4>2
    <3> HIDE DEF b, data, L, first
    <3>2. Len(b) + Len(data) # L
      BY <1>1, <2>1, <3>1
    <3> QED BY <1>2, <1>5, <2>3, <3>2 DEF TakenFor
  <2> QED BY <2>2, <2>3
<1>8. CASE kind = "value16"
  <2>1. b = s /\ L = 16 /\ Len(data) = 16 /\ h = data
    BY <1>1, <1>8, <1>m DEF Before, Transfers!Length, Data, SaidBits
  <2> HIDE DEF b, data, L
  <2>2. CASE s = <<>>
    <3>1. Len(b) + Len(data) = L
      BY <1>4, <2>1, <2>2
    <3> QED BY <1>2, <1>3, <1>5, <2>1, <2>2, <3>1 DEF TakenFor
  <2>3. CASE s # <<>>
    <3> DEFINE n == Len(s)
    <3>n. n \in Nat /\ n # 0 /\ Len(b) = n
      BY <1>1, <1>4, <2>1, <2>3
    <3> HIDE DEF n
    <3>1. Len(b) + Len(data) # L
      BY <2>1, <3>n
    <3> QED BY <1>2, <1>5, <2>3, <3>1 DEF TakenFor
  <2> QED BY <2>2, <2>3
<1> QED BY <1>6, <1>7, <1>8 DEF Transfers!Modes

TransfersTyped ==
  /\ levels \in [Pins -> {0, 1}] /\ seen \in Seq({0, 1}) /\ got \in Seq({0, 1})
  /\ levels["CS"] = 1 => seen = <<>>

TransfersInv == TransfersTyped /\ Transfers!TakesWhatIsSent

\* After a word, or the beginning of one.
WordSent(kind, word, all) ==
  /\ TransfersTyped'
  /\ got' # <<>> => got' = SaidBits(kind, word)
  /\ all /\ levels["CS"] = 1 => got' = SaidBits(kind, word)

\* What a word that is sent, or the first n changes of one, do to the device.
LEMMA WordDoes ==
  ASSUME TransfersTyped, NEW kind \in Transfers!Modes, NEW word \in Nat, NEW n \in Nat,
         n <= Len(Transfers!Transfer(kind, word)),
         Transfers!Clock(kind, Transfers!Transfer(kind, word), n)
  PROVE  WordSent(kind, word, n = Len(Transfers!Transfer(kind, word)))
<1> DEFINE h == SaidBits(kind, word)
           c == Transfers!Transfer(kind, word)
           m == Beginning(kind)
           s0 == IF kind = sent.mode THEN seen ELSE <<>>
           data == Data(kind, word)
<1>1. s0 \in Seq({0, 1}) /\ (levels["CS"] = 1 => s0 = <<>>)
  BY DEF TransfersTyped
<1>2. m \in Devices3 /\ m.levels = levels /\ m.seen = s0 /\ m.got = <<>>
  BY <1>1 DEF Beginning, Devices3, TransfersTyped
<1> HIDE DEF m
<1>3. PICK u : /\ Run(u, n, kind, m, c)
               /\ levels' = u[n].levels /\ seen' = u[n].seen /\ got' = u[n].got
  BY ClockRuns DEF m
<1>4. PICK P \in 2..4, more \in {1, 2} :
        /\ Worded(c, P, data, more)
        /\ \A v, d, k, x, y, z, s :
             (k \in Nat /\ Run(v, k, kind, d, c) /\ P <= k /\ s \in Seq({0, 1})
              /\ Wired(d, x, y, z, s, <<>>))
             => \E w1, w2 : Wired(v[P], 0, w1, w2, Before(kind, s), <<>>)
  BY AllOpen DEF Opens
<1> HIDE DEF c, s0, h
<1>d. data \in Seq({0, 1}) /\ Len(data) \in Nat /\ Before(kind, s0) \in Seq({0, 1})
  <2>1. data \in Seq({0, 1})
    BY DataTyped
  <2>2. Before(kind, s0) \in Seq({0, 1})
    BY <1>1, BeforeTyped
  <2> HIDE DEF data
  <2> QED BY <2>1, <2>2
<1> HIDE DEF data
<1>5. /\ c \in Seq(Told3) /\ Len(c) = P + 3 * Len(data) + 2 + more
      /\ \A i \in 1..P + 3 * Len(data) + 2 : c[i] # <<"CS", 1>>
  BY <1>4 DEF Worded
<1>6. Wired(m, levels["CS"], levels["SCLK"], levels["SDI"], s0, <<>>)
  BY <1>2 DEF Wired
<1>n. n <= Len(c)
  BY DEF c
<1>7. CASE n < P + 3 * Len(data) + 3
  <2>1. Quiet(m)
    BY <1>1, <1>2 DEF Quiet
  <2>2. \A k \in 1..n : c[k] \in Told3 /\ c[k] # <<"CS", 1>>
    <3> SUFFICES ASSUME NEW k \in 1..n PROVE c[k] \in Told3 /\ c[k] # <<"CS", 1>>
      OBVIOUS
    <3>1. k \in 1..P + 3 * Len(data) + 2 /\ k \in 1..Len(c)
      BY <1>5, <1>7, <1>d, <1>n
    <3>2. c[k] # <<"CS", 1>>
      BY <1>5, <3>1
    <3>3. c[k] \in Told3
      BY <1>5, <3>1
    <3> QED BY <3>2, <3>3
  <2>3. Quiet(u[n])
    BY <1>3, <2>1, <2>2, QuietRun
  <2>4. TransfersTyped' /\ got' = <<>>
    BY <1>3, <2>3 DEF Quiet, TransfersTyped, Devices3
  <2>5. n # Len(c)
    BY <1>5, <1>7, <1>d
  <2> QED BY <2>4, <2>5 DEF c, WordSent
<1>8. CASE n >= P + 3 * Len(data) + 3
  <2>1. P \in Nat /\ P <= n /\ n <= P + 3 * Len(data) + 2 + more
    BY <1>5, <1>8, <1>d, <1>n
  <2>2. PICK x, y : Wired(u[P], 0, x, y, Before(kind, s0), <<>>)
    BY <1>1, <1>3, <1>4, <1>6, <2>1
  <2>3. PICK x1, y1 : Wired(u[n], 1, x1, y1, <<>>, Accepted(kind, Before(kind, s0), data))
    BY <1>3, <1>4, <1>8, <1>d, <2>1, <2>2, WordTaken
  <2>4. /\ u[n] \in Devices3 /\ seen' = <<>> /\ levels' = u[n].levels
        /\ got' = Accepted(kind, Before(kind, s0), data)
    BY <1>3, <2>3 DEF Wired
  <2>t. TakenFor(Accepted(kind, Before(kind, s0), data), s0, h)
    BY <1>1, TakenIsMeant DEF data, h
  <2>5. /\ got' # <<>> => got' = h
        /\ s0 = <<>> => got' = h
        /\ got' \in Seq({0, 1})
    BY <2>4, <2>t DEF TakenFor
  <2>6. TransfersTyped'
    BY <2>4, <2>5 DEF TransfersTyped, Devices3
  <2> QED BY <1>1, <2>5, <2>6 DEF h, WordSent
<1>9. n < P + 3 * Len(data) + 3 \/ n >= P + 3 * Len(data) + 3
  BY <1>d
<1> QED BY <1>7, <1>8, <1>9

\* In every serial mode of 8 or 9 bits the device takes a byte that is sent as it was
\* meant, and no other: from one call to the next no bit is left in a device that is not selected.
LEMMA WordsAreTaken == Transfers!Spec => []Transfers!TakesWhatIsSent
<1>1. Transfers!Init => TransfersInv
  <2> SUFFICES ASSUME Transfers!Init PROVE TransfersInv
    OBVIOUS
  <2>1. levels \in [Pins -> {0, 1}] /\ seen = <<>> /\ got = <<>> /\ ~sent.whole
    BY DEF Transfers!Init, Pins
  <2>2. TransfersTyped
    BY <2>1 DEF TransfersTyped
  <2> QED BY <2>1, <2>2 DEF TransfersInv, Transfers!TakesWhatIsSent
<1>2. TransfersInv /\ [Transfers!Next]_(Transfers!vars) => TransfersInv'
  <2> SUFFICES ASSUME TransfersInv, [Transfers!Next]_(Transfers!vars) PROVE TransfersInv'
    OBVIOUS
  <2>0. TransfersTyped /\ Transfers!TakesWhatIsSent
    BY DEF TransfersInv
  <2>m. ASSUME NEW kind \in Transfers!Modes, NEW word, NEW w,
               sent' = [mode |-> kind, word |-> word, whole |-> w]
        PROVE  /\ sent'.mode = kind /\ sent'.whole = w
               /\ kind # "value16" => Transfers!Meant' = SaidBits(kind, word)
    <3>1. sent'.mode = kind /\ sent'.word = word /\ sent'.whole = w
      BY <2>m
    <3>2. kind # "value16" => Transfers!Meant' = SaidBits(kind, word)
      <4>1. CASE kind \in {"cmd8", "dat8"}
        BY <3>1, <4>1 DEF Transfers!Meant, SaidBits
      <4>2. CASE kind = "cmd9"
        BY <3>1, <4>2 DEF Transfers!Meant, SaidBits
      <4>3. CASE kind = "dat9"
        BY <3>1, <4>3 DEF Transfers!Meant, SaidBits
      <4> QED BY <4>1, <4>2, <4>3 DEF Transfers!Modes
    <3> QED BY <3>1, <3>2
  <2>l. ASSUME NEW kind \in Transfers!Modes, NEW word \in Nat
        PROVE  Len(Transfers!Transfer(kind, word)) \in Nat
    <3>1. Transfers!Transfer(kind, word) \in Seq(Told3)
      BY AllOpen DEF Opens, Worded
    <3> QED BY <3>1
  <2>1. ASSUME NEW kind \in Transfers!Modes, NEW word \in SpiWords, Transfers!Send(kind, word)
        PROVE  TransfersInv'
    <3> DEFINE N == Len(Transfers!Transfer(kind, word))
               h == SaidBits(kind, word)
    <3>1. word \in Nat /\ N \in Nat
      BY <2>l, SpiWordsGiven
    <3>2. Transfers!Clock(kind, Transfers!Transfer(kind, word), N)
          /\ sent' = [mode |-> kind, word |-> word, whole |-> levels.CS = 1]
      BY <2>1 DEF Transfers!Send
    <3>3. /\ TransfersTyped' /\ (got' # <<>> => got' = h)
          /\ (levels["CS"] = 1 => got' = h)
      <4>1. N <= N
        BY <3>1
      <4>2. WordSent(kind, word, N = N)
        BY <2>0, <3>1, <3>2, <4>1, WordDoes
      <4> QED BY <4>2 DEF WordSent
    <3>4. /\ sent'.mode = kind /\ sent'.whole = (levels["CS"] = 1)
          /\ kind # "value16" => Transfers!Meant' = h
      BY <2>m, <3>2
    <3> HIDE DEF h, N
    <3> QED BY <3>3, <3>4 DEF TransfersInv, Transfers!TakesWhatIsSent
  <2>2. ASSUME NEW kind \in Transfers!Modes, NEW word \in SpiWords, Transfers!BreakOff(kind, word)
        PROVE  TransfersInv'
    <3> DEFINE N == Len(Transfers!Transfer(kind, word))
               h == SaidBits(kind, word)
    <3>1. word \in Nat /\ N \in Nat
      BY <2>l, SpiWordsGiven
    <3>2. PICK n \in 1..N - 1 : Transfers!Clock(kind, Transfers!Transfer(kind, word), n)
      BY <2>2 DEF Transfers!BreakOff
    <3>3. sent' = [mode |-> kind, word |-> word, whole |-> FALSE]
      BY <2>2 DEF Transfers!BreakOff
    <3>4. TransfersTyped' /\ (got' # <<>> => got' = h)
      <4>1. n \in Nat /\ n <= N
        BY <3>1
      <4>2. WordSent(kind, word, n = N)
        BY <2>0, <3>1, <3>2, <4>1, WordDoes
      <4> QED BY <4>2 DEF WordSent
    <3>5. /\ sent'.mode = kind /\ sent'.whole = FALSE
          /\ kind # "value16" => Transfers!Meant' = h
      BY <2>m, <3>3
    <3> HIDE DEF h, N
    <3> QED BY <3>4, <3>5 DEF TransfersInv, Transfers!TakesWhatIsSent
  <2>3. CASE UNCHANGED Transfers!vars
    BY <2>0, <2>3 DEF Transfers!vars, TransfersInv, TransfersTyped, Transfers!TakesWhatIsSent,
                      Transfers!Meant
  <2> QED BY <2>1, <2>2, <2>3 DEF Transfers!Next
<1>3. TransfersInv => Transfers!TakesWhatIsSent
  BY DEF TransfersInv
<1> QED BY <1>1, <1>2, <1>3, PTL DEF Transfers!Spec

(* What is for a display comes to it: each pixel shows the colour of the last   *)
(* drawing that covers it, for a screen of any size, rows of any length and any *)
(* colours, and no byte before the screen or past the end of a row is touched;  *)
(* and in each serial mode of 8 or 9 bits the device takes the byte of a word   *)
(* that is sent whole, any word, and of one that a process broke off at any pin *)
(* change nothing else.                                                         *)
THEOREM DisplayIsRight == Drawing!Spec /\ Transfers!Spec => []DisplayRight
<1>1. Drawing!Spec => []Drawing!ScreenShowsPicture
  <2>1. Holds(mem, picture) => Drawing!ScreenShowsPicture
    BY ScreenIsPicture
  <2> QED BY <2>1, DrawingStarts, DrawingKeeps, PTL DEF Drawing!Spec
<1>2. Drawing!ScreenShowsPicture /\ Transfers!TakesWhatIsSent => DisplayRight
  BY DEF DisplayRight
<1> QED BY <1>1, <1>2, WordsAreTaken, PTL
=============================================================================
