---------------------------- MODULE SettingsProofs ----------------------------
(* The configuration store is a durable cell, for every set of settings and   *)
(* every number of saves; the way of a setting to it changes nothing else.    *)
EXTENDS Settings, TLAPS

(* A write in progress carries the next number, changes nothing that is       *)
(* loaded, and its sector is empty once it has been erased.                   *)
WriteOK ==
  /\ call \in {"erase", "program"} =>
       /\ record.kind = "v6" /\ record.value \in Valid /\ record.sequence = NextSequence(flash)
       /\ config = Load(flash).value
  /\ call = "program" => flash[Home(record.sequence)] = Empty

StoreInv == TypeOK /\ WriteOK /\ RunsOnSaved

----------------------------------------------------------------------------
(* Sequence numbers have one of two homes, and the next number has the other. *)
LEMMA HomeFact ==
  ASSUME NEW n \in Nat
  PROVE  Home(n) \in {0, 1} /\ Home(n + 1) = 1 - Home(n)
  BY DEF Home

(* What is loaded is in a sector, in the home of its number, or is empty.     *)
LEMMA LoadFact ==
  ASSUME NEW f \in [{0, 1} -> Records], Placed(f)
  PROVE  /\ Load(f) \in Records
         /\ \/ Load(f) = Empty /\ f[0] = Empty /\ f[1] = Empty
            \/ Load(f) = f[Home(Load(f).sequence)] /\ Load(f) # Empty
         /\ Load(f).sequence \in Nat
<1>1. Empty \in Records
  BY ConfigStoreAssumption DEF Empty, Records
<1>2. f[0] \in Records /\ f[1] \in Records
  OBVIOUS
<1>3. Pick(f, "v5") \in {0, 1} /\ Pick(f, "v6") \in {0, 1}
  BY DEF Pick
<1>4. CASE Holds(f, "v6")
  <2>1. Load(f) = f[Pick(f, "v6")] /\ f[Pick(f, "v6")].kind = "v6"
    BY <1>4 DEF Load, Pick, Holds
  <2>2. f[Pick(f, "v6")] # Empty
    BY <2>1 DEF Empty
  <2>3. Home(f[Pick(f, "v6")].sequence) = Pick(f, "v6")
    BY <1>3, <2>1, <2>2 DEF Placed
  <2> QED BY <1>2, <1>3, <2>1, <2>2, <2>3 DEF Records
<1>5. CASE Holds(f, "v5") /\ ~Holds(f, "v6")
  <2>1. Load(f) = f[Pick(f, "v5")] /\ f[Pick(f, "v5")].kind = "v5"
    BY <1>5 DEF Load, Pick, Holds
  <2>2. f[Pick(f, "v5")] # Empty
    BY <2>1 DEF Empty
  <2>3. Home(f[Pick(f, "v5")].sequence) = Pick(f, "v5")
    BY <1>3, <2>1, <2>2 DEF Placed
  <2> QED BY <1>2, <1>3, <2>1, <2>2, <2>3 DEF Records
<1>6. CASE ~Holds(f, "v5") /\ ~Holds(f, "v6")
  <2>1. Load(f) = Empty
    BY <1>6 DEF Load
  <2>2. f[0] = Empty /\ f[1] = Empty
    BY <1>6 DEF Placed, Holds
  <2> QED BY <1>1, <2>1, <2>2 DEF Empty
<1> QED BY <1>4, <1>5, <1>6
(* A sector emptied or written in its place leaves the others where they are. *)
LEMMA PlacedFact ==
  ASSUME NEW f \in [{0, 1} -> Records], Placed(f), NEW s \in {0, 1}
  PROVE  /\ [f EXCEPT ![s] = Empty] \in [{0, 1} -> Records]
         /\ Placed([f EXCEPT ![s] = Empty])
  BY ConfigStoreAssumption DEF Placed, Empty, Records

(* Emptying the sector the loaded record does not live in changes nothing     *)
(* that is loaded, and leaves nothing older.                                  *)
Older(f) == Load([f EXCEPT ![Current(f)] = Empty])

LEMMA EraseFact ==
  ASSUME NEW f \in [{0, 1} -> Records], Placed(f),
         NEW g, g = [f EXCEPT ![Home(Load(f).sequence + 1)] = Empty]
  PROVE  Load(g) = Load(f) /\ Older(g) = Empty
<1> DEFINE s == Home(Load(f).sequence + 1)
<1>1. s \in {0, 1} /\ Home(Load(f).sequence) = 1 - s
  BY LoadFact, HomeFact
<1>g. g = [f EXCEPT ![s] = Empty]
  OBVIOUS
<1> HIDE DEF s
<1>2. CASE Load(f) = Empty /\ f[0] = Empty /\ f[1] = Empty
  <2>1. g = f
    BY <1>1, <1>g, <1>2
  <2>2. [f EXCEPT ![Current(f)] = Empty] = f
    BY <1>2 DEF Current, Pick
  <2> QED BY <1>2, <2>1, <2>2 DEF Older
<1>3. CASE Load(f) = f[1 - s] /\ Load(f) # Empty
  <2>1. g[s] = Empty /\ g[1 - s] = f[1 - s]
    BY <1>1, <1>g
  <2>2. f[1 - s].kind \in {"v5", "v6"}
    BY <1>1, <1>3 DEF Placed
  <2>3. Load(g) = f[1 - s] /\ Current(g) = 1 - s
    <3>1. CASE s = 0
      <4>1. g[0].kind = "empty" /\ g[1] = f[1] /\ g[1].kind \in {"v5", "v6"} /\ 1 - s = 1
        BY <2>1, <2>2, <3>1 DEF Empty
      <4> QED BY <4>1 DEF Load, Current, Holds, Pick
    <3>2. CASE s = 1
      <4>1. g[1].kind = "empty" /\ g[0] = f[0] /\ g[0].kind \in {"v5", "v6"} /\ 1 - s = 0
        BY <2>1, <2>2, <3>2 DEF Empty
      <4> QED BY <4>1 DEF Load, Current, Holds, Pick
    <3> QED BY <1>1, <3>1, <3>2
  <2>4. [g EXCEPT ![1 - s] = Empty][0] = Empty /\ [g EXCEPT ![1 - s] = Empty][1] = Empty
    BY <1>1, <1>g, <2>1
  <2>5. Load([g EXCEPT ![1 - s] = Empty]) = Empty
    BY <2>4 DEF Load, Holds, Empty
  <2>6. Older(g) = Empty
    BY <2>3, <2>5 DEF Older
  <2> QED BY <1>3, <2>3, <2>6
<1> QED BY <1>1, <1>2, <1>3, LoadFact

(* An erased sector leaves the loaded record, the older one or nothing.       *)
LEMMA WipeFact ==
  ASSUME NEW f \in [{0, 1} -> Records], Placed(f), NEW s \in {0, 1},
         NEW g, g = [f EXCEPT ![s] = Empty]
  PROVE  Load(g) \in {Load(f), Older(f), Empty} /\ Older(g) \in {Older(f), Empty}
<1>1. Current(f) \in {0, 1}
  BY DEF Current, Pick
<1>2. g[s] = Empty /\ g[1 - s] = f[1 - s]
  OBVIOUS
<1>3. CASE s = Current(f)
  <2>1. Load(g) = Older(f)
    BY <1>3 DEF Older
  <2>2. Older(g) \in {Load(g), Empty}
    BY <1>2 DEF Older, Load, Current, Holds, Pick, Placed, Empty
  <2> QED BY <2>1, <2>2
<1>4. CASE s # Current(f)
  <2>1. Load(g) \in {Load(f), Empty}
    BY <1>1, <1>2, <1>4 DEF Load, Current, Holds, Pick, Empty
  <2>2. Older(g) = Empty
    BY <1>2 DEF Older, Load, Current, Holds, Pick, Empty
  <2> QED BY <2>1, <2>2
<1> QED BY <1>3, <1>4
(* Programming the erased sector makes the record the one loaded, and the one *)
(* loaded before it the older.                                                *)
LEMMA ProgramStep ==
  ASSUME StoreInv, Program
  PROVE  /\ flash' \in [{0, 1} -> Records] /\ Placed(flash')
         /\ Load(flash') = record /\ Older(flash') = Load(flash)
<1> DEFINE f == flash
           g == flash'
           r == record
           s == Home(r.sequence)
<1>t. f \in [{0, 1} -> Records] /\ Placed(f) /\ r \in Records
  BY DEF StoreInv, TypeOK
<1>r. r.kind = "v6" /\ r.value \in Valid /\ r.sequence = Load(f).sequence + 1
  BY DEF StoreInv, Program, WriteOK, NextSequence
<1>1. s \in {0, 1} /\ Home(Load(f).sequence) = 1 - s
  BY <1>t, <1>r, LoadFact, HomeFact
<1>g. f[s] = Empty /\ g = [f EXCEPT ![s] = r] /\ Home(r.sequence) = s
  BY DEF StoreInv, Program, WriteOK
<1> HIDE DEF f, g, r, s
<1>2. f[s] = Empty /\ g[s] = r /\ g[1 - s] = f[1 - s]
  BY <1>1, <1>g, <1>t
<1>3. g \in [{0, 1} -> Records] /\ Placed(g)
  BY <1>1, <1>g, <1>2, <1>r, <1>t DEF Placed
<1>4. Load(f) = f[1 - s]
  BY <1>1, <1>2, <1>t, LoadFact
<1>5. f[1 - s].sequence < r.sequence /\ f[1 - s].sequence \in Nat
  <2> DEFINE n == Load(f).sequence
  <2>1. n \in Nat /\ r.sequence = n + 1
    BY <1>t, <1>r, LoadFact
  <2> HIDE DEF n
  <2>2. n < r.sequence
    BY <2>1
  <2> QED BY <1>4, <2>1, <2>2 DEF n
<1>6. Load(g) = r /\ Current(g) = s
  <2>1. CASE s = 0
    <3>1. g[0] = r /\ g[1].sequence < r.sequence
      BY <1>2, <1>5, <2>1
    <3>2. r.sequence \in Nat /\ g[1].sequence \in Nat
      BY <1>2, <1>5, <1>t, <2>1 DEF Records
    <3>3. Holds(g, "v6") /\ Pick(g, "v6") = 0
      BY <1>r, <3>1, <3>2 DEF Holds, Pick
    <3> QED BY <2>1, <3>1, <3>3 DEF Load, Current
  <2>2. CASE s = 1
    <3>1. g[1] = r /\ g[0].sequence < r.sequence
      BY <1>2, <1>5, <2>2
    <3>2. r.sequence \in Nat /\ g[0].sequence \in Nat
      BY <1>2, <1>5, <1>t, <2>2 DEF Records
    <3>3. Holds(g, "v6") /\ Pick(g, "v6") = 1
      BY <1>r, <3>1, <3>2 DEF Holds, Pick
    <3> QED BY <2>2, <3>1, <3>3 DEF Load, Current
  <2> QED BY <1>1, <2>1, <2>2
<1>7. [g EXCEPT ![s] = Empty] = f
  BY <1>1, <1>g, <1>t, <1>2
<1>8. Older(g) = Load(f)
  BY <1>6, <1>7 DEF Older
<1> QED BY <1>3, <1>6, <1>8 DEF f, g, r

----------------------------------------------------------------------------
THEOREM StoreInvariant == Spec => []StoreInv
<1>1. Init => StoreInv
  <2> SUFFICES ASSUME Init PROVE StoreInv
    OBVIOUS
  <2>1. Load(flash) \in Records
    BY LoadFact DEF Init
  <2>2. Empty \in Records
    BY ConfigStoreAssumption DEF Empty, Records
  <2> QED BY <2>1, <2>2 DEF Init, StoreInv, TypeOK, WriteOK, RunsOnSaved, Records, Calls
<1>2. StoreInv /\ [Next]_vars => StoreInv'
  <2> SUFFICES ASSUME StoreInv, [Next]_vars PROVE StoreInv'
    OBVIOUS
  <2> USE DEF StoreInv
  <2>0. /\ flash \in [{0, 1} -> Records] /\ Placed(flash) /\ record \in Records
        /\ Load(flash) \in Records /\ Load(flash).sequence \in Nat
    BY LoadFact DEF TypeOK
  <2>1. ASSUME NEW v \in Values, Save(v) PROVE StoreInv'
    <3>1. record' \in Records
      BY <2>0, <2>1 DEF Save, Records, NextSequence
    <3> QED BY <2>0, <2>1, <3>1 DEF Save, TypeOK, WriteOK, RunsOnSaved, Calls, NextSequence
  <2>2. CASE TimedOut
    BY <2>0, <2>2 DEF TimedOut, TypeOK, WriteOK, RunsOnSaved, Calls, NextSequence
  <2>3. CASE Erase
    <3>1. call = "erase" /\ record.sequence = Load(flash).sequence + 1
      BY <2>3 DEF Erase, WriteOK, NextSequence
    <3>2. flash' = [flash EXCEPT ![Home(Load(flash).sequence + 1)] = Empty]
      BY <2>3, <3>1 DEF Erase
    <3>3. Home(Load(flash).sequence + 1) \in {0, 1}
      BY <2>0, HomeFact
    <3>4. flash' \in [{0, 1} -> Records] /\ Placed(flash')
      BY <2>0, <3>2, <3>3, PlacedFact
    <3>5. Load(flash') = Load(flash)
      BY <2>0, <3>2, EraseFact
    <3>6. flash'[Home(record.sequence)] = Empty
      BY <2>0, <3>1, <3>2, <3>3
    <3>7. TypeOK'
      BY <2>0, <2>3, <3>4 DEF Erase, TypeOK, Calls
    <3>8. WriteOK'
      BY <2>3, <3>5, <3>6 DEF Erase, WriteOK, NextSequence
    <3> QED BY <2>3, <3>7, <3>8 DEF Erase, RunsOnSaved
  <2>4. CASE Program
    <3>1. record.value \in Valid
      BY <2>4 DEF Program, WriteOK
    <3>2. flash' \in [{0, 1} -> Records] /\ Placed(flash') /\ Load(flash') = record
      BY <2>4, ProgramStep
    <3> QED BY <2>0, <2>4, <3>1, <3>2, ConfigStoreAssumption
            DEF Program, TypeOK, WriteOK, RunsOnSaved, Calls
  <2>5. CASE FactoryReset
    BY <2>0, <2>5 DEF FactoryReset, TypeOK, WriteOK, RunsOnSaved, Calls
  <2>6. CASE Wipe(0, "wipe_a", "wipe_b")
    <3>1. flash' \in [{0, 1} -> Records] /\ Placed(flash')
      BY <2>0, <2>6, PlacedFact DEF Wipe
    <3> QED BY <2>0, <2>6, <3>1 DEF Wipe, TypeOK, WriteOK, RunsOnSaved, Calls
  <2>7. CASE Wipe(1, "wipe_b", "reboot")
    <3>1. flash' \in [{0, 1} -> Records] /\ Placed(flash')
      BY <2>0, <2>7, PlacedFact DEF Wipe
    <3> QED BY <2>0, <2>7, <3>1 DEF Wipe, TypeOK, WriteOK, RunsOnSaved, Calls
  <2>8. CASE Restart
    <3>1. Load(flash).value \in Values
      BY <2>0 DEF Records
    <3> QED BY <2>0, <2>8, <3>1 DEF Restart, TypeOK, WriteOK, RunsOnSaved, Calls
  <2>9. CASE UNCHANGED vars
    BY <2>9 DEF vars, TypeOK, WriteOK, RunsOnSaved, NextSequence
  <2> QED BY <2>1, <2>2, <2>3, <2>4, <2>5, <2>6, <2>7, <2>8, <2>9 DEF Next
<1> QED BY <1>1, <1>2, PTL DEF Spec

(* Out of a call the firmware runs on what a restart would load.              *)
THEOREM RunningIsSaved == Spec => []RunsOnSaved
<1>1. StoreInv => RunsOnSaved
  BY DEF StoreInv
<1> QED BY <1>1, StoreInvariant, PTL

(* Wherever the power is cut and however many saves came before, the          *)
(* configuration a restart loads is the last one saved or the one being       *)
(* saved; only a factory reset can bring an older one back.                   *)
THEOREM CrashSafe == Spec => CellSpec
<1> DEFINE pending == IF call \in {"erase", "program"} THEN record.value ELSE NoValue
           older == Older(flash).value
           value == Load(flash).value
<1>1. Init => Cell!Init
  <2> SUFFICES ASSUME Init PROVE Cell!Init
    OBVIOUS
  <2>1. Load(flash) \in Records
    BY LoadFact DEF Init
  <2>2. Current(flash) \in {0, 1}
    BY DEF Current, Pick
  <2>3. Load([flash EXCEPT ![Current(flash)] = Empty]) \in Records
    BY <2>2, PlacedFact, LoadFact DEF Init
  <2> QED BY <2>1, <2>3 DEF Init, Cell!Init, Records
<1>2. StoreInv /\ [Next]_vars => [Cell!Next]_(Cell!cell)
  <2> SUFFICES ASSUME StoreInv, [Next]_vars PROVE Cell!Next \/ UNCHANGED Cell!cell
    OBVIOUS
  <2> USE DEF StoreInv
  <2>0. /\ flash \in [{0, 1} -> Records] /\ Placed(flash) /\ record \in Records
        /\ Load(flash).sequence \in Nat
    BY LoadFact DEF TypeOK
  <2>v. Valid \subseteq Values /\ NoValue \notin Values /\ record.value \in Values
    BY <2>0, ConfigStoreAssumption DEF Records
  <2>m. /\ Cell!Begin <=> pending = NoValue /\ pending' \in Values /\ value' = value /\ older' = older
        /\ Cell!Forget <=> pending # NoValue /\ older' = Default /\ value' = value /\ pending' = pending
        /\ Cell!Commit <=> pending # NoValue /\ value' = pending /\ older' = value /\ pending' = NoValue
        /\ Cell!Abandon <=> pending' = NoValue /\ value' = value /\ older' = older
        /\ Cell!Wipe <=> /\ pending = NoValue /\ value' \in {value, older, Default}
                         /\ older' \in {older, Default} /\ pending' = pending
        /\ UNCHANGED Cell!cell <=> value' = value /\ older' = older /\ pending' = pending
    BY DEF Cell!Begin, Cell!Forget, Cell!Commit, Cell!Abandon, Cell!Wipe, Cell!cell, Older
  <2> HIDE DEF pending, value, older
  <2>1. ASSUME NEW v \in Values, Save(v) PROVE Cell!Begin
    <3>1. flash' = flash /\ call = "idle" /\ call' = "erase" /\ record'.value = v
      BY <2>1 DEF Save
    <3>2. pending = NoValue /\ pending' = v /\ value' = value /\ older' = older
      BY <3>1 DEF pending, value, older
    <3> QED BY <2>m, <3>2
  <2>2. CASE TimedOut
    <3>1. pending' = NoValue /\ value' = value /\ older' = older
      BY <2>2 DEF TimedOut, pending, value, older
    <3> QED BY <2>m, <3>1 DEF Cell!Next
  <2>3. CASE Erase
    <3>1. record.sequence = Load(flash).sequence + 1 /\ call = "erase"
      BY <2>3 DEF Erase, WriteOK, NextSequence
    <3>2. flash' = [flash EXCEPT ![Home(Load(flash).sequence + 1)] = Empty]
      BY <2>3, <3>1 DEF Erase
    <3>3. Load(flash') = Load(flash) /\ Older(flash') = Empty
      BY <2>0, <3>2, EraseFact
    <3>4. value' = value /\ older' = Default
      BY <3>3 DEF value, older, Empty
    <3>5. pending # NoValue /\ pending' = pending
      BY <2>3, <2>v DEF Erase, pending
    <3> QED BY <2>m, <3>4, <3>5 DEF Cell!Next
  <2>4. CASE Program
    <3>2. Load(flash') = record /\ Older(flash') = Load(flash)
      BY <2>4, ProgramStep
    <3>3. pending = record.value /\ pending # NoValue /\ pending' = NoValue
      BY <2>4, <2>v DEF Program, pending
    <3>4. value' = pending /\ older' = value
      BY <3>2, <3>3 DEF value, older
    <3> QED BY <2>m, <3>3, <3>4 DEF Cell!Next
  <2>5. CASE FactoryReset
    <3>1. pending' = pending /\ value' = value /\ older' = older
      BY <2>5 DEF FactoryReset, pending, value, older
    <3> QED BY <2>m, <3>1
  <2>6. ASSUME NEW s \in {0, 1}, flash' = [flash EXCEPT ![s] = Empty],
               pending = NoValue, pending' = pending
        PROVE  Cell!Wipe
    <3>1. Load(flash') \in {Load(flash), Older(flash), Empty} /\ Older(flash') \in {Older(flash), Empty}
      BY <2>0, <2>6, WipeFact
    <3>2. value' \in {value, older, Default} /\ older' \in {older, Default}
      BY <3>1 DEF value, older, Empty
    <3> QED BY <2>6, <2>m, <3>2
  <2>7. CASE Wipe(0, "wipe_a", "wipe_b")
    <3>1. pending = NoValue /\ pending' = pending /\ flash' = [flash EXCEPT ![0] = Empty]
      BY <2>7 DEF Wipe, pending
    <3> QED BY <2>6, <3>1 DEF Cell!Next
  <2>8. CASE Wipe(1, "wipe_b", "reboot")
    <3>1. pending = NoValue /\ pending' = pending /\ flash' = [flash EXCEPT ![1] = Empty]
      BY <2>8 DEF Wipe, pending
    <3> QED BY <2>6, <3>1 DEF Cell!Next
  <2>9. CASE Restart
    <3>1. pending' = NoValue /\ value' = value /\ older' = older
      BY <2>9 DEF Restart, pending, value, older
    <3> QED BY <2>m, <3>1 DEF Cell!Next
  <2>10. CASE UNCHANGED vars
    <3>1. pending' = pending /\ value' = value /\ older' = older
      BY <2>10 DEF vars, pending, value, older
    <3> QED BY <2>m, <3>1
  <2> QED BY <2>1, <2>2, <2>3, <2>4, <2>5, <2>7, <2>8, <2>9, <2>10 DEF Next, Cell!Next
<1> QED BY <1>1, <1>2, StoreInvariant, PTL DEF Spec, CellSpec, Cell!Spec

----------------------------------------------------------------------------
(* The motor task's use of the store is a use the store allows.               *)
LEMMA StoreSteps == [NextSettings]_<<vars, application>> => [Next]_vars
<1> SUFFICES ASSUME [NextSettings]_<<vars, application>> PROVE [Next]_vars
  OBVIOUS
<1>1. CASE Execute
  <2>1. CASE \E a \in Applied(Head(queue).command) : Save(Next_config(config, a[1], a[2]))
    <3>1. PICK v : Save(v)
      BY <2>1
    <3>2. v \in Values
      BY <3>1, ConfigStoreAssumption DEF Save
    <3> QED BY <3>1, <3>2 DEF Next
  <2>2. CASE UNCHANGED vars
    BY <2>2
  <2> QED BY <1>1, <2>1, <2>2 DEF Execute
<1>2. ASSUME NEW line, NEW from, ReadLine(line, from) PROVE [Next]_vars
  BY <1>2 DEF ReadLine
<1>3. CASE Returned \/ Flash \/ Reboot
  BY <1>3 DEF Returned, Flash, Reboot, Next
<1>4. CASE UNCHANGED <<vars, application>>
  BY <1>4
<1> QED BY <1>1, <1>2, <1>3, <1>4 DEF NextSettings

(* Whatever the lines ask for, the settings live in the store as its own      *)
(* specification says: its promises hold of the whole way of a setting.       *)
THEOREM SettingsUseStore == SettingsSpec => Spec
<1>1. InitSettings => Init
  BY DEF InitSettings
<1> QED BY <1>1, StoreSteps, PTL DEF SettingsSpec, Spec

LEMMA StoreKept == SettingsSpec => []StoreInv
  BY SettingsUseStore, StoreInvariant, PTL

(* A queued command is one its line stands for; the one being saved is the    *)
(* change of the running settings its parameter and value ask for.            *)
Entries ==
  {e \in [command : UNION {Parsed[line] : line \in Lines}, line : Lines, from : {"usb", "ble"}] :
     e.command \in Parsed[e.line]}

Saving(e) ==
  \E a \in Asked(e.command) :
    Applicable(config, a[1], a[2]) /\ record.value = Next_config(config, a[1], a[2])

SavingInv ==
  /\ queue \in Seq(Entries)
  /\ executing # {} => call \in {"erase", "program"}
  /\ \A e \in executing : e \in Entries /\ Saving(e)

LEMMA SavingStep ==
  SavingInv /\ [NextSettings]_<<vars, application>> => SavingInv'
<1> SUFFICES ASSUME SavingInv, [NextSettings]_<<vars, application>> PROVE SavingInv'
  OBVIOUS
<1>1. ASSUME NEW line \in Lines, NEW from \in {"usb", "ble"}, ReadLine(line, from)
      PROVE  SavingInv'
  <2>1. PICK c \in Parsed[line] :
          \/ queue' = <<[command |-> c, line |-> line, from |-> from]>>
          \/ queue' = Append(queue, [command |-> c, line |-> line, from |-> from])
    BY <1>1 DEF ReadLine
  <2>2. PICK entry \in Entries : entry = [command |-> c, line |-> line, from |-> from]
    BY DEF Entries
  <2>a. queue' = <<entry>> \/ queue' = Append(queue, entry)
    BY <2>1, <2>2
  <2>3. queue' \in Seq(Entries)
    <3>1. queue \in Seq(Entries)
      BY DEF SavingInv
    <3>2. <<entry>> \in Seq(Entries)
      OBVIOUS
    <3>3. Append(queue, entry) \in Seq(Entries)
      BY <3>1
    <3> QED BY <2>a, <3>2, <3>3
  <2>4. config' = config /\ record' = record /\ call' = call /\ executing' = executing
    BY <1>1 DEF ReadLine, vars
  <2> QED BY <2>3, <2>4 DEF SavingInv, Saving
<1>2. CASE Execute
  <2>0. call = "idle" /\ queue # <<>> /\ queue' = Tail(queue) /\ executing = {}
    BY <1>2 DEF Execute, SavingInv
  <2>1. queue' \in Seq(Entries) /\ Head(queue) \in Entries
    BY <2>0 DEF SavingInv
  <2>2. CASE /\ executing' = {Head(queue)}
             /\ \E a \in Applied(Head(queue).command) : Save(Next_config(config, a[1], a[2]))
    <3>1. PICK a \in Applied(Head(queue).command) : Save(Next_config(config, a[1], a[2]))
      BY <2>2
    <3>2. /\ a \in Asked(Head(queue).command) /\ Applicable(config, a[1], a[2])
          /\ record'.value = Next_config(config, a[1], a[2])
          /\ call' = "erase" /\ config' = config
      BY <3>1 DEF Applied, Save
    <3>3. PICK e \in Entries : e = Head(queue)
      BY <2>1
    <3>4. /\ a \in Asked(e.command) /\ Applicable(config', a[1], a[2])
          /\ record'.value = Next_config(config', a[1], a[2])
      BY <3>2, <3>3
    <3>5. Saving(e)'
      BY <3>4 DEF Saving
    <3>6. executing' = {e} /\ call' \in {"erase", "program"}
      BY <2>2, <3>2, <3>3
    <3> QED BY <2>1, <3>5, <3>6 DEF SavingInv
  <2>3. CASE UNCHANGED <<vars, executing>>
    BY <2>0, <2>1, <2>3 DEF SavingInv
  <2> QED BY <1>2, <2>2, <2>3 DEF Execute
<1>3. CASE Returned
  BY <1>3 DEF Returned, SavingInv
<1>4. CASE Flash
  <2>1. CASE Erase
    BY <1>4, <2>1 DEF Flash, Erase, application, SavingInv, Saving
  <2>2. CASE ~Erase
    <3>1. call \notin {"erase", "program"}
      BY <1>4, <2>2 DEF Flash, FactoryReset, Wipe
    <3>2. executing = {} /\ executing' = {} /\ queue' = queue
      BY <1>4, <3>1 DEF Flash, application, SavingInv
    <3> QED BY <3>2 DEF SavingInv
  <2> QED BY <2>1, <2>2
<1>5. CASE Reboot
  BY <1>5 DEF Reboot, SavingInv
<1>6. CASE UNCHANGED <<vars, application>>
  BY <1>6 DEF vars, application, SavingInv, Saving
<1> QED BY <1>1, <1>2, <1>3, <1>4, <1>5, <1>6 DEF NextSettings

LEMMA SavingKept == SettingsSpec => []SavingInv
<1>1. InitSettings => SavingInv
  BY DEF InitSettings, SavingInv
<1> QED BY <1>1, SavingStep, PTL DEF SettingsSpec

(* What passes the range of a parameter is stored without loss.               *)
LEMMA NarrowFact ==
  ASSUME NEW p, NEW v \in Int, InRange(p, v), Narrow(p, v) \in Int
  PROVE  Narrow(p, v) * (IF p \in WholeParameters THEN Unit ELSE 1) = v
<1>m. Max16 = 65535 /\ Unit = 10 /\ Max16 * Unit = 655350 /\ -64 * Unit = -640 /\ 63 * Unit = 630
  BY SMT DEF Max16, Unit
<1>1. CASE p \in Words16
  <2>1. Whole(v) /\ v \in 0..(Max16 * Unit)
    BY <1>1, Zenon DEF InRange
  <2>2. 0 =< v /\ v =< 655350 /\ v % 10 = 0
    <3>0. v % Unit = 0
      BY <2>1, Zenon DEF Whole
    <3>1. v % 10 = 0
      BY <3>0, SMT DEF Unit
    <3>2. PICK top \in Int : top = Max16 * Unit /\ top = 655350
      BY <1>m, SMT
    <3>3. 0 =< v /\ v =< top
      BY <2>1, <3>2, SMT
    <3> QED BY <3>1, <3>2, <3>3, SMT
  <2>o. p \notin Words32 /\ p # "stallguard_threshold" /\ p # "stallguard_enabled"
    BY <1>1, SMT DEF Words16, Words32
  <2>3. Narrow(p, v) = (v \div Unit) % (Max16 + 1)
    BY <1>1, <2>o, Zenon DEF Narrow
  <2>4. v \div 10 \in Nat /\ v \div 10 =< 65535 /\ (v \div 10) * 10 = v
    BY <2>2, SMT
  <2>5. Narrow(p, v) = v \div 10
    <3>1. ASSUME NEW k \in Nat, k =< 65535 PROVE k % 65536 = k
      <4>1. ASSUME NEW n \in Nat, k < n PROVE k % n = k
        BY <4>1, SMT
      <4>2. 65536 \in Nat /\ k < 65536
        BY <3>1, SMT
      <4> QED BY <4>1, <4>2, SMT
    <3>2. Narrow(p, v) = (v \div 10) % 65536
      BY <2>3, <1>m, SMT
    <3> QED BY <2>4, <3>1, <3>2, SMT
  <2> QED BY <1>1, <1>m, <2>4, <2>5, SMT DEF WholeParameters
<1>2. CASE p \notin Words16 /\ p \in Words32
  <2>1. Whole(v) /\ v >= 0
    BY <1>2, Zenon DEF InRange
  <2>o. p # "stallguard_threshold" /\ p # "stallguard_enabled"
    BY <1>2, SMT DEF Words32
  <2>2. Narrow(p, v) = v \div Unit
    BY <1>2, <2>o, Zenon DEF Narrow
  <2>3. v % 10 = 0 /\ Narrow(p, v) = v \div 10
    BY <2>1, <2>2, <1>m, SMT DEF Whole
  <2>4. (v \div 10) * 10 = v
    BY <2>3, SMT
  <2> QED BY <1>2, <1>m, <2>3, <2>4, SMT DEF WholeParameters
<1>3. CASE p \notin Words16 /\ p \notin Words32 /\ p = "stallguard_threshold"
  <2>1. Whole(v) /\ v \in (-64 * Unit)..(63 * Unit)
    BY <1>3, Zenon DEF InRange
  <2>2. Narrow(p, v) = ((v \div Unit + 128) % 256) - 128
    BY <1>3, Zenon DEF Narrow
  <2>3. v \in -640..630 /\ v % 10 = 0 /\ Narrow(p, v) = ((v \div 10 + 128) % 256) - 128
    BY <2>1, <2>2, <1>m, SMT DEF Whole
  <2>4. (((v \div 10 + 128) % 256) - 128) * 10 = v
    BY <2>3, SMT
  <2>5. p \in WholeParameters
    BY <1>3, SMT DEF WholeParameters
  <2> QED BY <1>m, <2>3, <2>4, <2>5, SMT
<1>4. CASE p \notin Words16 /\ p \notin Words32 /\ p = "stallguard_enabled"
  <2>1. v \in {0, Unit}
    BY <1>4, Zenon DEF InRange
  <2>2. p # "stallguard_threshold"
    BY <1>4, SMT
  <2>3. Narrow(p, v) = IF v # 0 THEN 1 ELSE 0
    BY <1>4, <2>2, Zenon DEF Narrow
  <2>4. p \in WholeParameters
    BY <1>4, SMT DEF WholeParameters
  <2> QED BY <1>m, <2>1, <2>3, <2>4, SMT
<1>5. CASE p \notin Words16 /\ p \notin Words32 /\ p # "stallguard_threshold" /\ p # "stallguard_enabled"
  <2>1. Narrow(p, v) = v
    BY <1>5, Zenon DEF Narrow
  <2> QED BY <1>5, <2>1, SMT DEF WholeParameters
<1> QED BY <1>1, <1>2, <1>3, <1>4, <1>5, Zenon

(* Lines whose parameter and number the parsers read as their author does.    *)
LinesRead ==
  \A line \in Lines : \A c \in Parsed[line] : \A a \in Asked(c) : a = Meant(line) /\ a[2] \in Int

(* A setting of such a line that takes effect has passed three checks, a      *)
(* queue, a conversion to the width of its field and a save that may be cut:  *)
(* it changes the parameter of its line to the number of its line and nothing *)
(* else.                                                                      *)
THEOREM SettingsExact == ASSUME LinesRead PROVE SettingsSpec => SetExact
<1>1. /\ StoreInv /\ SavingInv /\ [NextSettings]_<<vars, application>>
      => [config' # config => \A e \in executing :
            LET p == Meant(e.line)[1]
                n == Meant(e.line)[2]
            IN  /\ config' = [config EXCEPT ![p] = config'[p]]
                /\ config'[p] * (IF p \in WholeParameters THEN Unit ELSE 1) = n]_<<vars, application>>
  <2> SUFFICES ASSUME StoreInv, SavingInv, NextSettings, config' # config, NEW e \in executing
               PROVE  LET p == Meant(e.line)[1]
                          n == Meant(e.line)[2]
                      IN  /\ config' = [config EXCEPT ![p] = config'[p]]
                          /\ config'[p] * (IF p \in WholeParameters THEN Unit ELSE 1) = n
    OBVIOUS
  <2>1. e \in Entries /\ Saving(e) /\ call \in {"erase", "program"} /\ config = Load(flash).value
    BY DEF SavingInv, StoreInv, WriteOK
  <2>2. Program
    <3>1. ~Reboot
      BY <2>1 DEF Reboot, Restart
    <3>2. CASE \E line \in Lines, from \in {"usb", "ble"} : ReadLine(line, from)
      BY <3>2 DEF ReadLine, vars
    <3>3. ~Execute
      BY <2>1 DEF Execute
    <3>4. ~TimedOut
      BY DEF TimedOut
    <3>5. ~Flash
      BY <2>1 DEF Flash, Erase, FactoryReset, Wipe
    <3> QED BY <3>1, <3>2, <3>3, <3>4, <3>5 DEF NextSettings, Returned
  <2>3. PICK a \in Asked(e.command) :
          Applicable(config, a[1], a[2]) /\ record.value = Next_config(config, a[1], a[2])
    BY <2>1 DEF Saving
  <2>4. e.line \in Lines /\ e.command \in Parsed[e.line]
    BY <2>1 DEF Entries
  <2>5. a = Meant(e.line) /\ a[2] \in Int
    BY <2>3, <2>4 DEF LinesRead
  <2> DEFINE p == a[1]
             v == a[2]
             w == Narrow(p, v)
  <2>6. config' = [config EXCEPT ![p] = w] /\ InRange(p, v)
    BY <2>2, <2>3, Zenon DEF Program, Next_config, Applicable
  <2>7. config \in [DOMAIN Defaults -> Int] /\ config' \in [DOMAIN Defaults -> Int]
    <3>1. config \in Values /\ config' \in Values
      BY <2>2, ConfigStoreAssumption DEF StoreInv, TypeOK, WriteOK, Program, Records
    <3> QED BY <3>1, SettingsAssumption
  <2> HIDE DEF w
  <2>8. p \in DOMAIN config /\ config'[p] = w
    BY <2>6, <2>7
  <2>9. w \in Int
    BY <2>7, <2>8
  <2>10. w * (IF p \in WholeParameters THEN Unit ELSE 1) = v
    BY <2>5, <2>6, <2>9, NarrowFact DEF w
  <2>11. config' = [config EXCEPT ![p] = config'[p]]
    BY <2>6, <2>8
  <2> QED BY <2>5, <2>8, <2>10, <2>11, Zenon
<1> QED BY <1>1, StoreKept, SavingKept, PTL DEF SettingsSpec, SetExact

(* Settings in the flash and on their way there are ones the driver accepts.  *)
BootInv ==
  /\ \A s \in {0, 1} : Bootable(flash[s].value)
  /\ call \in {"erase", "program"} => Bootable(record.value)

LEMMA DefaultsBootable == Bootable(Defaults)
  BY SMT DEF Bootable, motor_config_valid, Defaults, FitsRamp, Accelerations, Resolutions

LEMMA BootStep ==
  ASSUME Default = Defaults
  PROVE  StoreInv /\ BootInv /\ [NextSettings]_<<vars, application>> => BootInv'
<1> SUFFICES ASSUME StoreInv, BootInv, [NextSettings]_<<vars, application>> PROVE BootInv'
  OBVIOUS
<1>0. flash \in [{0, 1} -> Records] /\ Bootable(Empty.value)
  BY DefaultsBootable DEF StoreInv, TypeOK, Empty
<1>1. ASSUME NEW s \in {0, 1}, flash' = [flash EXCEPT ![s] = Empty], record' = record,
             call' \in {"erase", "program"} => call \in {"erase", "program"}
      PROVE  BootInv'
  <2>1. \A t \in {0, 1} : flash'[t] = Empty \/ flash'[t] = flash[t]
    BY <1>0, <1>1
  <2> QED BY <1>0, <1>1, <2>1 DEF BootInv
<1>2. CASE Execute
  <2>1. CASE \E a \in Applied(Head(queue).command) : Save(Next_config(config, a[1], a[2]))
    <3>1. PICK a \in Applied(Head(queue).command) : Save(Next_config(config, a[1], a[2]))
      BY <2>1
    <3>2. PICK v : v = Next_config(config, a[1], a[2]) /\ Save(v)
      BY <3>1
    <3>3. motor_config_valid(v) /\ device_config_validate(v)
      BY <3>2, Zenon DEF Applied, Applicable
    <3>4. Bootable(v)
      BY <3>3, Zenon DEF Bootable, device_config_validate
    <3> QED BY <3>2, <3>4 DEF Save, BootInv
  <2>2. CASE UNCHANGED vars
    BY <2>2 DEF vars, BootInv
  <2> QED BY <1>2, <2>1, <2>2 DEF Execute
<1>3. CASE Returned
  <2>1. CASE TimedOut
    BY <2>1 DEF TimedOut, BootInv
  <2>2. CASE Program
    <3>1. Home(record.sequence) \in {0, 1}
      BY HomeFact DEF StoreInv, TypeOK, Records
    <3>2. \A t \in {0, 1} : flash'[t] = record \/ flash'[t] = flash[t]
      BY <1>0, <2>2, <3>1 DEF Program
    <3> QED BY <2>2, <3>2 DEF Program, BootInv
  <2> QED BY <1>3, <2>1, <2>2 DEF Returned
<1>4. CASE Flash
  <2>1. CASE Erase
    <3>1. Home(record.sequence) \in {0, 1}
      BY HomeFact DEF StoreInv, TypeOK, Records
    <3> QED BY <1>1, <2>1, <3>1 DEF Erase
  <2>2. CASE FactoryReset
    BY <2>2 DEF FactoryReset, BootInv
  <2>3. CASE Wipe(0, "wipe_a", "wipe_b")
    BY <1>1, <2>3 DEF Wipe
  <2>4. CASE Wipe(1, "wipe_b", "reboot")
    BY <1>1, <2>4 DEF Wipe
  <2> QED BY <1>4, <2>1, <2>2, <2>3, <2>4 DEF Flash
<1>5. CASE Reboot
  BY <1>5 DEF Reboot, Restart, BootInv
<1>6. CASE \E line \in Lines, from \in {"usb", "ble"} : ReadLine(line, from)
  BY <1>6 DEF ReadLine, vars, BootInv
<1>7. CASE UNCHANGED <<vars, application>>
  BY <1>7 DEF vars, BootInv
<1> QED BY <1>2, <1>3, <1>4, <1>5, <1>6, <1>7 DEF NextSettings

(* A device whose flash holds settings the driver accepts never gets others:  *)
(* not by any sequence of changes, nor by a save or a reset cut anywhere.     *)
THEOREM RestartsStayReady ==
  ASSUME Default = Defaults
  PROVE  SettingsSpec /\ (\A s \in {0, 1} : Bootable(flash[s].value)) => []RestartsReady
<1>1. InitSettings /\ (\A s \in {0, 1} : Bootable(flash[s].value)) => BootInv
  BY DEF InitSettings, Init, BootInv
<1>2. StoreInv /\ BootInv /\ [NextSettings]_<<vars, application>> => BootInv'
  BY BootStep
<1>3. BootInv => RestartsReady
  <2> SUFFICES ASSUME BootInv PROVE Bootable(Load(flash).value)
    BY DEF RestartsReady
  <2>1. Pick(flash, "v5") \in {0, 1} /\ Pick(flash, "v6") \in {0, 1}
    BY DEF Pick
  <2>2. CASE Holds(flash, "v6")
    <3>1. Load(flash) = flash[Pick(flash, "v6")]
      BY <2>2 DEF Load
    <3> QED BY <2>1, <3>1 DEF BootInv
  <2>3. CASE Holds(flash, "v5") /\ ~Holds(flash, "v6")
    <3>1. Load(flash) = flash[Pick(flash, "v5")]
      BY <2>3 DEF Load
    <3> QED BY <2>1, <3>1 DEF BootInv
  <2>4. CASE ~Holds(flash, "v5") /\ ~Holds(flash, "v6")
    <3>1. Load(flash).value = Defaults
      BY <2>4 DEF Load, Empty
    <3> QED BY <3>1, DefaultsBootable
  <2> QED BY <2>2, <2>3, <2>4
<1> QED BY <1>1, <1>2, <1>3, StoreKept, PTL DEF SettingsSpec
================================================================================
