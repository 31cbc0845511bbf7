------------------------------ MODULE ConfigStore ------------------------------
(* src/config_store.c: the configuration in two flash sectors written in turn, *)
(* the newer valid one being the configuration.  Power may be cut at any       *)
(* point; a sector cut while it is erased or programmed reads as empty, its    *)
(* CRC being wrong.                                                            *)
EXTENDS Naturals

CONSTANTS Values,        \* the settings of a record
          Valid,         \* those device_config_validate accepts
          Default,       \* device_config_defaults
          NoValue,       \* not a setting
          MaxSequence    \* bound on the saves: a sector wears out far below 2^32

ASSUME ConfigStoreAssumption ==
  Valid \subseteq Values /\ Default \in Valid /\ NoValue \notin Values /\ MaxSequence \in Nat

VARIABLES flash,         \* the sectors: A is 0, B is 1
          config,        \* the configuration the firmware runs on
          call,          \* where the call in progress is
          record         \* what it writes

vars == <<flash, config, call, record>>

(* No valid record, one of firmware version 5, one of this version.           *)
Records == [kind : {"empty", "v5", "v6"}, sequence : 0..MaxSequence, value : Values]

Empty == [kind |-> "empty", sequence |-> 0, value |-> Default]

Calls == {"idle", "erase", "program", "wipe_a", "wipe_b", "reboot"}

Pick(f, kind) ==
  IF f[1].kind = kind /\ (f[0].kind # kind \/ f[1].sequence > f[0].sequence) THEN 1 ELSE 0

Holds(f, kind) == f[0].kind = kind \/ f[1].kind = kind

(* A record of this version first, else a migrated one as it stands, else the *)
(* defaults.                                                                  *)
Load(f) == CASE Holds(f, "v6")                     -> f[Pick(f, "v6")]
             [] Holds(f, "v5") /\ ~Holds(f, "v6")  -> f[Pick(f, "v5")]
             [] OTHER                              -> Empty

(* The sector of a sequence number.                                           *)
Home(sequence) == sequence % 2

(* Every sector holds sequence numbers of its parity, and a record of this    *)
(* version was validated before it was written.                               *)
Placed(f) == \A s \in {0, 1} : \/ f[s] = Empty
                               \/ f[s].kind = "v5" /\ Home(f[s].sequence) = s
                               \/ f[s].kind = "v6" /\ Home(f[s].sequence) = s /\ f[s].value \in Valid

(* A device in service, with records of either version or none.               *)
Init == /\ flash \in [{0, 1} -> Records] /\ Placed(flash)
        /\ config = Load(flash).value
        /\ call = "idle" /\ record = Empty

(* Faulty variant: the new record takes the number, and so the sector, of the *)
(* one it replaces.                                                           *)
NextSequence_kept(f) == Load(f).sequence

NextSequence(f) == Load(f).sequence + 1

(* config_store_save: invalid settings are refused and nothing happens.       *)
Save(v) == /\ call = "idle" /\ v \in Valid
           /\ NextSequence(flash) =< MaxSequence
           /\ record' = [kind |-> "v6", sequence |-> NextSequence(flash), value |-> v]
           /\ call' = "erase"
           /\ UNCHANGED <<flash, config>>

(* Faulty variant: the caller adopts settings whose save failed.              *)
TimedOut_adopted == /\ call = "erase" /\ call' = "idle" /\ config' = record.value
                    /\ UNCHANGED <<flash, record>>

(* flash_safe_execute could not stop the other core within a second.          *)
TimedOut == call = "erase" /\ call' = "idle" /\ UNCHANGED <<flash, config, record>>

Erase == /\ call = "erase" /\ call' = "program"
         /\ flash' = [flash EXCEPT ![Home(record.sequence)] = Empty]
         /\ UNCHANGED <<config, record>>

(* The caller adopts what was saved.                                          *)
Program == /\ call = "program" /\ call' = "idle"
           /\ flash' = [flash EXCEPT ![Home(record.sequence)] = record]
           /\ config' = record.value
           /\ UNCHANGED record

(* config_store_factory_reset, after which the caller reboots.                *)
FactoryReset == call = "idle" /\ call' = "wipe_a" /\ UNCHANGED <<flash, config, record>>

Wipe(s, from, to) == /\ call = from /\ call' = to
                     /\ flash' = [flash EXCEPT ![s] = Empty]
                     /\ UNCHANGED <<config, record>>

(* A restart, wanted or not.                                                  *)
Restart == /\ call' = "idle" /\ config' = Load(flash).value
           /\ UNCHANGED <<flash, record>>

Next == \/ \E v \in Values : Save(v)
        \/ TimedOut \/ Erase \/ Program
        \/ FactoryReset \/ Wipe(0, "wipe_a", "wipe_b") \/ Wipe(1, "wipe_b", "reboot")
        \/ Restart

Spec == Init /\ [][Next]_vars

----------------------------------------------------------------------------
(* Every record lies in the sector of its number and was validated.           *)
TypeOK == /\ flash \in [{0, 1} -> Records] /\ Placed(flash) /\ record \in Records
          /\ config \in Values /\ call \in Calls

(* Out of a call, the configuration the firmware runs on is the one a restart *)
(* would load: a save that fails is not adopted, one that succeeds is the     *)
(* newer of the two sectors.                                                  *)
RunsOnSaved == call = "idle" => config = Load(flash).value

(* The configuration is a durable cell: whatever the records in the flash,    *)
(* cutting a save at any point leaves the old value or the new one.           *)
Current(f) == Pick(f, IF Holds(f, "v6") THEN "v6" ELSE "v5")

Cell == INSTANCE DurableCell
          WITH value   <- Load(flash).value,
               older   <- Load([flash EXCEPT ![Current(flash)] = Empty]).value,
               pending <- IF call \in {"erase", "program"} THEN record.value ELSE NoValue,
               None    <- NoValue

CellSpec == Cell!Spec
================================================================================
