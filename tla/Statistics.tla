------------------------------- MODULE Statistics -------------------------------
(* src/statistics.c: the activation count, appended record by record to the    *)
(* pages of two flash sectors; a sector is erased when the log enters it.      *)
(* Power may be cut at any point.                                              *)
(*                                                                             *)
(* Programming flash only clears bits: a page that is programmed twice holds   *)
(* the AND of the two records, valid only if they are the same.                *)
EXTENDS Naturals

CONSTANTS PagesPerSector,   \* 16 in the code
          MaxSequence,      \* bound on the records written
          MaxCount,         \* bound on the count
          MaxDamage         \* bound on the pages power cuts may damage

ASSUME StatisticsAssumption ==
  /\ PagesPerSector \in Nat \ {0, 1}
  /\ MaxSequence \in Nat /\ MaxCount \in Nat /\ MaxDamage \in Nat

VARIABLES page,             \* the pages of both sectors
          sequence, count, at, dirty,      \* the statics of statistics.c
          call,             \* where the call in progress is
          write,            \* the record it writes, and the page
          saves,            \* history: records written since the restart
          damage            \* history: pages power cuts have damaged at most

ram == <<sequence, count, at, dirty>>
vars == <<page, ram, call, write, saves, damage>>

Places == 0..(2 * PagesPerSector - 1)

SectorOf(i) == {j \in Places : j \div PagesPerSector = i \div PagesPerSector}

(* torn: part of the bits of a record; garbage: no record can come of it.      *)
PageRecords == [kind : {"blank", "valid", "torn", "garbage"},
                sequence : 0..MaxSequence, count : 0..MaxCount]

Blank == [kind |-> "blank", sequence |-> 0, count |-> 0]
Garbage == [Blank EXCEPT !.kind = "garbage"]

As(r, kind) == [kind |-> kind, sequence |-> r.sequence, count |-> r.count]

Programmed(p, r) == IF p \in {Blank, As(r, "torn"), As(r, "valid")} THEN As(r, "valid") ELSE Garbage

(* What a page that was being programmed may hold after a power cut.           *)
Cut(p, r) == {p, Programmed(p, r), IF p \in {Blank, As(r, "torn")} THEN As(r, "torn") ELSE Garbage}

Valids(f) == {i \in Places : f[i].kind = "valid"}

(* statistics_init: the valid record of the greatest number, the first of them *)
(* in address order; an empty log starts at page 0, which it then skips.       *)
Scan(f) ==
  IF Valids(f) = {} THEN [sequence |-> 0, count |-> 0, at |-> 0]
  ELSE LET i == CHOOSE i \in Valids(f) :
                  \A j \in Valids(f) \ {i} : \/ f[j].sequence < f[i].sequence
                                             \/ f[j].sequence = f[i].sequence /\ i < j
       IN  [sequence |-> f[i].sequence, count |-> f[i].count, at |-> i]

(* The page after a page; after the last of a sector, the first of the other.  *)
Following(i) == (i + 1) % (2 * PagesPerSector)

Init == /\ page = [i \in Places |-> Blank]
        /\ sequence = 0 /\ count = 0 /\ at = 0 /\ dirty = FALSE
        /\ call = "idle" /\ write = [at |-> 0, sequence |-> 0, count |-> 0]
        /\ saves = 0 /\ damage = 0

Increment == /\ call = "idle" /\ count < MaxCount
             /\ count' = count + 1 /\ dirty' = TRUE
             /\ UNCHANGED <<page, sequence, at, call, write, saves, damage>>

Flush == /\ call = "idle"
         /\ count' = 0 /\ dirty' = TRUE
         /\ UNCHANGED <<page, sequence, at, call, write, saves, damage>>

Persist == /\ call = "idle" /\ dirty /\ sequence < MaxSequence
           /\ write' = [at |-> Following(at), sequence |-> sequence + 1, count |-> count]
           /\ call' = IF Following(at) % PagesPerSector = 0 THEN "erase" ELSE "program"
           /\ UNCHANGED <<page, ram, saves, damage>>

(* flash_safe_execute could not stop the other core within a second.           *)
TimedOut == /\ call = "erase" \/ (call = "program" /\ write.at % PagesPerSector # 0)
            /\ call' = "idle"
            /\ UNCHANGED <<page, ram, write, saves, damage>>

Erased(f, S) == [i \in Places |-> IF i \in S THEN Blank ELSE f[i]]

(* Faulty variant: erases the sector the log is leaving.                       *)
Erase_current == /\ call = "erase" /\ call' = "program"
                 /\ page' = Erased(page, SectorOf(at))
                 /\ UNCHANGED <<ram, write, saves, damage>>

Erase == /\ call = "erase" /\ call' = "program"
         /\ page' = Erased(page, SectorOf(write.at))
         /\ UNCHANGED <<ram, write, saves, damage>>

(* Faulty variant: the log stays where it is.                                  *)
Program_stay == /\ call = "program" /\ call' = "idle"
                /\ page' = [page EXCEPT ![write.at] = Programmed(@, write)]
                /\ sequence' = write.sequence /\ dirty' = FALSE
                /\ saves' = saves + 1
                /\ UNCHANGED <<at, count, write, damage>>

(* Faulty variant: the number is not taken.                                    *)
Program_unnumbered == /\ call = "program" /\ call' = "idle"
                      /\ page' = [page EXCEPT ![write.at] = Programmed(@, write)]
                      /\ at' = write.at /\ dirty' = FALSE
                      /\ saves' = saves + 1
                      /\ UNCHANGED <<sequence, count, write, damage>>

Program == /\ call = "program" /\ call' = "idle"
           /\ page' = [page EXCEPT ![write.at] = Programmed(@, write)]
           /\ sequence' = write.sequence /\ at' = write.at /\ dirty' = FALSE
           /\ saves' = saves + 1
           /\ UNCHANGED <<count, write, damage>>

(* statistics_factory_reset: both sectors, then RAM; its caller reboots.       *)
FactoryReset == /\ call = "idle" /\ call' = "wipe_a"
                /\ UNCHANGED <<page, ram, write, saves, damage>>

Wipe(i, from, to) == /\ call = from /\ call' = to
                     /\ page' = Erased(page, SectorOf(i))
                     /\ UNCHANGED <<ram, write, saves, damage>>

(* The restart after a power cut or a reboot.                                  *)
Booted == LET s == Scan(page')
          IN  /\ sequence' = s.sequence /\ count' = s.count /\ at' = s.at /\ dirty' = FALSE
              /\ call' = "idle" /\ saves' = 0 /\ UNCHANGED write

Restart == call \in {"idle", "reboot"} /\ UNCHANGED <<page, damage>> /\ Booted

Harm(n) == damage + n =< MaxDamage /\ damage' = damage + n

CutProgram == /\ call = "program" /\ Harm(1)
              /\ \E p \in Cut(page[write.at], write) : page' = [page EXCEPT ![write.at] = p]
              /\ Booted

Spoilt(f, S) == [i \in Places |-> IF i \in S THEN Garbage ELSE f[i]]

(* A cut erasure harms no page the log will use before it erases it again,     *)
(* except in a factory reset.                                                  *)
CutErase == /\ call \in {"erase", "wipe_a", "wipe_b"}
            /\ Harm(IF call = "erase" THEN 0 ELSE PagesPerSector)
            /\ \E S \in SUBSET SectorOf(CASE call = "erase"  -> write.at
                                           [] call = "wipe_a" -> 0
                                           [] call = "wipe_b" -> PagesPerSector) :
                 page' = Spoilt(page, S)
            /\ Booted

Next == \/ Increment \/ Flush \/ Persist \/ TimedOut \/ Erase \/ Program
        \/ FactoryReset \/ Wipe(0, "wipe_a", "wipe_b") \/ Wipe(PagesPerSector, "wipe_b", "reboot")
        \/ Restart \/ CutProgram \/ CutErase

Spec == Init /\ [][Next]_vars

----------------------------------------------------------------------------
TypeOK == /\ page \in [Places -> PageRecords]
          /\ sequence \in 0..MaxSequence /\ count \in 0..MaxCount /\ at \in Places
          /\ dirty \in BOOLEAN /\ call \in {"idle", "erase", "program", "wipe_a", "wipe_b", "reboot"}
          /\ write \in [at : Places, sequence : 0..MaxSequence, count : 0..MaxCount]
          /\ saves \in Nat /\ damage \in 0..MaxDamage

(* Two records in flash never carry the same number: which of them a restart   *)
(* adopts never depends on their addresses, through damaged pages, sector      *)
(* changes and interrupted factory resets.                                     *)
UniqueNumbers == \A i, j \in Valids(page) : page[i].sequence = page[j].sequence => i = j

(* What statistics_persist reported saved survives a restart once it has saved *)
(* more records since the last restart than power cuts ever damaged pages.     *)
DamageHeals == call = "idle" /\ ~dirty /\ saves > damage => Scan(page).count = count

(* The log is a durable count: what a restart counts on from changes with the  *)
(* last step of a save, to the record that save was asked for, or in a factory *)
(* reset, through sector changes, timeouts and cuts.                           *)
Record(w) == [sequence |-> w.sequence, count |-> w.count]

Durable == INSTANCE DurableCount
             WITH records <- {Record(page[i]) : i \in Valids(page)},
                  writing <- IF call \in {"erase", "program"} THEN {Record(write)} ELSE {},
                  reset   <- CASE call \in {"wipe_a", "wipe_b"} -> "wiping"
                               [] call = "reboot" -> "done"
                               [] OTHER -> "none",
                  unsaved <- dirty

CountSpec == Durable!Spec

(* docs/communications.md:182: FLUSH resets the count and saves it.            *)
FlushSaved == call = "idle" /\ ~dirty => Scan(page).count = count
=================================================================================
