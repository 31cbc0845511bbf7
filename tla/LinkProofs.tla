------------------------------ MODULE LinkProofs ------------------------------
(* What the UART link promises, for every buffer, notification size, set of     *)
(* writes and replies, and idle limit.                                          *)
EXTENDS NusLink, TLAPS

(* Nothing of a line outlives its link: while no client is connected, uart_rx   *)
(* holds nothing that the next one could continue.                              *)
LineInv == ~rx.old /\ (~connected => rx.len = 0)

(* The idle timer, while it is set, has run as long as the link was silent.     *)
TimerInv == idle_timer # Off => connected /\ idle_timer = quiet

NusInv == TypeOK /\ LineInv /\ TimerInv /\ SendArmed

LEMMA OffFact == /\ IdleLimit \in Nat \ {0} /\ Off = IdleLimit + 1 /\ 0 # Off /\ 0 \in 0..Off
  BY NusLinkAssumption DEF Off

LEMMA NusInit == Init => NusInv
<1> SUFFICES ASSUME Init PROVE NusInv
  OBVIOUS
<1>1. /\ rx \in [len : 0..(BufferSize - 1), old : BOOLEAN] /\ rx.len = 0 /\ ~rx.old
  BY NusLinkAssumption DEF Init, NoBytes
<1>2. tx \in [len : ReplySizes \cup {0}, offset : Nat] /\ tx.offset =< tx.len
  BY DEF Init
<1>3. idle_timer \in 0..Off /\ idle_timer = Off /\ quiet \in 0..IdleLimit
  BY OffFact DEF Init
<1> QED
  BY <1>1, <1>2, <1>3 DEF Init, NusInv, TypeOK, LineInv, TimerInv, SendArmed

(* A reply that replaces another, in the middle of a notification or not.       *)
LEMMA ReplyFact ==
  ASSUME NEW n \in ReplySizes, Reply(n)
  PROVE  /\ tx' \in [len : ReplySizes \cup {0}, offset : Nat] /\ tx'.offset =< tx'.len
         /\ notify_pending' = TRUE /\ requested' = TRUE
  BY NusLinkAssumption DEF Reply

LEMMA WriteStep ==
  ASSUME NusInv, NEW size \in WriteSizes, NEW terminated \in BOOLEAN, Write(size, terminated)
  PROVE  NusInv'
<1>1. /\ BufferSize \in Nat \ {0} /\ size \in Nat /\ NoBytes \in [len : 0..(BufferSize - 1), old : BOOLEAN]
      /\ ~NoBytes.old /\ connected /\ connected' = connected
  BY NusLinkAssumption DEF NoBytes, Write
<1>2. /\ tx' \in [len : ReplySizes \cup {0}, offset : Nat] /\ tx'.offset =< tx'.len
      /\ notify_pending' \in BOOLEAN /\ requested' \in BOOLEAN /\ (notify_pending' => requested')
  <2>1. CASE \E n \in ReplySizes : Reply(n)
    BY <2>1, ReplyFact
  <2>2. CASE NoReply
    BY <2>2 DEF NoReply, NusInv, TypeOK, SendArmed
  <2> QED
    BY <2>1, <2>2 DEF Write
<1>3. rx' \in [len : 0..(BufferSize - 1), old : BOOLEAN] /\ ~rx'.old
  <2>1. CASE rx' = NoBytes
    BY <1>1, <2>1
  <2>2. CASE Fits(size) /\ rx' = [rx EXCEPT !.len = @ + size]
    BY <1>1, <2>2 DEF Fits, NusInv, TypeOK, LineInv
  <2> QED
    BY <2>1, <2>2 DEF Write
<1>4. /\ idle_timer' = 0 /\ quiet' = 0
      /\ UNCHANGED <<operational, advertising, closing, partial>>
  BY DEF Write, Restarted, radio
<1> QED
  BY <1>1, <1>2, <1>3, <1>4, OffFact DEF NusInv, TypeOK, LineInv, TimerInv, SendArmed

LEMMA CanSendStep ==
  ASSUME NusInv, CanSendNow
  PROVE  NusInv'
<1>1. connected /\ UNCHANGED <<operational, advertising, connected, rx, closing>>
  BY DEF CanSendNow, radio
<1>2. CASE notify_pending
  <2>1. /\ tx' = [tx EXCEPT !.offset = @ + NextChunk]
        /\ notify_pending' = (tx'.offset < tx.len) /\ requested' = notify_pending'
        /\ idle_timer' = 0 /\ quiet' = 0 /\ partial' = notify_pending'
    BY <1>2 DEF CanSendNow, Sent, Rearmed, Notified, Restarted
  <2>2. /\ tx \in [len : ReplySizes \cup {0}, offset : Nat] /\ tx.offset =< tx.len
    BY DEF NusInv, TypeOK
  <2>6. tx.len \in Nat /\ tx.offset \in Nat /\ Chunk \in Nat
    <3>1. tx.len \in ReplySizes \/ tx.len = 0
      BY <2>2
    <3>2. \A n \in ReplySizes : n \in Nat
      BY NusLinkAssumption
    <3>3. tx.len \in Nat
      BY <3>1, <3>2
    <3>4. Chunk \in Nat
      BY NusLinkAssumption
    <3> QED
      BY <2>2, <3>3, <3>4
  <2>3. NextChunk \in Nat /\ NextChunk =< tx.len - tx.offset
    BY <2>2, <2>6 DEF NextChunk
  <2>4. tx' \in [len : ReplySizes \cup {0}, offset : Nat] /\ tx'.offset =< tx'.len
    BY <2>1, <2>2, <2>3, <2>6
  <2>5. notify_pending' \in BOOLEAN
    BY <2>1
  <2> QED
    BY <1>1, <2>1, <2>4, <2>5, OffFact DEF NusInv, TypeOK, LineInv, TimerInv, SendArmed
<1>3. CASE ~notify_pending
  <2>1. requested' = FALSE /\ UNCHANGED <<tx, notify_pending, idle_timer, quiet, partial>>
    BY <1>3 DEF CanSendNow
  <2> QED
    BY <1>1, <1>3, <2>1 DEF NusInv, TypeOK, LineInv, TimerInv, SendArmed, Off
<1> QED
  BY <1>2, <1>3

LEMMA NusNext == NusInv /\ [Next]_vars => NusInv'
<1> SUFFICES ASSUME NusInv, [Next]_vars PROVE NusInv'
  OBVIOUS
<1> USE DEF NusInv, TypeOK, LineInv, TimerInv, SendArmed, radio
<1>1. CASE Working
  BY <1>1 DEF Working, Off
<1>2. CASE Connect
  <2>1. rx.len = 0 /\ rx' = [rx EXCEPT !.old = rx.len > 0]
    BY <1>2 DEF Connect, Accepted
  <2>2. (rx.len > 0) = FALSE
    BY <2>1
  <2>3. rx' \in [len : 0..(BufferSize - 1), old : BOOLEAN] /\ ~rx'.old
    BY <2>1, <2>2
  <2> QED
    <3>1. /\ connected' = TRUE /\ advertising' = FALSE /\ closing' = FALSE
          /\ idle_timer' = 0 /\ quiet' = 0
          /\ UNCHANGED <<operational, tx, notify_pending, requested, partial>>
      BY <1>2 DEF Connect, Accepted, Restarted
    <3>2. idle_timer' \in 0..Off /\ quiet' \in 0..IdleLimit
      BY <3>1, OffFact
    <3> QED
      BY <2>3, <3>1, <3>2
<1>3. CASE Disconnected
  <2>1. rx' \in [len : 0..(BufferSize - 1), old : BOOLEAN] /\ rx'.len = 0 /\ ~rx'.old
    BY <1>3, NusLinkAssumption DEF Disconnected, Forgotten, NoBytes
  <2>2. idle_timer' = Off /\ idle_timer' \in 0..Off
    BY <1>3, OffFact DEF Disconnected
  <2> QED
    BY <1>3, <2>1, <2>2 DEF Disconnected
<1>4. CASE CanSendNow
  BY <1>4, CanSendStep
<1>5. CASE idle_timeout
  BY <1>5, OffFact DEF idle_timeout
<1>6. CASE Tick
  <2>1. quiet' = quiet + 1 /\ quiet \in 0..IdleLimit /\ quiet < IdleLimit
    BY <1>6 DEF Tick
  <2>2. idle_timer # IdleLimit /\ idle_timer' = IF idle_timer = Off THEN Off ELSE idle_timer + 1
    BY <1>6 DEF Tick
  <2>3. idle_timer' \in 0..Off /\ quiet' \in 0..IdleLimit
    BY <2>1, <2>2, OffFact
  <2>4. idle_timer' # Off => idle_timer' = quiet'
    BY <2>1, <2>2
  <2> QED
    BY <1>6, <2>2, <2>3, <2>4 DEF Tick, Off
<1>7. CASE \E size \in WriteSizes, terminated \in BOOLEAN : Write(size, terminated)
  BY <1>7, WriteStep
<1>8. CASE UNCHANGED vars
  BY <1>8 DEF vars, Off
<1> QED
  BY <1>1, <1>2, <1>3, <1>4, <1>5, <1>6, <1>7, <1>8 DEF Next

LEMMA NusInvariant == Spec => []NusInv
  BY NusInit, NusNext, PTL DEF Spec

(* A command is put together from the writes of one client: what a lost link    *)
(* left of a line in uart_rx is never continued, for every buffer and every     *)
(* way a client cuts its lines.                                                 *)
THEOREM LinesKept == Spec => []LinesOfOneLink
<1>1. NusInv => LinesOfOneLink
  BY DEF NusInv, LineInv, LinesOfOneLink
<1> QED
  BY <1>1, NusInvariant, PTL

(* uart_reply and the can-send-now handler never leave a reply that is not sent *)
(* to its end without a notification asked for, whatever replaced what.         *)
THEOREM RepliesArmed == Spec => []SendArmed
<1>1. NusInv => SendArmed
  BY DEF NusInv
<1> QED
  BY <1>1, NusInvariant, PTL

(* idle_timeout closes only a link that nothing was exchanged on for the whole  *)
(* limit: every exchange restarts the timer, for every limit and reply length.  *)
THEOREM SilenceCloses == Spec => OnlySilentClosed
<1>1. NusInv /\ [Next]_vars => [closing' /\ ~closing => quiet = IdleLimit]_vars
  <2> SUFFICES ASSUME NusInv, Next, closing', ~closing PROVE quiet = IdleLimit
    BY DEF vars, radio
  <2>1. idle_timeout
    BY DEF Next, Working, Connect, Accepted, Disconnected, CanSendNow, Tick, Write
  <2> QED
    BY <2>1, OffFact DEF idle_timeout, NusInv, TimerInv
<1> QED
  BY <1>1, NusInvariant, PTL DEF Spec, OnlySilentClosed
================================================================================
