-------------------------------- MODULE NusLink --------------------------------
(* The Nordic UART link of src/ble_service.c: writes gathered into a line, the  *)
(* reply cut into notifications, the timer that closes a silent link, and the   *)
(* advertising that lets the next client in.  All handlers run in the one       *)
(* BTstack context, each without interruption.                                  *)
EXTENDS Naturals

CONSTANTS BufferSize,       \* bytes of uart_rx
          WriteSizes,       \* sizes of a write
          ReplySizes,       \* lengths of a reply
          Chunk,            \* bytes of a notification, the MTU less three
          IdleLimit         \* NUS_IDLE_TIMEOUT_MS, in ticks

ASSUME NusLinkAssumption ==
  /\ BufferSize \in Nat \ {0} /\ WriteSizes \subseteq Nat
  /\ ReplySizes \subseteq Nat \ {0} /\ ReplySizes # {}
  /\ Chunk \in Nat \ {0} /\ IdleLimit \in Nat \ {0}

VARIABLES operational,      \* the radio works
          advertising,      \* the controller advertises
          connected,        \* connection # HCI_CON_HANDLE_INVALID
          rx,               \* uart_rx: bytes held, and whether some are of an earlier link
          tx,               \* uart_tx: length of the reply, bytes already sent
          notify_pending,
          requested,        \* BTstack owes a CAN_SEND_NOW event
          idle_timer,       \* ticks since it was set, or Off
          closing,          \* gap_disconnect was called
          quiet,            \* ticks since the last exchange, or since the connection
          partial           \* the client holds the beginning of a reply

radio == <<operational, advertising>>

vars == <<radio, connected, rx, tx, notify_pending, requested, idle_timer, closing, quiet, partial>>

Off == IdleLimit + 1

TypeOK ==
  /\ operational \in BOOLEAN /\ advertising \in BOOLEAN
  /\ connected \in BOOLEAN /\ notify_pending \in BOOLEAN /\ requested \in BOOLEAN
  /\ rx \in [len : 0..(BufferSize - 1), old : BOOLEAN]
  /\ tx \in [len : ReplySizes \cup {0}, offset : Nat] /\ tx.offset =< tx.len
  /\ idle_timer \in 0..Off /\ quiet \in 0..IdleLimit
  /\ closing \in BOOLEAN /\ partial \in BOOLEAN

NoBytes == [len |-> 0, old |-> FALSE]

Init ==
  /\ operational = FALSE /\ advertising = FALSE
  /\ connected = FALSE /\ rx = NoBytes /\ tx = [len |-> 0, offset |-> 0]
  /\ notify_pending = FALSE /\ requested = FALSE
  /\ idle_timer = Off /\ closing = FALSE /\ quiet = 0 /\ partial = FALSE

----------------------------------------------------------------------------
(* BTSTACK_EVENT_STATE: the stack works, advertising is enabled.                *)
Working ==
  /\ ~operational
  /\ operational' = TRUE /\ advertising' = TRUE
  /\ UNCHANGED <<connected, rx, tx, notify_pending, requested, idle_timer, closing, quiet, partial>>

(* A client connects: the controller stops advertising, the bytes still in      *)
(* uart_rx are those of an earlier client.                                      *)
Accepted ==
  /\ advertising /\ ~connected
  /\ connected' = TRUE /\ advertising' = FALSE
  /\ rx' = [rx EXCEPT !.old = rx.len > 0]
  /\ quiet' = 0 /\ closing' = FALSE
  /\ UNCHANGED <<operational, tx, notify_pending, requested, partial>>

(* idle_timer_restart().                                                        *)
Restarted == idle_timer' = 0

(* Faulty variant: the connection itself does not start the timer.              *)
Connect_untimed == Accepted /\ UNCHANGED idle_timer

Connect == Accepted /\ Restarted

(* uart_reply, and the query branch of uart_command: the reply takes the place  *)
(* of whatever was being sent.                                                  *)
Reply(n) ==
  /\ tx' = [len |-> n, offset |-> 0]
  /\ notify_pending' = TRUE /\ requested' = TRUE

NoReply == UNCHANGED <<tx, notify_pending, requested>>

Fits(size) == size # 0 /\ rx.len + size < BufferSize

(* A write to the RX characteristic; `terminated` when its last byte ends the   *)
(* line, which is then answered, whatever it asks, and forgotten.               *)
Write(size, terminated) ==
  /\ connected
  /\ Restarted /\ quiet' = 0
  /\ \/ ~Fits(size) /\ rx' = NoBytes /\ \E n \in ReplySizes : Reply(n)
     \/ /\ Fits(size) /\ ~terminated
        /\ rx' = [rx EXCEPT !.len = @ + size] /\ NoReply
     \/ Fits(size) /\ terminated /\ rx' = NoBytes /\ \E n \in ReplySizes : Reply(n)
  /\ UNCHANGED <<radio, connected, closing, partial>>

(* ATT_EVENT_CAN_SEND_NOW, or nothing to send any more.                         *)
Sent(n) == [tx EXCEPT !.offset = @ + n]

NextChunk == IF Chunk > tx.len - tx.offset THEN tx.len - tx.offset ELSE Chunk

(* Faulty variant: the event is asked for once per reply.                       *)
Rearmed_once(more) == requested' = FALSE

Rearmed(more) == requested' = more

(* Faulty variant: a notification does not count as an exchange.                *)
Notified_silent == UNCHANGED idle_timer

Notified == Restarted

CanSendNow ==
  /\ connected /\ requested
  /\ IF notify_pending
     THEN /\ tx' = Sent(NextChunk)
          /\ notify_pending' = (tx'.offset < tx.len)
          /\ Rearmed(notify_pending') /\ Notified
          /\ quiet' = 0 /\ partial' = notify_pending'
     ELSE requested' = FALSE /\ UNCHANGED <<tx, notify_pending, idle_timer, quiet, partial>>
  /\ UNCHANGED <<radio, connected, rx, closing>>

idle_timeout ==
  /\ idle_timer = IdleLimit
  /\ idle_timer' = Off /\ closing' = connected
  /\ UNCHANGED <<radio, connected, rx, tx, notify_pending, requested, quiet, partial>>

(* Faulty variant: what was received of a line stays in the buffer.             *)
Forgotten_kept == rx

Forgotten == NoBytes

(* HCI_EVENT_DISCONNECTION_COMPLETE: asked for here, by the client or by the    *)
(* radio; BTstack drops the event it owed.                                      *)
Disconnected ==
  /\ connected
  /\ connected' = FALSE /\ rx' = Forgotten /\ notify_pending' = FALSE
  /\ requested' = FALSE /\ idle_timer' = Off
  /\ closing' = FALSE /\ partial' = FALSE
  /\ advertising' = TRUE
  /\ UNCHANGED <<operational, tx, quiet>>

(* The timer of the run loop fires before time goes past it.                    *)
Tick ==
  /\ connected /\ idle_timer # IdleLimit /\ quiet < IdleLimit
  /\ idle_timer' = IF idle_timer = Off THEN Off ELSE idle_timer + 1
  /\ quiet' = quiet + 1
  /\ UNCHANGED <<radio, connected, rx, tx, notify_pending, requested, closing, partial>>

Next ==
  \/ Working \/ Connect \/ Disconnected \/ CanSendNow \/ idle_timeout \/ Tick
  \/ \E size \in WriteSizes, terminated \in BOOLEAN : Write(size, terminated)

Spec == Init /\ [][Next]_vars

(* The radio starts, the run loop runs, the link is closed that it was asked    *)
(* to, time passes.                                                             *)
FairSpec ==
  /\ Spec
  /\ WF_vars(Working) /\ WF_vars(idle_timeout) /\ WF_vars(Tick)
  /\ WF_vars(closing /\ Disconnected)

----------------------------------------------------------------------------
(* A command is put together from writes of one link only: what a client left   *)
(* unfinished never becomes the beginning of the next client's command.         *)
LinesOfOneLink == ~rx.old

(* The device closes only a link that has been silent for the whole limit: a    *)
(* long reply being sent in notifications keeps its link open.                  *)
OnlySilentClosed == [][closing' /\ ~closing => quiet = IdleLimit]_vars

(* A reply that is not sent to its end has its next notification asked for,     *)
(* whatever reply it replaced and however many it takes: no client is left      *)
(* with half a reply until the silence closes its link.                         *)
SendArmed == notify_pending => requested

(* A link nothing is exchanged on does not keep the device: one that is         *)
(* connected and never written to included, it is closed and the device can be  *)
(* found again by another client.                                               *)
SilentClosed == []<>(advertising \/ (connected /\ quiet = 0))

(* docs/communications.md:195-197 has the client put a long reply together      *)
(* until its last line: the pieces it gets would then be of one reply.          *)
RepliesWhole == [][tx'.offset > tx.offset /\ tx.offset = 0 => ~partial]_vars
================================================================================
