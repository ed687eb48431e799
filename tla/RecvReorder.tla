------------------------------ MODULE RecvReorder ------------------------------
(***************************************************************************)
(* The A-MPDU receive reordering of the rtl8192cu driver, for one station  *)
(* and one traffic class (struct recv_reorder_ctrl).  Four contexts share  *)
(* it: the receive tasklet, the reorder timer's handler, whoever sets up   *)
(* or tears down the block-ack agreement, and whoever frees the station.   *)
(*                                                                         *)
(* A frame is its true number; the driver sees only the number modulo      *)
(* 4096.  The loops that hand frames up run under the queue's lock, one    *)
(* frame per step; the writes of enable and indicate_seq by a teardown and *)
(* by the unordered path take no lock, so they fall between those steps.   *)
(***************************************************************************)
EXTENDS Integers, Sequences, FiniteSets

CONSTANTS Frames,      \* the true numbers of the frames that may arrive
          MaxRx,       \* bound on the arrivals
          MaxResets    \* bound on the set-ups and teardowns of agreements

ASSUME FramesAssumption == Frames \subseteq Nat

MOD   == 4096
HALF  == 2048          \* 0x800
WSIZE == 64            \* wsize_b
NONE  == 65535         \* 0xffff: no window yet

SEQ(n) == n % MOD

(* Mutant: the comparison does not wrap.                                   *)
SN_LESSMut_NoWrap(a, b) == a < b

SN_LESS(a, b) == (a - b) % MOD >= HALF

VARIABLES
    enable, indicate_seq, pending,     \* struct recv_reorder_ctrl
    tid_rxseq,                         \* struct stainfo_rxcache
    armed,                             \* the reorder timer is queued
    rx, prframe,                       \* the receive tasklet: where it is, and its frame
    tmr,                               \* the timer's handler: where it is
    free,                              \* rtw_free_stainfo: where it is
    stopped,                           \* bDriverStopped or bSurpriseRemoved
    ap,                                \* access point: frames are forwarded to stations
    arrivals, resets,                  \* counted for the bounds
    top, last, freed, torn             \* history: the newest frame, the one handed up last,
                                       \* frames freed with the station, an agreement reset
                                       \* while frames were waiting or in hand

ctrl == << enable, indicate_seq, pending >>
rxframe == << tid_rxseq, prframe >>
env  == << stopped, ap, arrivals, resets >>
hist == << top, last, freed, torn >>
vars == << ctrl, rxframe, armed, rx, tmr, free, env, hist >>

Held == {pending[i] : i \in DOMAIN pending}

Init ==
    /\ enable = FALSE /\ indicate_seq = NONE /\ pending = << >>
    /\ tid_rxseq = NONE /\ armed = FALSE
    /\ rx = "idle" /\ prframe = -1 /\ tmr = "idle" /\ free = "no"
    /\ stopped = FALSE /\ ap \in BOOLEAN /\ arrivals = 0 /\ resets = 0
    /\ top = -1 /\ last = -1 /\ freed = {} /\ torn = FALSE

QueueLocked == rx = "indicate" \/ tmr = "indicate"
HashLocked  == free \in {"cancel", "drain"}

--------------------------------------------------------------------------------
(* Handing one frame up.  An access point looks the destination up, under  *)
(* the lock of the station hash, to forward the frame.                     *)
(* Mutant: every mode looks the destination up.                            *)
MayIndicateMut_Always == ~ HashLocked

MayIndicate == ~ (ap /\ HashLocked)

rtw_recv_indicatepkt(n) == MayIndicate /\ last' = n

--------------------------------------------------------------------------------
(* The sender.  Without a window at the receiver it has one frame          *)
(* outstanding: the next one, or the last again.  Under an agreement it    *)
(* repeats frames at most HALF back, and loses at most HALF - WSIZE in a   *)
(* row.                                                                    *)
Sendable(n) ==
    \/ top = -1
    \/ n > top /\ n <= top + HALF - WSIZE
    \/ SEQ(n) = tid_rxseq /\ n <= top /\ n > top - HALF
    \/ enable /\ indicate_seq # NONE /\ n <= top /\ n > top - HALF

(* A frame of the station arrives: the repeat of the last one is dropped.  *)
(* Whether an agreement is in force is read without the lock; without one  *)
(* the window is moved to the frame, which is handed up at once.           *)
Receive(n) ==
    /\ rx = "idle" /\ free = "no" /\ ~ stopped
    /\ arrivals < MaxRx /\ arrivals' = arrivals + 1
    /\ Sendable(n)
    /\ \/ tid_rxseq = SEQ(n) /\ UNCHANGED << indicate_seq, rxframe, rx, top >>
       \/ /\ tid_rxseq # SEQ(n) /\ tid_rxseq' = SEQ(n)
          /\ rx' = (IF enable THEN "lock" ELSE "direct") /\ prframe' = n
          /\ indicate_seq' = (IF enable THEN indicate_seq ELSE SEQ(n))
          /\ top' = IF n > top THEN n ELSE top
    /\ UNCHANGED << enable, pending, armed, tmr, free, stopped, ap, resets, last, freed, torn >>

Direct ==
    /\ rx = "direct" /\ rtw_recv_indicatepkt(prframe)
    /\ rx' = "bump"
    /\ UNCHANGED << ctrl, rxframe, armed, tmr, free, env, top, freed, torn >>

Bump ==
    /\ rx = "bump"
    /\ indicate_seq' = (indicate_seq + 1) % MOD
    /\ rx' = "idle"
    /\ UNCHANGED << enable, pending, rxframe, armed, tmr, free, env, hist >>

(* check_indicate_seq: does a frame pass the window, and where the window  *)
(* then starts.                                                            *)
wstart(s) == IF indicate_seq = NONE THEN s ELSE indicate_seq
wend      == (indicate_seq + WSIZE - 1) % MOD

check_indicate_seq(s) ==
    /\ ~ SN_LESS(s, wstart(s))
    /\ indicate_seq' =
         IF s = wstart(s) THEN (wstart(s) + 1) % MOD
         ELSE IF ~ SN_LESS(wend, s) THEN wstart(s)
         ELSE IF s >= WSIZE - 1 THEN s + 1 - WSIZE
         ELSE 4095 - (WSIZE - (s + 1)) + 1

(* enqueue_reorder_recvframe: the frame goes in front of the first one     *)
(* that is not before it, unless that one has its number.                  *)
Before(i, s) == \A j \in 1 .. i : SN_LESS(SEQ(pending[j]), s)

InsertAt(i, n) ==
    [j \in 1 .. Len(pending) + 1 |->
        IF j <= i THEN pending[j] ELSE IF j = i + 1 THEN n ELSE pending[j - 1]]

(* Mutant: equal numbers are not told apart from later ones.               *)
enqueue_reorder_recvframeMut_Twice(n) ==
    \E i \in 0 .. Len(pending) :
        /\ Before(i, SEQ(n))
        /\ i < Len(pending) => ~ SN_LESS(SEQ(pending[i + 1]), SEQ(n))
        /\ pending' = InsertAt(i, n)

enqueue_reorder_recvframe(n) ==
    \E i \in 0 .. Len(pending) :
        /\ Before(i, SEQ(n))
        /\ i < Len(pending) => /\ ~ SN_LESS(SEQ(pending[i + 1]), SEQ(n))
                               /\ SEQ(pending[i + 1]) # SEQ(n)
        /\ pending' = InsertAt(i, n)

(* A frame is a duplicate when the search for its place meets its number.  *)
Duplicate(s) ==
    \E i \in DOMAIN pending : SEQ(pending[i]) = s /\ Before(i - 1, s)

Check ==
    /\ rx = "lock" /\ ~ QueueLocked
    /\ check_indicate_seq(SEQ(prframe))
    /\ \/ /\ Duplicate(SEQ(prframe))
          /\ rx' = "idle" /\ UNCHANGED pending
       \/ /\ enqueue_reorder_recvframe(prframe)
          /\ rx' = "indicate"
    /\ UNCHANGED << enable, rxframe, armed, tmr, free, env, hist >>

(* A frame before the window is dropped.                                   *)
Drop ==
    /\ rx = "lock" /\ ~ QueueLocked
    /\ SN_LESS(SEQ(prframe), wstart(SEQ(prframe)))
    /\ rx' = "idle"
    /\ UNCHANGED << ctrl, rxframe, armed, tmr, free, env, hist >>

--------------------------------------------------------------------------------
(* recv_indicatepkts_in_order: one turn of its loop, and its two ends.  A  *)
(* stopped driver takes the frame out and hands nothing up.                *)
Ready == pending # << >> /\ ~ SN_LESS(indicate_seq, SEQ(Head(pending)))

IndicateHead ==
    /\ Ready
    /\ IF stopped THEN UNCHANGED last ELSE rtw_recv_indicatepkt(Head(pending))
    /\ indicate_seq' = IF indicate_seq = SEQ(Head(pending))
                         THEN (indicate_seq + 1) % MOD ELSE indicate_seq
    /\ pending' = Tail(pending)

RxIndicate ==
    /\ rx = "indicate" /\ IndicateHead
    /\ UNCHANGED << enable, rxframe, armed, rx, tmr, free, env, top, freed, torn >>

(* Frames stay: the timer is set under the lock.  None does: the lock is   *)
(* released first and the timer cancelled after.                           *)
(* Mutant: the timer is not set for the frames that stay.                  *)
RxIndicatedMut_NoTimer ==
    /\ rx = "indicate" /\ ~ Ready
    /\ rx' = (IF pending # << >> THEN "idle" ELSE "cancel")
    /\ UNCHANGED << ctrl, rxframe, armed, tmr, free, env, hist >>

RxIndicated ==
    /\ rx = "indicate" /\ ~ Ready
    /\ IF pending # << >>
         THEN armed' = TRUE /\ rx' = "idle"
         ELSE rx' = "cancel" /\ UNCHANGED armed
    /\ UNCHANGED << ctrl, rxframe, tmr, free, env, hist >>

(* del_timer_sync waits for a handler that is running.                     *)
RxCancel ==
    /\ rx = "cancel" /\ tmr = "idle"
    /\ armed' = FALSE /\ rx' = "idle"
    /\ UNCHANGED << ctrl, rxframe, tmr, free, env, hist >>

--------------------------------------------------------------------------------
(* The reorder timer, and rtw_reordering_ctrl_timeout_handler.             *)
Expire ==
    /\ armed /\ tmr = "idle" /\ armed' = FALSE
    /\ tmr' = IF stopped THEN "idle" ELSE "lock"
    /\ UNCHANGED << ctrl, rxframe, rx, free, env, hist >>

(* Nothing to force out: the handler sets the timer again.                 *)
Timeout ==
    /\ tmr = "lock" /\ ~ QueueLocked
    /\ IF pending = << >>
         THEN armed' = TRUE /\ tmr' = "idle" /\ UNCHANGED indicate_seq
         ELSE /\ indicate_seq' = SEQ(Head(pending)) /\ tmr' = "indicate"
              /\ UNCHANGED armed
    /\ UNCHANGED << enable, pending, rxframe, rx, free, env, hist >>

TmrIndicate ==
    /\ tmr = "indicate" /\ IndicateHead
    /\ UNCHANGED << enable, rxframe, armed, rx, tmr, free, env, top, freed, torn >>

(* Mutant: the handler does not set the timer again.                       *)
TmrIndicatedMut_Once ==
    /\ tmr = "indicate" /\ ~ Ready /\ tmr' = "idle"
    /\ UNCHANGED << ctrl, rxframe, armed, rx, free, env, hist >>

TmrIndicated ==
    /\ tmr = "indicate" /\ ~ Ready /\ tmr' = "idle"
    /\ armed' = (armed \/ pending # << >>)
    /\ UNCHANGED << ctrl, rxframe, rx, free, env, hist >>

--------------------------------------------------------------------------------
(* Agreements.  A request for one is answered by the tasklet itself; an    *)
(* agreement ends on the peer's DELBA, on the driver's own, and on joining *)
(* a network.  None takes the lock or looks at the frames that wait.       *)
Reset ==
    /\ free = "no" /\ resets < MaxResets /\ resets' = resets + 1
    /\ indicate_seq' = NONE
    /\ torn' = (torn \/ pending # << >> \/ rx # "idle" \/ tmr # "idle")
    /\ UNCHANGED << pending, rxframe, armed, rx, tmr, free, stopped, ap, arrivals,
                    top, last, freed >>

process_addba_req == rx = "idle" /\ Reset /\ enable' \in BOOLEAN

send_delba == Reset /\ enable' = FALSE

(* rtw_free_stainfo, called with the lock of the station hash: cancel the  *)
(* timer, then free the frames that wait.                                  *)
FreeStation ==
    /\ free = "no" /\ free' = "cancel"
    /\ UNCHANGED << ctrl, rxframe, armed, rx, tmr, env, hist >>

FreeCancel ==
    /\ free = "cancel" /\ tmr = "idle"
    /\ armed' = FALSE /\ free' = "drain"
    /\ UNCHANGED << ctrl, rxframe, rx, tmr, env, hist >>

FreeDrain ==
    /\ free = "drain" /\ ~ QueueLocked
    /\ freed' = freed \cup Held /\ pending' = << >> /\ free' = "done"
    /\ UNCHANGED << enable, indicate_seq, rxframe, armed, rx, tmr, env, top, last, torn >>

(* The driver is stopped, or the device is pulled out.                     *)
Stop ==
    /\ ~ stopped /\ stopped' = TRUE
    /\ UNCHANGED << ctrl, rxframe, armed, rx, tmr, free, ap, arrivals, resets, hist >>

--------------------------------------------------------------------------------
Tasklet == Direct \/ Bump \/ Check \/ Drop \/ RxIndicate \/ RxIndicated \/ RxCancel
Timer   == Expire \/ Timeout \/ TmrIndicate \/ TmrIndicated
Free    == FreeCancel \/ FreeDrain

Next ==
    \/ \E n \in Frames : Receive(n)
    \/ Tasklet \/ Timer \/ Free
    \/ process_addba_req \/ send_delba \/ FreeStation \/ Stop

(* A timer that is set again runs 50 ms later, and del_timer_sync tries    *)
(* all the while: a cancel is not overtaken for ever.                      *)
Fairness ==
    /\ WF_vars(Tasklet) /\ WF_vars(Timer) /\ WF_vars(Free)
    /\ SF_vars(RxCancel) /\ SF_vars(FreeCancel)

Spec == Init /\ [][Next]_vars /\ Fairness

--------------------------------------------------------------------------------
(* The types of the variables (struct recv_reorder_ctrl and the contexts). *)
TypeOK ==
    /\ {enable, armed, stopped, ap, torn} \subseteq BOOLEAN
    /\ indicate_seq \in Nat /\ tid_rxseq \in Nat
    /\ pending \in Seq(Frames)
    /\ prframe \in Frames \cup {-1} /\ (rx # "idle" => prframe \in Frames)
    /\ rx \in {"idle", "direct", "bump", "lock", "indicate", "cancel"}
    /\ tmr \in {"idle", "lock", "indicate"} /\ free \in {"no", "cancel", "drain", "done"}
    /\ arrivals \in Nat /\ resets \in Nat
    /\ top \in Frames \cup {-1} /\ last \in Frames \cup {-1} /\ freed \subseteq Frames

(* The station is being freed, the driver was stopped, or an agreement was *)
(* reset over the head of frames that were waiting or in hand.             *)
Upset == torn \/ stopped \/ free # "no"

(* The frames taken in and not yet handed up: those that wait, and the one *)
(* the unordered path has in hand.                                         *)
Taken == Held \cup (IF rx = "direct" THEN {prframe} ELSE {})

Buffer == INSTANCE ReorderBuffer WITH held <- Taken, last <- last

(* The driver implements the reorder buffer over true frame numbers as     *)
(* long as nothing upsets it: the 12-bit comparisons, the window shift     *)
(* across the wrap, the insertion, the forced release and the unlocked     *)
(* path never hand frames up out of order or twice, and lose none of those *)
(* taken in (recv_indicatepkt_reorder and the functions it calls).         *)
ImplementsBuffer == Buffer!Init /\ [][Upset' \/ Buffer!Next]_<< Taken, last >>

(* The window never shuts out what is new: once the tasklet is through     *)
(* with it, the newest frame so far has been handed up or waits            *)
(* (check_indicate_seq, enqueue_reorder_recvframe).                        *)
NewestIsKept == rx = "idle" /\ ~ Upset => top = last \/ top \in Held

(* Frames never wait without a timer: whenever some wait and nobody is at  *)
(* work on them, the timer is queued, whatever order the tasklet's late    *)
(* cancel, the handler, resets and a free of the station come in.          *)
HeldHasTimer ==
    /\ pending # << >> /\ rx # "indicate" /\ tmr = "idle"
    /\ free # "drain" /\ ~ stopped
    => armed

(* What the window holds fits it: between two uses of the lock the frames  *)
(* that wait are in increasing order, after the frame the window starts    *)
(* with and within WSIZE of it.                                            *)
WindowHolds ==
    ~ Upset /\ ~ QueueLocked =>
        /\ \A i \in DOMAIN pending : i > 1 => pending[i - 1] < pending[i]
        /\ \A i \in DOMAIN pending : (SEQ(pending[i]) - indicate_seq) % MOD \in 1 .. WSIZE - 1

(* The access point's deadlock (rtw_ap.c:398): whoever frees the station   *)
(* holds the lock of the station hash and waits for the handler or for the *)
(* queue's lock; whoever has these is about to hand a frame up, for which  *)
(* it takes the lock of the station hash.                                  *)
Embrace == ap /\ HashLocked /\ QueueLocked /\ Ready /\ ~ stopped

(* Every frame that waits is released in the end, by the frames that fill  *)
(* the gap, by the window or by the timer, unless the driver is stopped or *)
(* an access point runs into its deadlock.                                 *)
HeldIsReleased == \A n \in Frames : n \in Held ~> n \notin Held \/ stopped \/ Embrace

(* Freeing a station comes to an end: of waiting for the handler and for   *)
(* the queue's lock while holding the lock of the station hash, nothing    *)
(* but an access point's deadlock comes in the way (rtw_free_stainfo).     *)
FreeEnds == free = "cancel" ~> free = "done" \/ Embrace
================================================================================
