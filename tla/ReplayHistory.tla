----------------------------- MODULE ReplayHistory -----------------------------
(***************************************************************************)
(* The decoder settings the download parser retains beside the live ring   *)
(* (src/src/iptv_stream.cpp).  A configuration is abstracted to the        *)
(* timestamp from which it applies; its bytes are left out, and the byte   *)
(* budget kVideoHistoryBytes acts like the count budget kept here.         *)
(* The module holds no state: a session owns one record                    *)
(*   [configs |-> timestamps of the saved settings, oldest first,          *)
(*    floor   |-> video_history_floor, high |-> video_high_water]          *)
(* and one clock [seen, epoch, raw] (timestamp_t).                         *)
(***************************************************************************)
EXTENDS Integers, Sequences, FiniteSets

CONSTANTS
  PtsModulus,       \* 2^33 in the code: the transport clock wraps here
  ConfigLimit,      \* kVideoHistoryCount
  ConfigDuration    \* kVideoHistoryDuration, in microseconds

ASSUME PtsModulusAssumption == PtsModulus \in Nat /\ PtsModulus >= 4
ASSUME ConfigAssumption == ConfigLimit \in Nat \ {0} /\ ConfigDuration \in Nat

Larger(a, b)  == IF a >= b THEN a ELSE b
Smaller(a, b) == IF a <= b THEN a ELSE b
NoPts == -1

\* One 90 kHz tick is 100/9 microseconds; the code rounds down.
Us(ticks) == (ticks * 100) \div 9

(***************************************************************************)
(* extend_pts: a raw clock that falls by more than half its range has      *)
(* wrapped.  Only a fall is recognised.                                    *)
(***************************************************************************)
Time == [seen : BOOLEAN, epoch : Nat, raw : Nat]
UnseenTime == [seen |-> FALSE, epoch |-> 0, raw |-> 0]
Extended(time, raw) ==
  [seen  |-> TRUE,
   raw   |-> raw,
   epoch |-> IF time.seen /\ raw + PtsModulus \div 2 < time.raw
             THEN time.epoch + PtsModulus ELSE time.epoch]
ExtendedUs(time) == Us(time.epoch + time.raw)

History == [configs : Seq(Nat), floor : Nat, high : Nat]
EmptyHistory == [configs |-> <<>>, floor |-> 0, high |-> 0]

(***************************************************************************)
(* The trailing loop of remember_video_configuration: the oldest settings  *)
(* go while the next ones are already older than the window, or while too  *)
(* many are held.  Timestamps never fall along the list, so the settings   *)
(* that go are the ones for which the test holds.                          *)
(***************************************************************************)
Expired(h) ==
  LET oldest == IF h.high > ConfigDuration THEN h.high - ConfigDuration ELSE 0
      held   == Len(h.configs)
  IN  {i \in 1 .. held - 1 : \/ h.configs[i + 1] <= oldest
                             \/ held - i + 1 > ConfigLimit}
Trimmed(h) ==
  LET gone == Cardinality(Expired(h))
  IN  IF gone = 0 THEN h
      ELSE [h EXCEPT !.configs = SubSeq(h.configs, gone + 1, Len(h.configs)),
                     !.floor   = h.configs[gone + 1]]

(***************************************************************************)
(* remember_video_configuration for a picture at pts.  known: parameter    *)
(* sets have been received; changed: this picture changed them; saved: the *)
(* allocation of the copy succeeded.  A change without a timestamp expires *)
(* what is held, since there is no boundary to attach it to.               *)
(***************************************************************************)
Remember(h, known, changed, saved, pts) ==
  LET seen == [h EXCEPT !.high = Larger(h.high, pts)]
      store == known /\ (changed \/ h.configs = <<>>)
  IN  CASE pts = NoPts ->
             IF changed /\ h.configs # <<>>
             THEN [h EXCEPT !.configs = <<>>, !.floor = h.high + 1] ELSE h
        [] pts # NoPts /\ store /\ ~saved ->
             [seen EXCEPT !.configs = <<>>, !.floor = seen.high]
        [] pts # NoPts /\ store /\ saved ->
             Trimmed([seen EXCEPT !.configs = Append(@, seen.high)])
        [] pts # NoPts /\ ~store -> Trimmed(seen)

\* iptv_stream_replay_start and iptv_stream_replay_range.
ReplayStart(h) == h.floor
ReplayFirst(h) == Larger(h.floor, h.configs[1])
ReplayReady(h) == h.configs # <<>> /\ ReplayFirst(h) <= h.high

(***************************************************************************)
(* The timestamps iptv_stream_reposition_from accepts from this history.   *)
(* Without settings it answers INVALID_STATE rather than INVALID_ARGUMENT. *)
(***************************************************************************)
Accepts(h, pts) ==
  /\ pts >= h.floor
  /\ h.configs # <<>>
  /\ h.configs[1] <= pts /\ pts <= h.high
================================================================================
