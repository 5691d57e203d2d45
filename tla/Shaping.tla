------------------------------- MODULE Shaping -------------------------------
(***************************************************************************)
(* How large the records of a tunnel are: the traffic script and its lint    *)
(* (config/script.rs), the shaper that applies it to a connection            *)
(* (session/shaper.rs), the sizes of control records (control_size.rs), and  *)
(* the padding frames that carry their own size (frame.rs, h2.rs).           *)
(* Lengths are the code's, in bytes.  A sampled length is one of the ends of *)
(* its range, times are left out except whether a record is delayed, and a   *)
(* script line is the sequence of its parsed fields.                         *)
(***************************************************************************)
EXTENDS Integers, Sequences, FiniteSets, SequencesExt

Least(a, b) == IF a < b THEN a ELSE b
Most(a, b) == IF a > b THEN a ELSE b

\* the ends a sample of lo..=hi is drawn from; gen_range has nothing to draw
\* from an empty range
Ends(lo, hi) == {lo, hi} \cap (lo .. hi)

BLOCK_PLAINTEXT_SIZE == 16385
BLOCK_DATA_CAPACITY == BLOCK_PLAINTEXT_SIZE - 3
MIN_DATA_WIRE_LEN == 5 + 2 + 1 + 16
CONTROL_RECORD_MIN_OVERHEAD == MIN_DATA_WIRE_LEN

data_record_wire_len(n) == MIN_DATA_WIRE_LEN + n
max_data_record_wire_len == 5 + BLOCK_PLAINTEXT_SIZE + 16

\* the length on the wire of a record prepared for target with a payload of n
PreparedLen(n, target) ==
  21 + Least(Most(target - 21, n + 3), BLOCK_PLAINTEXT_SIZE)

(***************************************************************************)
(* control_size.rs                                                           *)
(***************************************************************************)
L1_MAX_WIRE_LEN == 160
MIN_DATA_RECORD_PAYLOAD == L1_MAX_WIRE_LEN + 1 - MIN_DATA_WIRE_LEN
MAX_DATA_RECORD_PAYLOAD == 1400
SETTINGS_ACK_WIRE == 33
WINDOW_UPDATE_WIRE == 37
PING_WIRE == 41
TRANSPORT_POOL_SIZES == {WINDOW_UPDATE_WIRE, PING_WIRE, 54, SETTINGS_ACK_WIRE, 46}

is_settings_bearing_wire_size(size) == size \in {51, 69, 64, 82}

H2_OPENING_MAX_LEN == 3

from_control_count(n) == IF n < H2_OPENING_MAX_LEN THEN "Handshake" ELSE "Transport"

\* large: the process sends the longer SETTINGS
h2_opening(direction, large) ==
  IF direction = "C2S" THEN <<SETTINGS_ACK_WIRE>>
  ELSE <<IF large THEN 69 ELSE 51, WINDOW_UPDATE_WIRE, SETTINGS_ACK_WIRE>>

next_headers_frame_wire_len(direction) ==
  {CONTROL_RECORD_MIN_OVERHEAD + n :
     n \in IF direction = "C2S" THEN Ends(250, 800) ELSE Ends(100, 400)}

next_data_record_payload == Ends(MIN_DATA_RECORD_PAYLOAD, MAX_DATA_RECORD_PAYLOAD)

\* the pool and the cursor into the opening; count is control_frame_count
next_control_size(state, direction, large, count) ==
  IF state = "Handshake" /\ count < Len(h2_opening(direction, large))
  THEN {h2_opening(direction, large)[count + 1]}
  ELSE TRANSPORT_POOL_SIZES \cup next_headers_frame_wire_len(direction)

\* what a control packet of n bytes is cut into: the class, the target and the
\* bytes of its next record
ControlCut(n, lifecycle, state, direction, large, count) ==
  LET targets == IF lifecycle
                 THEN {data_record_wire_len(p) : p \in next_data_record_payload}
                 ELSE next_control_size(state, direction, large, count)
      Cut(t) ==
        IF n <= t - CONTROL_RECORD_MIN_OVERHEAD
        THEN {[class |-> IF lifecycle THEN "data" ELSE "control", target |-> t, take |-> n]}
        ELSE IF n >= BLOCK_DATA_CAPACITY
        THEN {[class |-> "bulk", target |-> max_data_record_wire_len,
               take |-> BLOCK_DATA_CAPACITY]}
        ELSE {[class |-> "data", target |-> data_record_wire_len(p), take |-> Least(n, p)] :
                p \in next_data_record_payload}
  IN UNION {Cut(t) : t \in targets}

(***************************************************************************)
(* Padding frames (frame.rs, h2.rs).                                         *)
(***************************************************************************)
FRAME_HEADER_SIZE == 7
PADDING_HEADER_LEN == 2
MIN_PADDING_RECORD_WIRE_LEN ==
  CONTROL_RECORD_MIN_OVERHEAD + FRAME_HEADER_SIZE + PADDING_HEADER_LEN

padding_junk_len_for_wire(target) == Most(target - MIN_PADDING_RECORD_WIRE_LEN, 0)

\* the encoded length of a padding frame that is to fill a record of target
\* bytes, and the record such a frame asks for
encode_padding_frame_sized(target) ==
  FRAME_HEADER_SIZE + PADDING_HEADER_LEN + padding_junk_len_for_wire(target)
self_sized_padding_wire_len(len) == len + CONTROL_RECORD_MIN_OVERHEAD

MAX_PADDING_REPLIES == 2

padding_reply_wire_len(request, index) ==
  IF index > 0 THEN {WINDOW_UPDATE_WIRE}
  ELSE IF is_settings_bearing_wire_size(request) THEN {SETTINGS_ACK_WIRE}
  ELSE IF request > L1_MAX_WIRE_LEN
       THEN {data_record_wire_len(p) : p \in next_data_record_payload}
  ELSE {PING_WIRE}

(***************************************************************************)
(* The script.  A line is [head |-> "stop", n |-> value], a rule with its    *)
(* index and fields, or [head |-> "bad"] for one that has no '=' or whose    *)
(* head is no number; likewise a field is L, D, F or bad.                    *)
(***************************************************************************)
MAX_DELAY_MEDIAN_MS == 500
MAX_DELAY_SIGMA == 20       \* in tenths
MAX_FAKE_JITTER_OFFSET == 64

parse_len_spec(f) ==
  CASE f.form = "range" -> [ok |-> f.a <= f.b, lo |-> f.a, hi |-> f.b, pinned |-> FALSE]
    [] f.form = "base"  -> [ok |-> TRUE, lo |-> f.a, hi |-> f.a + f.b, pinned |-> TRUE]
    [] f.form = "fixed" -> [ok |-> TRUE, lo |-> f.a, hi |-> f.a, pinned |-> FALSE]

\* a lone zero is no delay; any other median is positive and within bounds, and
\* so is the sigma of a pair
parse_delay_spec(f) ==
  [ok |-> \/ f.median = 0 /\ ~f.pair
          \/ /\ f.median \in 1 .. MAX_DELAY_MEDIAN_MS
             /\ f.pair => f.sigma \in 0 .. MAX_DELAY_SIGMA,
   delayed |-> f.median # 0]

parse_fake_spec(f) ==
  [ok |-> f.count \in 0 .. 255
          /\ f.jitter \in -MAX_FAKE_JITTER_OFFSET .. MAX_FAKE_JITTER_OFFSET,
   count |-> f.count, jitter |-> f.jitter]

FieldOk(f) ==
  CASE f.f = "L" -> parse_len_spec(f).ok
    [] f.f = "D" -> parse_delay_spec(f).ok
    [] f.f = "F" -> parse_fake_spec(f).ok
    [] OTHER -> FALSE

\* a later field of a kind replaces an earlier one
parse_rule_body(fields) ==
  LET Of(kind) == SelectSeq(fields, LAMBDA f : f.f = kind)
      len == IF Of("L") = <<>> THEN [lo |-> 0, hi |-> 0, pinned |-> FALSE]
             ELSE parse_len_spec(Last(Of("L")))
      fake == IF Of("F") = <<>> THEN [count |-> 0, jitter |-> 0]
              ELSE parse_fake_spec(Last(Of("F")))
  IN [ok |-> Of("L") # <<>> /\ \A f \in ToSet(fields) : FieldOk(f),
      len_lo |-> len.lo, len_hi |-> len.hi, len_pinned |-> len.pinned,
      delayed |-> Of("D") # <<>> /\ parse_delay_spec(Last(Of("D"))).delayed,
      expect_responses |-> fake.count, fake_jitter |-> fake.jitter]

\* the rules come in the order of their indices, with at most one stop among them
parse_traffic_script(lines) ==
  LET Of(head) == SelectSeq(lines, LAMBDA l : l.head = head)
      rules == [i \in DOMAIN Of("rule") |-> parse_rule_body(Of("rule")[i].fields)]
      stops == Of("stop")
  IN [ok |-> /\ rules # <<>> /\ Of("bad") = <<>>
             /\ \A i \in DOMAIN rules : Of("rule")[i].idx = i - 1 /\ rules[i].ok
             /\ Len(stops) <= 1 /\ \A l \in ToSet(stops) : l.n > 0,
      rules |-> rules,
      stop |-> IF stops = <<>> THEN Len(rules) ELSE stops[1].n]

\* the lengths as written
ScaledHighAsWritten(len) == len

\* the largest length randomize_script may make of one
ScaledHigh(len) == (len * 120) \div 100

\* what lint_traffic_script warns about
lint_traffic_script(script) ==
  LET rules == ToSet(script.rules) IN
  {w \in {"fakes", "small", "large", "cycles"} :
     \/ w = "fakes" /\ \E r \in rules : r.expect_responses > 0
     \/ w = "small" /\ \E r \in rules :
          Most((r.len_lo * 85) \div 100, 1) + MIN_DATA_WIRE_LEN <= L1_MAX_WIRE_LEN
     \/ w = "large" /\ \E r \in rules :
          ScaledHigh(r.len_hi) + MIN_DATA_WIRE_LEN
            > MAX_DATA_RECORD_PAYLOAD + MIN_DATA_WIRE_LEN
     \/ w = "cycles" /\ Len(script.rules) >= 2
                     /\ script.stop * 2 > Len(script.rules) * 3}

(***************************************************************************)
(* The shaper of one connection.                                             *)
(***************************************************************************)
BULK_FAST_PATH_THRESHOLD == 128 * 1024
SCRIPT_BLEND_WINDOW == 6
FIRST_RECORD_PAYLOAD_LO == 152
FIRST_RECORD_PAYLOAD_HI == 248

Rule(lo, hi, delayed) ==
  [ok |-> TRUE, len_lo |-> lo, len_hi |-> hi, len_pinned |-> FALSE, delayed |-> delayed,
   expect_responses |-> 0, fake_jitter |-> 0]

embedded_script ==
  [rules |-> <<Rule(200, 250, FALSE), Rule(180, 220, TRUE), Rule(250, 350, FALSE),
               Rule(300, 400, TRUE), Rule(200, 300, FALSE), Rule(400, 600, TRUE)>>,
   stop |-> 6]

\* the window of a rule scaled by percent; a pinned one first collapses to at
ScaledRule(rule, percent, at) ==
  LET lo == ((IF rule.len_pinned THEN at ELSE rule.len_lo) * percent) \div 100
      hi == ((IF rule.len_pinned THEN at ELSE rule.len_hi) * percent) \div 100
      new_lo == Least(Most(lo, 1), BLOCK_DATA_CAPACITY)
  IN [rule EXCEPT !.len_lo = new_lo,
                  !.len_hi = Least(Most(hi, new_lo), BLOCK_DATA_CAPACITY)]

\* the scripts a connection may run: the code draws the scale and the pinned
\* length for each rule, here all rules get the same end of each
randomize_script(rules) ==
  {[i \in DOMAIN rules |->
      LET rule == rules[((i - 1 + k) % Len(rules)) + 1]    \* rotate_left(k)
      IN ScaledRule(rule, percent, IF low THEN rule.len_lo ELSE rule.len_hi)] :
     k \in 0 .. Len(rules) - 1, percent \in {85, 120}, low \in BOOLEAN}

\* lines is the empty sequence when none are configured; asked is history: the
\* responses the script has asked for
NewShaper(direction, lines, post_script_off) ==
  LET parsed == parse_traffic_script(lines)
      script == IF parsed.ok THEN [rules |-> parsed.rules, stop |-> parsed.stop]
                ELSE embedded_script
  IN {[direction |-> direction, packet_seq |-> 0, script |-> rules,
       script_stop |-> script.stop, deferred_fakes |-> <<>>,
       post_script_off |-> post_script_off, bulk_run |-> FALSE, asked |-> 0] :
        rules \in randomize_script(script.rules)}

Policy(class, target) ==
  [class |-> class, target_wire_len |-> target, delayed |-> FALSE, fake |-> 0,
   pre_fake |-> 0, allow_full_block |-> FALSE, quiet_gap |-> FALSE]

Total(fakes) == FoldLeft(LAMBDA n, f : n + f.responses, 0, fakes)

Due(sh) ==
  SelectSeq(sh.deferred_fakes,
            LAMBDA f : sh.packet_seq >= sh.script_stop \/ sh.packet_seq >= f.target)

\* due fakes are sent and stay in the queue
release_due_kept(c) ==
  [policy |-> [c.policy EXCEPT !.fake = Least(@ + Total(Due(c.sh)), 255)], sh |-> c.sh]

\* c: a policy and the shaper that gave it
release_due_fakes(c) ==
  LET due == Due(c.sh) IN
  [policy |-> [c.policy EXCEPT !.fake = Least(@ + Total(due), 255)],
   sh |-> [c.sh EXCEPT !.deferred_fakes = SelectSeq(@, LAMBDA f : f \notin ToSet(due))]]


ScriptWireLen(len) ==
  data_record_wire_len(Least(Most(len, MIN_DATA_RECORD_PAYLOAD), BLOCK_DATA_CAPACITY))

script_policy(sh) ==
  LET rule == sh.script[(sh.packet_seq % Len(sh.script)) + 1]
      offsets == Ends(Least(rule.fake_jitter, 0), Most(rule.fake_jitter, 0))
      n == rule.expect_responses
  IN {[policy |-> [Policy("script", ScriptWireLen(len)) EXCEPT
                     !.delayed = rule.delayed,
                     !.pre_fake = IF o < 0 THEN n ELSE 0,
                     !.fake = IF o = 0 THEN n ELSE 0],
       sh |-> [sh EXCEPT
                 !.asked = @ + n,
                 !.deferred_fakes =
                   IF n = 0 \/ o <= 0 THEN @
                   ELSE Append(@, [target |-> sh.packet_seq + o, responses |-> n])]] :
        len \in Ends(rule.len_lo, rule.len_hi), o \in offsets}

\* the blend: certain within the script, impossible after the window
interactive_policy(sh) ==
  {[policy |-> Policy("data", data_record_wire_len(p)), sh |-> sh] :
     p \in next_data_record_payload}

BlendedPolicy(sh) ==
  (IF sh.packet_seq < sh.script_stop + SCRIPT_BLEND_WINDOW THEN script_policy(sh) ELSE {})
    \cup (IF sh.packet_seq > sh.script_stop THEN interactive_policy(sh) ELSE {})

\* the policies the shaper may give for a backlog of pending bytes
next_data_policy(sh, pending) ==
  LET One(policy, next) == {[policy |-> policy, sh |-> next]}
      choices ==
        IF sh.packet_seq = 0 /\ sh.direction = "C2S"
        THEN {[policy |-> [Policy("first", data_record_wire_len(p)) EXCEPT
                             !.quiet_gap = ~sh.post_script_off], sh |-> sh] :
                p \in Ends(FIRST_RECORD_PAYLOAD_LO, FIRST_RECORD_PAYLOAD_HI)}
        ELSE IF pending >= BULK_FAST_PATH_THRESHOLD \/ pending >= BLOCK_DATA_CAPACITY
        THEN One([Policy("bulk", max_data_record_wire_len) EXCEPT
                    !.allow_full_block = TRUE],
                 [sh EXCEPT !.bulk_run = TRUE])
        ELSE IF sh.bulk_run
        THEN One(Policy("tail", data_record_wire_len(pending)), [sh EXCEPT !.bulk_run = FALSE])
        ELSE IF sh.post_script_off /\ sh.packet_seq >= sh.script_stop
        THEN One(Policy("tail", data_record_wire_len(pending)), sh)
        ELSE BlendedPolicy(sh)
  IN {release_due_fakes(c) : c \in choices}

begin_drain(sh) == [sh EXCEPT !.bulk_run = FALSE]

advance(sh) == [sh EXCEPT !.packet_seq = @ + 1]
=============================================================================
