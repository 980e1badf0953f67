------------------------------- MODULE Cadence -------------------------------
(***************************************************************************)
(* From a policy to the cadence of an envelope: validate_policy of         *)
(* src/policy.cpp, the inputs and the expiry that derive_envelope_internal *)
(* of src/fabric.cpp makes of a policy, a grant and a binding, and         *)
(* derive_cadence of src/envelope.cpp with src/rate.cpp.                   *)
(*                                                                         *)
(* A policy is offered for publication and, if it is accepted, an envelope *)
(* is derived from it under a grant and a binding.  Rates are bits per     *)
(* unit of time and time is counted in ticks, NanosPerSecond of them in a  *)
(* unit; ByteTicks converts a number of bytes.                             *)
(***************************************************************************)
EXTENDS Arithmetic, Sequences

CONSTANTS
  Policies, Grants, Bindings,  \* what may be offered, granted and bound
  Instants,                    \* when an envelope may be derived
  None,                        \* nothing published, nothing derived
  BitsPerByte, NanosPerSecond, \* kBitsPerByte, kNanosPerSecond
  Ppm,                         \* 1'000'000
  MaxExceptions,               \* max_service_class_exceptions
  MaxRate, MaxQuantum, MinWindow, MaxWindow, MaxInterval,  \* Limits
  MaxBurst, MaxPackets, Horizon, MaxLifetime,
  Lifetime                     \* config.envelope_lifetime_ns

ByteTicks == BitsPerByte * NanosPerSecond

limits_are_coherent ==
  /\ MaxRate > 0 /\ MaxQuantum > 0 /\ MaxBurst > 0 /\ MaxPackets > 0
  /\ MinWindow > 0 /\ MinWindow <= MaxWindow
  /\ MaxInterval > 0 /\ Horizon > 0 /\ MaxLifetime > 0

ASSUME CadenceAssumption ==
  /\ limits_are_coherent
  /\ {ByteTicks, Ppm, MaxRate, MaxQuantum, MaxWindow, MaxInterval,
      MaxBurst, MaxPackets, Horizon, MaxLifetime, Lifetime} \subseteq Word
  /\ {BitsPerByte, NanosPerSecond, MaxExceptions} \subseteq Nat
  /\ MinWindow \in Nat /\ ByteTicks > 0 /\ Ppm > 0
  /\ None \notin Policies

\* The exceptions are a vector of the policy.
ExceptionsOf(p) == {p.exceptions[i] : i \in DOMAIN p.exceptions}

\* Every number of a policy, a grant and a binding is a u64.
ASSUME OffersAreWords ==
  /\ \A p \in Policies :
       /\ {p.rate, p.share, p.min, p.quantum, p.window, p.hint, p.burst, p.packets} \subseteq Word
       /\ \A e \in ExceptionsOf(p) : {e.min, e.share, e.burst, e.packets} \subseteq Word
  /\ \A g \in Grants : {g.ceiling, g.floor, g.until} \subseteq Word
  /\ \A b \in Bindings : {b.burst, b.packets} \subseteq Word
  /\ Instants \subseteq Word

VARIABLES
  policy,   \* the policy that is published
  grant,    \* the rate that upstream authorizes
  binding,  \* what the flow declares
  now,      \* the instant of the derivation
  outcome   \* the envelope, or why there is none

vars == <<policy, grant, binding, now, outcome>>

Larger(a, b)  == IF a >= b THEN a ELSE b
Smaller(a, b) == IF a <= b THEN a ELSE b
Overrides(own, exception) == IF exception # 0 THEN exception ELSE own

-----------------------------------------------------------------------------
(* validate_policy *)

\* Every exception of the policy has bounds of its own, and a class of its own.
ValidException(e) ==
  /\ e.share <= Ppm /\ e.min <= MaxRate
  /\ e.burst <= MaxBurst /\ e.packets <= MaxPackets

validate_policy(p) ==
  /\ p.share <= Ppm
  /\ p.rate <= MaxRate /\ p.min <= MaxRate
  /\ p.quantum \in 1 .. MaxQuantum
  /\ p.window \in MinWindow .. MaxWindow
  /\ p.burst <= MaxBurst /\ p.packets <= MaxPackets
  /\ p.hint <= NanosPerSecond
  /\ Len(p.exceptions) <= MaxExceptions
  /\ \A e \in ExceptionsOf(p) : ValidException(e)
  /\ \A i, j \in DOMAIN p.exceptions :
       p.exceptions[i].class = p.exceptions[j].class => i = j

-----------------------------------------------------------------------------
(* The inputs of the derivation *)

\* Variant: the exceptions are ignored.
find_no_exception(p, class) == {}
\* find_exception: at most one is for the class of the binding.
find_exception(p, class) == {e \in ExceptionsOf(p) : e.class = class}

\* An exception may raise the floor and the bursts and replace the share.
DerivationInput(p, g, b) ==
  LET in == [requested |-> p.rate, share |-> p.share, min |-> p.min,
             ceiling |-> g.ceiling, floor |-> g.floor,
             quantum |-> p.quantum, window |-> p.window, shape |-> p.shape, hint |-> p.hint,
             burst |-> p.burst, packets |-> p.packets,
             flowBurst |-> b.burst, flowPackets |-> b.packets]
      Excepted(e) == [in EXCEPT !.min = Larger(@, e.min), !.share = Overrides(@, e.share),
                                !.burst = Larger(@, e.burst), !.packets = Larger(@, e.packets)]
  IN  IF find_exception(p, b.class) = {} THEN in
      ELSE Excepted(CHOOSE e \in find_exception(p, b.class) : TRUE)

-----------------------------------------------------------------------------
(* derive_cadence *)

\* Step 1.  A floor that the ceiling does not cover is refused, never granted.
InBounds(in) ==
  /\ in.ceiling \in 1 .. MaxRate
  /\ in.floor <= in.ceiling /\ in.min <= in.ceiling
  /\ in.min <= MaxRate /\ in.requested <= MaxRate
  /\ in.share <= Ppm
  /\ in.quantum \in 1 .. MaxQuantum
  /\ in.window \in MinWindow .. MaxWindow
  /\ in.burst <= MaxBurst /\ in.flowBurst <= MaxBurst
  /\ in.packets <= MaxPackets /\ in.flowPackets <= MaxPackets
  /\ in.hint <= NanosPerSecond

\* Step 2.  An absolute rate, or a share of the ceiling.
Asked(in) ==
  IF in.requested # 0 THEN in.requested ELSE mul_div_floor(in.ceiling, in.share, Ppm)

\* Variant: the floor is applied first and the ceiling is not asked again.
ClampedLast(in, asked) == Larger(asked, Larger(in.floor, in.min))
Clamped(in, asked) == Larger(Smaller(asked, in.ceiling), Larger(in.floor, in.min))

\* Variant: rounded down.
derive_interval_down(quantum, rate) ==
  IF mul(quantum, ByteTicks) = Fails THEN Fails
  ELSE mul_div_floor(mul(quantum, ByteTicks), 1, rate)
\* The least number of ticks in which a quantum does not exceed the rate.
derive_interval_ns(quantum, rate) ==
  IF quantum = 0 \/ rate = 0 \/ mul(quantum, ByteTicks) = Fails THEN Fails
  ELSE mul_div_ceil(mul(quantum, ByteTicks), 1, rate)

\* Variant: the denser of the two.
DenserByHint(interval, hinted) == Smaller(interval, hinted)
Sparser(interval, hinted) == Larger(interval, hinted)

\* Step 3.  A hint spreads that many grants over the window.
Interval(in, rate) ==
  LET interval == derive_interval_ns(in.quantum, rate)
      hinted == mul_div_ceil(in.window, 1, in.hint)
  IN  IF interval = Fails THEN Fails
      ELSE IF in.shape # "windowed" \/ in.hint = 0 THEN interval
      ELSE IF hinted = Fails THEN Fails
      ELSE Sparser(interval, hinted)

\* Variant: the larger of the two bounds.
TightenedToLarger(own, flow) == Larger(own, flow)
\* Step 5.  The flow may only tighten what the policy allows.
Tightened(own, flow) == IF flow # 0 /\ (own = 0 \/ flow < own) THEN flow ELSE own

burst_capacity_bytes(rate, horizon) ==
  IF rate = 0 THEN 0
  ELSE IF mul(rate, horizon) = Fails THEN Fails
  ELSE mul_div_floor(mul(rate, horizon), 1, ByteTicks)

effective_rate_bps(c) ==
  IF mul(c.bytes, ByteTicks) = Fails THEN Fails
  ELSE mul_div_floor(mul(c.bytes, ByteTicks), 1, c.window)

Refused(why) == [code |-> why]

\* Step 6.
validate_cadence(c) ==
  IF c.rate \notin 1 .. MaxRate THEN "OutOfRange"
  ELSE IF 0 \in {c.quantum, c.interval, c.window, c.burst, c.packets} THEN "InvalidArgument"
  ELSE IF c.burst > MaxBurst \/ c.packets > MaxPackets THEN "BurstExceedsBound"
  ELSE IF mul(c.grants, c.quantum) = Fails THEN "ArithmeticOverflow"
  ELSE IF mul(c.grants, c.quantum) # c.bytes THEN "InvalidState"
  ELSE IF effective_rate_bps(c) = Fails THEN "ArithmeticOverflow"
  ELSE IF effective_rate_bps(c) > c.rate THEN "CeilingExceeded"
  ELSE "Ok"

Checked(in, c) ==
  IF validate_cadence(c) # "Ok" THEN Refused(validate_cadence(c))
  ELSE IF effective_rate_bps(c) > in.ceiling THEN Refused("CeilingExceeded")
  ELSE [code |-> "Ok", cadence |-> c]

derive_cadence(in) ==
  LET asked    == Asked(in)
      rate     == Clamped(in, asked)
      interval == Interval(in, rate)
      grants   == in.window \div interval
      bytes    == mul(grants, in.quantum)
      burst    == Overrides(in.quantum, Tightened(in.burst, in.flowBurst))
      packets  == Overrides(1, Tightened(in.packets, in.flowPackets))
      depth    == burst_capacity_bytes(rate, Horizon)
  IN  IF ~InBounds(in) THEN Refused("OutOfRange")
      ELSE IF asked = Fails THEN Refused("ArithmeticOverflow")
      ELSE IF rate \notin 1 .. MaxRate THEN Refused("OutOfRange")
      ELSE IF interval = Fails THEN Refused("ArithmeticOverflow")
      ELSE IF interval \notin 1 .. MaxInterval THEN Refused("OutOfRange")
      ELSE IF bytes = Fails THEN Refused("ArithmeticOverflow")
      ELSE IF burst < in.quantum THEN Refused("InvalidArgument")
      ELSE IF burst > MaxBurst \/ packets > MaxPackets THEN Refused("BurstExceedsBound")
      ELSE IF in.shape = "token-bucket" /\ depth = Fails THEN Refused("ArithmeticOverflow")
      ELSE IF in.shape = "token-bucket" /\ burst > depth THEN Refused("BurstExceedsBound")
      ELSE Checked(in, [rate |-> rate, quantum |-> in.quantum, interval |-> interval,
                        window |-> in.window, grants |-> grants, bytes |-> bytes,
                        burst |-> burst, packets |-> packets])

-----------------------------------------------------------------------------
(* derive_envelope_internal: the expiry *)

\* Variant: the grant does not shorten the envelope.
ExpiryOfLifetime(g, t) == add(t, Smaller(Lifetime, MaxLifetime))
\* The lifetime is capped, and again by the end of the grant (0: it has none).
Expiry(g, t) ==
  LET latest == add(t, Smaller(Lifetime, MaxLifetime))
  IN  IF latest # Fails /\ g.until # 0 THEN Smaller(latest, g.until) ELSE latest

Envelope(c, expiry) ==
  IF c.code # "Ok" THEN c
  ELSE IF expiry = Fails THEN Refused("ArithmeticOverflow")
  ELSE IF expiry <= now THEN Refused("StaleRateGrant")
  ELSE [code |-> "Ok", cadence |-> c.cadence, expiry |-> expiry]

-----------------------------------------------------------------------------
(* The operations *)

publish_policy(p) ==
  /\ policy = None
  /\ validate_policy(p)
  /\ policy' = p
  /\ UNCHANGED <<grant, binding, now, outcome>>

derive_envelope ==
  /\ policy # None /\ outcome = None
  /\ outcome' = Envelope(derive_cadence(DerivationInput(policy, grant, binding)),
                         Expiry(grant, now))
  /\ UNCHANGED <<policy, grant, binding, now>>

Init ==
  /\ policy = None /\ outcome = None
  /\ grant \in Grants /\ binding \in Bindings /\ now \in Instants

Next == (\E p \in Policies : publish_policy(p)) \/ derive_envelope

Spec == Init /\ [][Next]_vars

-----------------------------------------------------------------------------
(* Properties *)

Derived == outcome # None /\ outcome.code = "Ok"
Paced   == outcome.cadence

\* One quantum per interval is never more than the grant authorizes, over any stretch
\* of time: whatever was rounded, clamped, shared, hinted or raised by an exception.
PacedWithinCeiling ==
  Derived => Paced.quantum * ByteTicks <= grant.ceiling * Paced.interval

\* The rate that is paced covers the floor of the grant, of the policy and of the
\* exception for the class of the flow; otherwise the derivation is refused.
FloorsAreCovered ==
  Derived =>
    /\ Paced.rate >= grant.floor /\ Paced.rate >= policy.min
    /\ \A e \in ExceptionsOf(policy) : e.class = binding.class => Paced.rate >= e.min

\* Rounding costs less than a tick per quantum: without a hint, the next denser
\* interval would exceed the rate.  With one, a window carries no more quanta than it
\* says; and never more bytes than the rate has room for.
IntervalIsTight ==
  Derived =>
    /\ policy.shape # "windowed" \/ policy.hint = 0 =>
         (Paced.interval - 1) * Paced.rate < Paced.quantum * ByteTicks
    /\ policy.shape = "windowed" /\ policy.hint # 0 => Paced.grants <= policy.hint
    /\ Paced.bytes * ByteTicks <= Paced.rate * Paced.window

\* No policy and no exception lets a flow burst more than it declared, nor a token
\* bucket fill deeper than its rate does within the horizon.
BurstIsBounded ==
  Derived =>
    /\ Paced.burst >= Paced.quantum
    /\ binding.burst # 0 => Paced.burst <= binding.burst
    /\ binding.packets # 0 => Paced.packets <= binding.packets
    /\ policy.shape = "token-bucket" => Paced.burst * ByteTicks <= Paced.rate * Horizon

\* The checks at the end of derive_cadence find nothing that the steps before did
\* wrong; only an overflow is left for them.
RecheckFindsNothing ==
  outcome # None => outcome.code \notin {"InvalidState", "CeilingExceeded"}

\* An envelope is valid when it is derived, neither longer than the longest lifetime
\* nor longer than the grant, and no instant of it wraps.
ExpiresWithGrant ==
  Derived =>
    /\ outcome.expiry \in Word /\ outcome.expiry > now /\ outcome.expiry - now <= MaxLifetime
    /\ grant.until # 0 => outcome.expiry <= grant.until

\* The long division of checked.hpp is exact, or it fails because the quotient does
\* not fit; the ceiling of the grant and its complement stand for the first factor.
MulDivIsExact ==
  policy = None =>
    \A a \in {grant.ceiling, MaxWord - grant.ceiling} : \A b, d \in Word :
      mul_div_mod(a, b, d) =
        IF d = 0 \/ a * b >= d * WordSize THEN NoQuotient
        ELSE [q |-> (a * b) \div d, r |-> (a * b) % d]

=============================================================================
