----------------------------- MODULE AuditTime -----------------------------
(***************************************************************************)
(* The timestamps of the audit database (internal/audit): times are kept   *)
(* and compared as text.  RFC3339Nano leaves out the trailing zeros of the *)
(* fraction, and the dot with the last of them.                            *)
(*                                                                         *)
(* A second has two digits of fraction here, in base Base.  The text up to *)
(* the second has a fixed width and is ordered as the number; the rest is  *)
(* ordered as ASCII has it: the dot, the digits, the Z.                    *)
(***************************************************************************)
EXTENDS Naturals, Sequences

CONSTANT Base

ASSUME AuditTimeAssumption == Base \in Nat \ {0, 1}

Second == Base * Base
SecondOf(t) == t \div Second

Dot == 0
Digit(d) == 1 + d
Zed == 1 + Base

RFC3339Nano(t) ==
    LET tenths == (t % Second) \div Base
        rest == t % Base
    IN  <<SecondOf(t)>> \o (CASE rest # 0 -> <<Dot, Digit(tenths), Digit(rest), Zed>>
                              [] rest = 0 /\ tenths # 0 -> <<Dot, Digit(tenths), Zed>>
                              [] OTHER -> <<Zed>>)

bucketBoundaryLayout(t) ==
    <<SecondOf(t), Dot, Digit((t % Second) \div Base), Digit(t % Base), Zed>>

(* The text a comes before the text b; neither is a prefix of the other.   *)
TextBefore(a, b) ==
    \E k \in DOMAIN a \cap DOMAIN b : a[k] < b[k] /\ \A j \in 1..(k - 1) : a[j] = b[j]

Before(t, u) == TextBefore(RFC3339Nano(t), RFC3339Nano(u))
=============================================================================
