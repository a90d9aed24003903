------------------------------ MODULE Catalogue ------------------------------
(***************************************************************************)
(* The items of the balance sheet (extractors/ma_so_200.py) and the rules  *)
(* that are shipped for it (validation/rules_bctc.yaml).                   *)
(*                                                                         *)
(* Of the names only which items share one is kept.  For them the fuzzy    *)
(* match, which takes the first of the best, finds the first in the order  *)
(* of the dictionary: Namesake.                                            *)
(***************************************************************************)
LOCAL INSTANCE Integers
LOCAL INSTANCE TLC

MA_SO_200 ==
    {100, 110, 111, 112} \cup 120 .. 123 \cup 130 .. 137 \cup
    {139, 140, 141, 149} \cup 150 .. 153 \cup {155} \cup
    {200} \cup 210 .. 216 \cup 219 .. 232 \cup 240 .. 242 \cup
    250 .. 255 \cup 260 .. 263 \cup {268, 270} \cup
    {300} \cup 310 .. 322 \cup {324} \cup 330 .. 338 \cup 341 .. 343 \cup
    {400} \cup 410 .. 422 \cup 430 .. 432 \cup {440}

Namesake ==
    141 :> 140 @@ 155 :> 150 @@ 255 :> 123 @@ 268 :> 260 @@ 400 :> 410 @@
    [c \in {225, 228, 231} |-> 222] @@ [c \in {226, 229, 232} |-> 223] @@
    [c \in MA_SO_200 |-> c]

SUBTOTAL_COMPONENTS ==
    100 :> {110, 120, 130, 140, 150} @@
    200 :> {210, 220, 230, 240, 250, 260} @@
    270 :> {100, 200} @@
    310 :> 311 .. 322 \cup {324} @@
    330 :> 331 .. 338 \cup 341 .. 343 @@
    300 :> {310, 330} @@
    410 :> 411 .. 422 @@
    430 :> {431, 432} @@
    400 :> {410, 430} @@
    440 :> {300, 400}

\* sum(components) == target, or component == target
Rule(form, components, target) ==
    [form |-> form, components |-> components, target |-> target, severity |-> "error"]

RulesBctc ==
    {Rule("sum", SUBTOTAL_COMPONENTS[c], c) : c \in {100, 200, 270, 300, 400, 440}}
    \cup {Rule("eq", {270}, 440)}
=============================================================================
