------------------------------ MODULE Issuance ------------------------------
(***************************************************************************)
(* The issuance schedule of consensus/issuance.hpp: the reward of a height *)
(* and the totals the supply cap is stated with.                           *)
(***************************************************************************)
EXTENDS Integers

Numerator == 7      \* REWARD_RETENTION_NUMERATOR
Denominator == 8    \* REWARD_RETENTION_DENOMINATOR

\* One era's retention; zero is final.
Retained(reward) == IF reward <= 0 THEN 0 ELSE (reward * Numerator) \div Denominator

\* The reward of an era: retention applied once for every era before it.
EraReward(params, last) ==
    LET reward[era \in 0..last] ==
            IF era = 0 THEN params.initial_reward ELSE Retained(reward[era - 1])
    IN  IF reward[last] > 0 THEN reward[last] ELSE 0

EraOfHeight(height, params) ==
    IF params.era_blocks = 0 THEN 0 ELSE height \div params.era_blocks

\* Mutant: the era that starts at a boundary is the one before it.
BlockRewardLate(height, params) ==
    IF params.era_blocks = 0 THEN 0
    ELSE EraReward(params, EraOfHeight(IF height = 0 THEN 0 ELSE height - 1, params))
BlockReward(height, params) ==
    IF params.era_blocks = 0 THEN 0 ELSE EraReward(params, EraOfHeight(height, params))

\* Retention takes at least one facet off a positive reward, so no reward lasts
\* for more eras than this.
MaxEras(params) == params.initial_reward + 1

EraCountWithReward(params) ==
    IF params.era_blocks = 0 \/ params.initial_reward <= 0 THEN 0
    ELSE CHOOSE n \in 1..MaxEras(params) :
            EraReward(params, n) = 0 /\ EraReward(params, n - 1) > 0

IssuanceEndHeight(params) == EraCountWithReward(params) * params.era_blocks

TotalIssuance(params) ==
    LET total[n \in 0..MaxEras(params)] ==
            IF n = 0 THEN 0
            ELSE total[n - 1] + EraReward(params, n - 1) * params.era_blocks
    IN  IF params.initial_reward <= 0 THEN 0 ELSE total[MaxEras(params)]
=============================================================================
