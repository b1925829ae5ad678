----------------------------- MODULE Assembler -----------------------------
(***************************************************************************)
(* The header BuildBlockTemplate of mining/block_assembler.cpp puts on top *)
(* of a tip.  The transactions come from the pool (Node).                  *)
(***************************************************************************)
EXTENDS HeaderRules

\* AsertNextBits never leaves the targets there are: it is clamped to the floor of
\* difficulty and to the smallest target above none.
ASSUME TargetAssumption ==
    /\ PowLimit > 0
    /\ \A height \in 0..MaxHeight, time \in 0..MaxTime : AsertNextBits(height, time) \in 1..PowLimit

NoTemplate == [built |-> FALSE]

\* The clock, raised past the median but never lowered.
TemplateTime(tip, now) ==
    LET earliest == MedianTimePastAt(tip)
        lower_bound == IF earliest < MaxTime THEN earliest + 1 ELSE earliest
    IN  IF now < lower_bound THEN lower_bound ELSE now

\* The one-argument NextTargetBits, refused if it decodes to nothing.
UsableTarget(tip) ==
    (IF TrivialDifficulty THEN PowLimit ELSE AsertNextBits(Header[tip].height, Header[tip].time)) # 0

\* Mutant: the target is the one computed before the time was known.
BuildBlockTemplateEarly(tip, now) ==
    LET header == [prev |-> tip, height |-> Header[tip].height + 1, time |-> TemplateTime(tip, now),
                   bits |-> AsertNextBits(Header[tip].height, Header[tip].time)]
    IN  IF Header[tip].height # MaxHeight /\ UsableTarget(tip) /\ Follows(header, tip, now)
        THEN [built |-> TRUE, header |-> header] ELSE NoTemplate
BuildBlockTemplate(tip, now) ==
    LET time == TemplateTime(tip, now)
        header == [prev |-> tip, height |-> Header[tip].height + 1, time |-> time,
                   bits |-> NextTargetBits(tip, time)]
    IN  IF Header[tip].height # MaxHeight /\ UsableTarget(tip) /\ Follows(header, tip, now)
        THEN [built |-> TRUE, header |-> header] ELSE NoTemplate
=============================================================================
