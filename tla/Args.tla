-------------------------------- MODULE Args --------------------------------
(***************************************************************************)
(* util/args.cpp: the command line of every program.  An argument is a     *)
(* sequence of symbols; "-", "=", "no-" and each digit is one, and so is a *)
(* name, a short letter or any other word.                                 *)
(***************************************************************************)
EXTENDS Integers, SequencesExt, FiniteSetsExt

CONSTANT MaxInt      \* 2^63 - 1

NoSpec == [kind |-> "none"]
TrueWords == {<<"1">>, <<"true">>}       \* of four spellings each
FalseWords == {<<"0">>, <<"false">>}

FindLong(specs, name) ==
    LET at == SelectInSeq(specs, LAMBDA s : <<s.name>> = name) IN IF at = 0 THEN NoSpec ELSE specs[at]
FindShort(specs, shorts) ==
    LET at == SelectInSeq(specs, LAMBDA s : <<s.short>> = shorts) IN IF at = 0 THEN NoSpec ELSE specs[at]

\* std::from_chars of an int64_t over the whole text.
NotNumber == [ok |-> FALSE, value |-> 0]
Value(d) == SelectInSeq(<<"0", "1", "2", "3", "4", "5", "6", "7", "8", "9">>, LAMBDA c : c = d) - 1
Ranged(size, negative) ==
    IF size > MaxInt + (IF negative THEN 1 ELSE 0) THEN NotNumber
    ELSE [ok |-> TRUE, value |-> IF negative THEN -size ELSE size]
Unsigned(digits, negative) ==
    IF digits = <<>> \/ \E i \in DOMAIN digits : Value(digits[i]) < 0 THEN NotNumber
    ELSE Ranged(FoldLeft(LAMBDA n, d : n * 10 + Value(d), 0, digits), negative)
Number64(text) ==
    IF text # <<>> /\ Head(text) = "-" THEN Unsigned(Tail(text), TRUE) ELSE Unsigned(text, FALSE)

\* Find, on what was parsed: the place of an option, 0 if it was not given.
Given(parsed, name) == SelectInSeq(parsed, LAMBDA p : p.name = name)
GetInt(parsed, name, fallback) ==
    LET at == Given(parsed, name)
        Or(number) == IF number.ok THEN number.value ELSE fallback
    IN  IF at = 0 THEN fallback ELSE Or(Number64(parsed[at].value))

-----------------------------------------------------------------------------
(* Parse.  `open` is the option whose value is the next argument.          *)

Failed == [ok |-> FALSE, ended |-> FALSE, open |-> NoSpec, parsed |-> <<>>, positional |-> <<>>]
Started == [Failed EXCEPT !.ok = TRUE]

Commit(state, spec, value) ==
    IF Given(state.parsed, spec.name) # 0 THEN Failed
    ELSE [state EXCEPT !.parsed = Append(@, [name |-> spec.name, value |-> value]), !.open = NoSpec]
CommitValue(state, spec, value) ==
    IF spec.kind = "Integer" /\ ~Number64(value).ok THEN Failed ELSE Commit(state, spec, value)

\* Mutant: the value begins after the last "=".
EqualsLast(arg) == SelectLastInSeq(arg, LAMBDA c : c = "=")
Equals(arg) == SelectInSeq(arg, LAMBDA c : c = "=")

\* The option a name stands for, and whether it was negated with "no-".
Exactly(found) == [spec |-> found, negated |-> FALSE]
LongOption(specs, name) ==
    IF FindLong(specs, name) # NoSpec \/ name = <<>> \/ Head(name) # "no-" THEN Exactly(FindLong(specs, name))
    ELSE [spec |-> FindLong(specs, Tail(name)), negated |-> TRUE]
Option(specs, token) ==
    IF Len(token) >= 2 /\ token[2] = "-" THEN LongOption(specs, SubSeq(token, 3, Len(token)))
    ELSE Exactly(FindShort(specs, SubSeq(token, 2, Len(token))))

\* `eq` is the place of the "=" in the argument, 0 if it has none.
TakeFlag(state, option, arg, eq) ==
    LET inline == SubSeq(arg, eq + 1, Len(arg))
        set == IF eq = 0 THEN ~option.negated ELSE inline \in TrueWords
    IN  IF eq # 0 /\ (option.negated \/ inline \notin TrueWords \cup FalseWords) THEN Failed
        ELSE Commit(state, option.spec, IF set THEN <<"1">> ELSE <<"0">>)
TakeFound(state, option, arg, eq) ==
    IF option.spec = NoSpec THEN Failed
    ELSE IF option.spec.kind = "Flag" THEN TakeFlag(state, option, arg, eq)
    ELSE IF option.negated THEN Failed
    ELSE IF eq = 0 THEN [state EXCEPT !.open = option.spec]
    ELSE CommitValue(state, option.spec, SubSeq(arg, eq + 1, Len(arg)))
TakeOption(specs, state, arg, eq) ==
    TakeFound(state, Option(specs, IF eq = 0 THEN arg ELSE SubSeq(arg, 1, eq - 1)), arg, eq)

Take(specs, state, arg) ==
    IF ~state.ok THEN state
    ELSE IF state.open # NoSpec THEN CommitValue(state, state.open, arg)
    ELSE IF state.ended \/ arg = <<>> \/ arg = <<"-">> \/ Head(arg) # "-"
         THEN [state EXCEPT !.positional = Append(@, arg)]
    ELSE IF arg = <<"-", "-">> THEN [state EXCEPT !.ended = TRUE]
    ELSE TakeOption(specs, state, arg, Equals(arg))

Finished(last) == IF last.ok /\ last.open = NoSpec THEN last ELSE Failed
Parse(specs, argv) == Finished(FoldLeft(LAMBDA state, arg : Take(specs, state, arg), Started, argv))
=============================================================================
