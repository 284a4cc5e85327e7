---------------------------- MODULE CommandLine ----------------------------
(***************************************************************************)
(* The command line leo_exec_argv and leo_exec_script build on Windows     *)
(* from an argument vector (_append_quoted_arg, _build_cmdline), and the   *)
(* rules by which the started program splits it again                      *)
(* (CommandLineToArgvW).  A string is a sequence of characters; what       *)
(* follows tells four kinds of them apart.                                 *)
(***************************************************************************)
EXTENDS Naturals, Sequences

CONSTANTS
    MaxArg,              \* bound: characters of an argument
    MaxArgs,             \* bound: arguments
    CmdlineMax           \* LEO_EXEC_CMDLINE_MAX

ASSUME CommandLineAssumption ==
    MaxArg \in Nat /\ MaxArgs \in Nat \ {0} /\ CmdlineMax \in Nat \ {0}

Quote == "\""
Backslash == "\\"
Space == " "
Characters == {"a", Space, Quote, Backslash}
Text == Seq(Characters)

Backslashes(n) == [i \in 1 .. n |-> Backslash]

\* What step makes of the elements of s, one after the other.
Fold(step, first, s) ==
    LET acc[n \in 0 .. Len(s)] == IF n = 0 THEN first ELSE step[acc[n - 1]][s[n]]
    IN  acc[Len(s)]

-----------------------------------------------------------------------------
NeedsQuotes(arg) == arg = <<>> \/ \E i \in DOMAIN arg : arg[i] \in {Space, Quote}

\* One character of a quoted argument: backslashes wait for what follows them.
QuoteStep(acc, c) ==
    IF c = Backslash THEN [out |-> acc.out, bs |-> acc.bs + 1]
    ELSE [out |-> acc.out \o Backslashes(IF c = Quote THEN 2 * acc.bs + 1 ELSE acc.bs)
                          \o <<c>>,
          bs |-> 0]

Quotings == [out : Text, bs : Nat]
Opening == [out |-> <<Quote>>, bs |-> 0]

QuoteChars(arg) ==
    Fold([acc \in Quotings |-> [c \in Characters |-> QuoteStep(acc, c)]], Opening, arg)

\* Faulty variant: backslashes at the end are not doubled.
QuotedEndPlain(arg) ==
    IF ~NeedsQuotes(arg) THEN arg
    ELSE LET acc == QuoteChars(arg)
         IN  acc.out \o Backslashes(acc.bs) \o <<Quote>>

\* What _append_quoted_arg appends for one argument.
QuotedArg(arg) ==
    IF ~NeedsQuotes(arg) THEN arg
    ELSE LET acc == QuoteChars(arg)
         IN  acc.out \o Backslashes(2 * acc.bs) \o <<Quote>>

AppendArg(line, arg) ==
    (IF line = <<>> THEN line ELSE line \o <<Space>>) \o QuotedArg(arg)

Cmdline(argv) == Fold([line \in Text |-> [arg \in Text |-> AppendArg(line, arg)]], <<>>, argv)

\* _build_cmdline: the arguments one after the other, unless the buffer is
\* too short for them and the final zero.
BuildCmdline(argv) ==
    [ok |-> Len(Cmdline(argv)) < CmdlineMax, line |-> Cmdline(argv)]

-----------------------------------------------------------------------------
(* CommandLineToArgvW: external *)

\* Between two characters: the arguments that are complete, what there is of
\* the next one, whether the program is between two arguments, in one or
\* between quotes, and the backslashes that wait for what follows them.
Reading(args, cur, at, bs) == [args |-> args, cur |-> cur, at |-> at, bs |-> bs]

Readings ==
    [args : Seq(Text), cur : Text, at : {"between", "plain", "quoted"}, bs : Nat]

Start == Reading(<<>>, <<>>, "between", 0)

\* The backslashes belong to the argument.
Settled(p) == p.cur \o Backslashes(p.bs)

\* A character that is no space begins an argument.
Begun(p) == IF p.at = "between" THEN "plain" ELSE p.at

EndArg(p) ==
    IF p.at = "between" THEN p
    ELSE Reading(Append(p.args, Settled(p)), <<>>, "between", 0)

\* Two backslashes before a quote stand for one; one that is left escapes it.
ParseQuote(p) ==
    LET cur == p.cur \o Backslashes(p.bs \div 2)
    IN  IF p.bs % 2 = 1 THEN Reading(p.args, Append(cur, Quote), p.at, 0)
        ELSE Reading(p.args, cur, IF p.at = "quoted" THEN "plain" ELSE "quoted", 0)

ParseStep(p, c) ==
    CASE c = Backslash -> Reading(p.args, p.cur, Begun(p), p.bs + 1)
      [] c = Quote -> ParseQuote(p)
      [] c = Space /\ p.at # "quoted" -> EndArg(p)
      [] OTHER -> Reading(p.args, Append(Settled(p), c), Begun(p), 0)

Parse(p, s) == Fold([q \in Readings |-> [c \in Characters |-> ParseStep(q, c)]], p, s)

CommandLineToArgvW(line) == EndArg(Parse(Start, line)).args

-----------------------------------------------------------------------------
Args == UNION {[1 .. n -> Characters] : n \in 0 .. MaxArg}
ArgVectors == UNION {[1 .. n -> Args] : n \in 1 .. MaxArgs}

\* What _build_cmdline accepts splits into the vector it was built from.
RoundTrips ==
    \A argv \in ArgVectors :
        LET b == BuildCmdline(argv)
        IN  b.ok => CommandLineToArgvW(b.line) = argv
=============================================================================
