---------------------------- MODULE CommandSyntax ----------------------------
(***************************************************************************)
(* The words of a command line and what each command makes of them.  Every *)
(* command has a table of options; one pass over the words takes each      *)
(* option and, when it has one, the word after it, whatever that word is.  *)
(*                                                                         *)
(* A word is a string; what a word means as a number, a size or a target   *)
(* is given by constants, whose domains are the words that are well formed.*)
(***************************************************************************)
EXTENDS Naturals, Sequences, FiniteSets, Functions, TLC

CONSTANTS
    NoWord,      \* where a line has no word
    Dashed,      \* the words that begin with "--"
    NumberOf,    \* what a word is as a whole number
    ViewportOf,  \* ... as WIDTHxHEIGHT
    TargetOf     \* ... as name=selector

\* How often an option may be given, and what its value must be.
\*   once: a second one is an error, and so is a missing value;
\*   last: a missing or malformed value is an error, the last value stands;
\*   many: as last, and every value is kept;
\*   loose: the last one stands, even if its value is missing;
\*   switch: takes no value.
Option(rule, kind) == [rule |-> rule, kind |-> kind]
Once == Option("once", "text")
Switch == Option("switch", "none")
AllOnce(options) == [o \in options |-> Once]
OnceOr(switch, options) == [o \in options \cup {switch} |-> IF o = switch THEN Switch ELSE Once]

ObserveOptions ==
    [o \in {"--targets-file", "--scroll-scenario-file", "--state-file", "--url",
            "--output", "--viewport", "--target", "--timeout"} |->
        CASE o \in {"--url", "--output"} -> Option("loose", "text")
          [] o = "--viewport" -> Option("last", "viewport")
          [] o = "--target" -> Option("many", "target")
          [] o = "--timeout" -> Option("last", "number")
          [] OTHER -> Once]

InitOptions ==
    [o \in {"--targets-file", "--url", "--viewport", "--target", "--default-baseline",
            "--replace"} |->
        CASE o = "--url" -> Option("loose", "text")
          [] o = "--viewport" -> Option("last", "viewport")
          [] o = "--target" -> Option("many", "target")
          [] o = "--default-baseline" -> Option("last", "text")
          [] o = "--replace" -> Switch
          [] OTHER -> Once]

CompareOptions == AllOnce({"--before", "--after", "--output", "--config-file"})

ApproveBaselineOptions == AllOnce({"--observation", "--contract-file", "--output"})

SaveChangeContractOptions == AllOnce({"--contract-file", "--output"})

EvaluateContractOptions ==
    OnceOr("--enforce", {"--before", "--after", "--comparison", "--baseline",
                         "--change", "--output"})

ImportReferenceOptions ==
    AllOnce({"--output", "--label", "--supersedes", "--regions-file",
             "--requirements-file", "--applicability-file"})

ApproveReferenceOptions == AllOnce({"--reference", "--output", "--supersedes"})

EvaluateReferenceFidelityOptions ==
    OnceOr("--enforce", {"--reference", "--candidate", "--bindings-file"})

ViewOptions ==
    [o \in {"--root", "--bindings-file", "--context-file", "--port", "--no-open"} |->
        CASE o = "--port" -> Option("once", "port")
          [] o = "--no-open" -> Switch
          [] OTHER -> Once]

OptionsOf == [c \in {"observe", "init", "compare", "approve-baseline",
                     "save-change-contract", "evaluate-contract",
                     "import-reference", "approve-reference",
                     "evaluate-reference-fidelity", "view"} |->
    CASE c = "observe" -> ObserveOptions
      [] c = "init" -> InitOptions
      [] c = "compare" -> CompareOptions
      [] c = "approve-baseline" -> ApproveBaselineOptions
      [] c = "save-change-contract" -> SaveChangeContractOptions
      [] c = "evaluate-contract" -> EvaluateContractOptions
      [] c = "import-reference" -> ImportReferenceOptions
      [] c = "approve-reference" -> ApproveReferenceOptions
      [] c = "evaluate-reference-fidelity" -> EvaluateReferenceFidelityOptions
      [] c = "view" -> ViewOptions]

\* The options a command cannot do without.
RequiredOf == [c \in DOMAIN OptionsOf |->
    CASE c \in {"observe", "init"} -> {"--url"}
      [] c = "compare" -> {"--before", "--after", "--output"}
      [] c = "evaluate-contract" -> DOMAIN EvaluateContractOptions \ {"--enforce"}
      [] c \in {"approve-baseline", "save-change-contract"} -> DOMAIN OptionsOf[c]
      [] c = "import-reference" -> {"--output"}
      [] c = "approve-reference" -> {"--reference", "--output"}
      [] c = "evaluate-reference-fidelity" -> {"--reference", "--candidate"}
      [] c = "view" -> {}]

\* capture and check sort their words instead of reading them in order: the
\* switches a command knows, and how many other words it may have.
SwitchOf == [c \in {"capture", "check"} |->
                IF c = "capture" THEN "--replace" ELSE "--json"]
Commands == DOMAIN OptionsOf \cup DOMAIN SwitchOf

-----------------------------------------------------------------------------
WellFormed(kind, word) ==
    CASE kind = "text" -> TRUE
      [] kind = "viewport" -> word \in DOMAIN ViewportOf
      [] kind = "target" -> word \in DOMAIN TargetOf
      [] kind = "number" -> word \in DOMAIN NumberOf
      [] kind = "port" -> word \in DOMAIN NumberOf /\ NumberOf[word] \in 0..65535

TakesValue(options, word) ==
    word \in DOMAIN options /\ options[word].rule # "switch"

\* What has been read: the values kept of each option, how often it occurred,
\* the image of import-reference, and whether anything was wrong.  `taken`:
\* the word last read was the value of the option before it.
Unread(options) ==
    [wrong |-> FALSE, taken |-> FALSE, image |-> NoWord,
     kept |-> [o \in DOMAIN options |-> <<>>],
     seen |-> [o \in DOMAIN options |-> 0]]

\* A mistake: a second value silently replaces the first.
TakeOptionAgain(r, option, o, hasValue, value) ==
    LET good == hasValue /\ WellFormed(option.kind, value)
    IN  [r EXCEPT !.wrong = @ \/ (option.rule \notin {"switch", "loose"} /\ ~ good),
                  !.taken = option.rule # "switch",
                  !.kept[o] = IF option.rule = "switch" THEN <<TRUE>>
                              ELSE IF good THEN <<value>> ELSE @,
                  !.seen[o] = @ + 1]

\* The option o with the word after it, or with none at the end of the line.
TakeOption(r, option, o, hasValue, value) ==
    LET good == hasValue /\ WellFormed(option.kind, value)
        again == option.rule = "once" /\ r.seen[o] > 0
        refused == option.rule \notin {"switch", "loose"} /\ (~ good \/ again)
        kept == CASE option.rule = "switch" -> <<TRUE>>
                  [] option.rule = "loose" -> IF hasValue THEN <<value>> ELSE <<>>
                  [] refused -> r.kept[o]
                  [] option.rule = "many" /\ ~ refused -> Append(r.kept[o], value)
                  [] option.rule \in {"once", "last"} /\ ~ refused -> <<value>>
    IN  [r EXCEPT !.wrong = @ \/ refused,
                  !.taken = option.rule # "switch",
                  !.kept[o] = kept,
                  !.seen[o] = @ + 1]

\* A word that is no option: the image of import-reference, once.
TakeWord(r, command, word) ==
    IF command = "import-reference" /\ word \notin Dashed /\ r.image = NoWord
    THEN [r EXCEPT !.image = word]
    ELSE [r EXCEPT !.wrong = TRUE]

\* The i-th word: the value of the option before it, an option, or neither.
ReadWord(command, words, i, r) ==
    LET options == OptionsOf[command]
        next == IF i < Len(words) THEN words[i + 1] ELSE NoWord
    IN  IF r.taken THEN [r EXCEPT !.taken = FALSE]
        ELSE IF words[i] \in DOMAIN options
        THEN TakeOption(r, options[words[i]], words[i], i < Len(words), next)
        ELSE TakeWord(r, command, words[i])

ReadWords(command, words) ==
    LET upto[i \in 0..Len(words)] ==
            IF i = 0 THEN Unread(OptionsOf[command])
            ELSE ReadWord(command, words, i, upto[i - 1])
    IN  upto[Len(words)]

Refused == [answer |-> "refused"]
Help == [answer |-> "help"]
Accepted(kept, image) == [answer |-> "accepted", kept |-> kept, image |-> image]

ParseOptions(command, words) ==
    LET r == ReadWords(command, words)
        missing == \E o \in RequiredOf[command] : r.kept[o] = <<>>
        noImage == command = "import-reference" /\ r.image = NoWord
        mixed == /\ {"--target", "--targets-file"} \subseteq DOMAIN r.kept
                 /\ r.kept["--target"] # <<>> /\ r.kept["--targets-file"] # <<>>
    IN  IF r.wrong \/ missing \/ noImage \/ mixed THEN Refused
        ELSE Accepted(r.kept, r.image)

Words(words, set) == SelectSeq(words, LAMBDA w : w \in set)
Others(words) == SelectSeq(words, LAMBDA w : w \notin Dashed)

ParseCapture(words) ==
    IF Len(Others(words)) # 1 \/ Range(Words(words, Dashed)) \ {"--replace"} # {}
    THEN Refused
    ELSE Accepted("--replace" :> Words(words, {"--replace"}), Others(words)[1])

ParseCheck(words) ==
    IF \/ Range(Words(words, Dashed)) \ {"--json"} # {}
       \/ Len(Others(words)) > 1 \/ Len(Words(words, {"--json"})) > 1
    THEN Refused
    ELSE Accepted("--json" :> Words(words, {"--json"}),
                  IF Others(words) = <<>> THEN NoWord ELSE Others(words)[1])

\* The whole line: the command and the words after it.  `--help` anywhere
\* among them, even where a value is due, answers with the help text.
ParseLine(line) ==
    IF line = <<>> THEN Refused
    ELSE IF Head(line) \in {"--help", "-h", "--version"} THEN Help
    ELSE IF Head(line) \notin Commands THEN Refused
    ELSE IF "--help" \in Range(Tail(line)) THEN Help
    ELSE CASE Head(line) = "capture" -> ParseCapture(Tail(line))
           [] Head(line) = "check" -> ParseCheck(Tail(line))
           [] OTHER -> ParseOptions(Head(line), Tail(line))

-----------------------------------------------------------------------------
\* The same, said without reading in order.  A word is the value of the option
\* before it exactly when an odd number of options that take a value stand in
\* a row before it; otherwise it stands for itself.
IsValue(options, words, i) ==
    \E first \in 1..(i - 1) :
        /\ (i - first) % 2 = 1
        /\ \A j \in first..(i - 1) : TakesValue(options, words[j])
        /\ first = 1 \/ ~ TakesValue(options, words[first - 1])

Standing(options, words) ==
    {i \in DOMAIN words : ~ IsValue(options, words, i)}

\* What a line of words says for command c: each option by the places it
\* stands at, with the word after each of them as its value.
SaysSo(c, words, reading) ==
    LET options == OptionsOf[c]
        standing == Standing(options, words)
        places(o) == {i \in standing : words[i] = o}
        valued(i) == /\ i < Len(words)
                     /\ WellFormed(options[words[i]].kind, words[i + 1])
        last(o) == CHOOSE i \in places(o) : \A j \in places(o) : j <= i
        has(o) == /\ places(o) # {}
                  /\ options[o].rule = "loose" => valued(last(o))
        free == {i \in standing : words[i] \notin DOMAIN options}
        sound == /\ \A o \in DOMAIN options :
                        /\ options[o].rule \in {"once", "last", "many"} =>
                               \A i \in places(o) : valued(i)
                        /\ options[o].rule = "once" =>
                               \A i, j \in places(o) : i = j
                 /\ \A o \in RequiredOf[c] : has(o)
                 /\ {"--target", "--targets-file"} \subseteq DOMAIN options =>
                        ~ (has("--target") /\ has("--targets-file"))
                 /\ IF c = "import-reference"
                    THEN \E i \in free : free = {i} /\ words[i] \notin Dashed
                    ELSE free = {}
    IN  /\ (reading.answer = "accepted") <=> sound
        /\ sound => \A o \in DOMAIN options :
               /\ (reading.kept[o] # <<>>) <=> has(o)
               /\ options[o].rule = "many" =>
                      Len(reading.kept[o]) = Cardinality(places(o))
               /\ has(o) /\ options[o].rule # "switch" =>
                      reading.kept[o][Len(reading.kept[o])] = words[last(o) + 1]
        /\ sound /\ c = "import-reference" =>
               \E i \in free : reading.image = words[i]
=============================================================================
