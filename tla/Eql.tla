--------------------------------- MODULE Eql ---------------------------------
(***************************************************************************)
(* The text of EQL statements: what the methods of sdk.rs format and what  *)
(* eql/parser.rs makes of it with eql/grammar.pest.  A text is a sequence  *)
(* of words, blanks and line breaks.  The grammar skips blanks between     *)
(* words and never a line break; parse() first trims both off the two      *)
(* ends.  A payload runs to the end of the line, whatever words it holds.  *)
(*                                                                         *)
(* Letters are not modelled: keywords and tiers are in capitals, every     *)
(* keyword is followed by a blank, a vector is a word.  An id argument is  *)
(* one word with spaces around it.                                         *)
(***************************************************************************)
EXTENDS Subsequence, SequencesExt

CONSTANTS
    IdWords,      \* words that the rule id accepts and nothing else does
    OtherWords,   \* words that the rule id refuses
    Blank, NewLine,
    Refused,      \* ParseError
    MaxPayload    \* bound: words and spaces of a payload argument

Keywords ==
    {"WRITE", "TIER", "READ", "LIST", "DELETE", "AUDIT", "EMBED", "AUTO",
     "SEARCH", "LIMIT", "SIMILARITY"}
TierWords == {"CRITICAL", "PERSONAL", "NOISE"}
NumberWords == {"1"}
VectorWords == {"[1.0]"}

Spaces == {Blank, NewLine}

(* The rule id: a keyword, a tier or a number is an id as well.            *)
id_words == IdWords \cup Keywords \cup TierWords \cup NumberWords

AllWords == id_words \cup OtherWords \cup VectorWords

ASSUME WordsAssumption ==
    /\ Blank # NewLine
    /\ Spaces \cap AllWords = {}
    /\ (OtherWords \cup VectorWords) \cap id_words = {}
    /\ MaxPayload \in Nat

-----------------------------------------------------------------------------
(* eql/parser.rs                                                           *)

\* Mutant: the text is parsed as it comes.
untrimmed(text) == text

(* input.trim()                                                            *)
trim(text) ==
    LET kept == {n \in 1..Len(text) : text[n] \notin Spaces}
    IN  IF kept = {} THEN <<>> ELSE SubSeq(text, Min(kept), Max(kept))

(* Where each word of a text is.  A line break counts as one, and as no    *)
(* rule takes it for a word, it ends every statement it is found in.       *)
Places(text) == InOrder({n \in 1..Len(text) : text[n] # Blank})

Words(text) == [n \in DOMAIN Places(text) |-> text[Places(text)[n]]]

Fits(words, rule) ==
    Len(words) = Len(rule) /\ \A n \in 1..Len(rule) : words[n] \in rule[n]

(* The payload takes what follows, the words AUTO EMBED included: the      *)
(* suffix that write_stmt allows after it never matches.                   *)
write_stmt(text, words) ==
    LET line == SubSeq(text, Places(text)[5], Len(text))
    IN  IF /\ Len(words) > 4
           /\ Fits(SubSeq(words, 1, 4),
                   <<{"WRITE"}, id_words, {"TIER"}, TierWords>>)
           /\ \A n \in 1..Len(line) : line[n] # NewLine
        THEN {[stmt |-> "Write", id |-> words[2], tier |-> words[4],
               payload |-> line, auto_embed |-> FALSE]}
        ELSE {}

(* READ id, DELETE id                                                      *)
id_stmt(stmt, keyword, words) ==
    IF Fits(words, <<{keyword}, id_words>>)
    THEN {[stmt |-> stmt, id |-> words[2]]} ELSE {}

auto_embed_stmt(words) ==
    IF Fits(words, <<{"AUTO"}, {"EMBED"}, id_words>>)
    THEN {[stmt |-> "AutoEmbed", id |-> words[3]]} ELSE {}

list_stmt(words) ==
    CASE Fits(words, <<{"LIST"}>>) -> {[stmt |-> "List", tier |-> {}]}
      [] Fits(words, <<{"LIST"}, {"TIER"}, TierWords>>) ->
             {[stmt |-> "List", tier |-> {words[3]}]}
      [] OTHER -> {}

audit_stmt(words) ==
    CASE Fits(words, <<{"AUDIT"}>>) -> {[stmt |-> "Audit", id |-> {}]}
      [] Fits(words, <<{"AUDIT"}, id_words>>) ->
             {[stmt |-> "Audit", id |-> {words[2]}]}
      [] OTHER -> {}

embed_stmt(words) ==
    IF Fits(words, <<{"EMBED"}, id_words, VectorWords>>)
    THEN {[stmt |-> "Embed", id |-> words[2], vector |-> words[3]]} ELSE {}

search_stmt(words) ==
    LET rule == <<{"SEARCH"}, VectorWords, {"LIMIT"}, NumberWords>>
        limit == rule \o <<{"SIMILARITY"}, {">"}, NumberWords>>
    IN  IF Fits(words, rule) \/ Fits(words, limit)
        THEN {[stmt |-> "Search", vector |-> words[2], k |-> words[4]]} ELSE {}

(* The rules of statement begin with different words: one fits at most.    *)
statements(text) ==
    LET words == Words(text)
    IN  UNION {write_stmt(text, words), id_stmt("Read", "READ", words),
               list_stmt(words), id_stmt("Delete", "DELETE", words),
               audit_stmt(words), embed_stmt(words), search_stmt(words),
               auto_embed_stmt(words)}

parse(text) ==
    LET found == statements(trim(text))
    IN  IF found = {} THEN Refused ELSE CHOOSE statement \in found : TRUE

-----------------------------------------------------------------------------
(* What EdisonDB's write, read and delete format.                          *)

sdk_write(id, tier, payload) ==
    <<"WRITE", Blank>> \o id \o <<Blank, "TIER", Blank, tier, Blank>>
                       \o payload
sdk_read(id) == <<"READ", Blank>> \o id
sdk_delete(id) == <<"DELETE", Blank>> \o id

Around == {<<>>, <<Blank>>, <<NewLine>>}
PayloadWords == OtherWords \cup {"AUTO", "EMBED", Blank, NewLine}

(* A payload without the blanks before it and the spaces after it.         *)
Stripped(payload) ==
    LET starts == {n \in 1..Len(payload) : payload[n] # Blank}
        ends == {n \in 1..Len(payload) : payload[n] \notin Spaces}
    IN  IF ends = {} THEN <<>>
        ELSE SubSeq(payload, Min(starts), Max(ends))

Broken(text) == \E n \in 1..Len(text) : text[n] = NewLine
OneLine(text) == text # <<>> /\ ~Broken(text)

(* A write that is taken stores, under the id and tier given, the payload  *)
(* without outer blanks and trailing line breaks; words in it, those of    *)
(* EQL too, change nothing.  It is refused when nothing or more than one   *)
(* line would be left, or the id has a line break.  read() and delete()    *)
(* with the same id argument then name the record that was written.        *)
StatementsKeepText ==
    \A word \in IdWords \cup {"TIER"}, before, after \in Around :
        LET id == before \o <<word>> \o after IN
        /\ \A tier \in TierWords,
             payload \in BoundedSeq(PayloadWords, MaxPayload) :
              LET kept == Stripped(payload) IN
              parse(sdk_write(id, tier, payload)) =
                  IF Broken(id) \/ ~OneLine(kept)
                  THEN Refused
                  ELSE [stmt |-> "Write", id |-> word, tier |-> tier,
                        payload |-> kept, auto_embed |-> FALSE]
        /\ ~Broken(id) =>
              /\ parse(sdk_read(id)) = [stmt |-> "Read", id |-> word]
              /\ parse(sdk_delete(id)) = [stmt |-> "Delete", id |-> word]
=============================================================================
