-------------------------------- MODULE ThinkTags --------------------------------
(* The parser that separates thinking from text in the content of a provider that   *)
(* marks it with <think> and </think>. Content arrives in chunks of any length, and *)
(* what could be the beginning of a tag waits in a buffer.                          *)
(*                                                                                  *)
(* A character is "<", "/", ">", the word of the tags, or any other.                *)
EXTENDS Naturals, Sequences, SequencesExt, FiniteSetsExt

CONSTANTS
  MaxInput                  \* bound: the characters a provider sends

ASSUME TagsAssumption == MaxInput \in Nat

VARIABLES
  tags,                     \* the parser: _buffer, _in_think_tag, and the chunks it has
                            \* given, character by character with their type
  input,                    \* history: what it was fed
  ended                     \* it has been flushed

tagVars == <<tags, input, ended>>

Characters == {"<", "/", ">", "think", "x"}

OpenTag == <<"<", "think", ">">>

CloseTag == <<"<", "/", "think", ">">>

TagAt(tag, content, n) ==
  n + Len(tag) - 1 =< Len(content) /\ SubSeq(content, n, n + Len(tag) - 1) = tag

-----------------------------------------------------------------------------------
(* The parser *)

Typed(content, thinking) == [n \in DOMAIN content |-> [char |-> content[n], thinking |-> thinking]]

\* The first count characters of the buffer are given, the next dropped ones, a tag,
\* are not; thinking is what holds behind it.
Emit(p, count, dropped, thinking) ==
  [buffer |-> SubSeq(p.buffer, count + dropped + 1, Len(p.buffer)),
   thinking |-> thinking,
   out |-> p.out \o Typed(SubSeq(p.buffer, 1, count), p.thinking)]

\* 0 when there is none
FirstOf(tag, buffer) ==
  LET places == {n \in DOMAIN buffer : TagAt(tag, buffer, n)}
  IN  IF places = {} THEN 0 ELSE Min(places)

LastBracket(buffer) == Max({n \in DOMAIN buffer : buffer[n] = "<"} \cup {0})

\* Mutant of Begins: outside of a thought only its beginning is waited for.
BeginsThought(rest, thinking) ==
  \E tag \in IF thinking THEN {CloseTag} ELSE {OpenTag} : Len(rest) < Len(tag) /\ IsPrefix(rest, tag)

Begins(rest, thinking) ==
  \E tag \in IF thinking THEN {CloseTag} ELSE {OpenTag, CloseTag} :
    Len(rest) < Len(tag) /\ IsPrefix(rest, tag)

\* Without a tag, everything goes but what could still become one.
ReleaseUntagged(p) ==
  LET last == LastBracket(p.buffer)
      rest == SubSeq(p.buffer, last, Len(p.buffer))
  IN  IF last # 0 /\ Begins(rest, p.thinking) THEN Emit(p, last - 1, 0, p.thinking)
      ELSE Emit(p, Len(p.buffer), 0, p.thinking)

\* A closing tag outside of a thought is dropped like one that ends it.
Parse(p) ==
  LET start == IF p.thinking THEN 0 ELSE FirstOf(OpenTag, p.buffer)
      close == FirstOf(CloseTag, p.buffer)
  IN  IF close # 0 /\ (start = 0 \/ close < start)
        THEN Emit(p, close - 1, Len(CloseTag), FALSE)
      ELSE IF start # 0
        THEN Emit(p, start - 1, Len(OpenTag), TRUE)
      ELSE ReleaseUntagged(p)

\* Parsing goes on until it changes nothing.
Fed(p, content) ==
  LET whole == [p EXCEPT !.buffer = @ \o content]
      parsed[n \in 0..Len(whole.buffer) + 1] == IF n = 0 THEN whole ELSE Parse(parsed[n - 1])
  IN  parsed[Len(whole.buffer) + 1]

TagsInit ==
  /\ tags = [buffer |-> <<>>, thinking |-> FALSE, out |-> <<>>]
  /\ input = <<>>
  /\ ended = FALSE

Feed(content) ==
  /\ tags' = Fed(tags, content)
  /\ input' = input \o content
  /\ UNCHANGED ended

\* What still waits when the stream ends was no tag.
FlushTags ==
  /\ tags' = Emit(tags, Len(tags.buffer), 0, tags.thinking)
  /\ ended' = TRUE
  /\ UNCHANGED input

TagsNext ==
  /\ ~ended
  /\ \/ \E n \in 1..MaxInput - Len(input) : \E content \in [1..n -> Characters] : Feed(content)
     \/ FlushTags

-----------------------------------------------------------------------------------
(* Properties *)

\* What content means, read character by character from its first to its last: a tag
\* is recognized where it begins, and its characters are skipped.
At(thinking, skip, out) == [thinking |-> thinking, skip |-> skip, out |-> out]

NewReading == At(FALSE, 0, <<>>)

Read(r, content, n) ==
  IF r.skip > 0 THEN At(r.thinking, r.skip - 1, r.out)
  ELSE IF TagAt(CloseTag, content, n) THEN At(FALSE, Len(CloseTag) - 1, r.out)
  ELSE IF ~r.thinking /\ TagAt(OpenTag, content, n) THEN At(TRUE, Len(OpenTag) - 1, r.out)
  ELSE At(r.thinking, 0, Append(r.out, [char |-> content[n], thinking |-> r.thinking]))

Reading(content) ==
  LET after[n \in 0..Len(content)] ==
        IF n = 0 THEN NewReading ELSE Read(after[n - 1], content, n)
  IN  after

Meaning(content) == Reading(content)[Len(content)].out

\* However content is cut into chunks, the parser gives the text and the thinking the
\* whole content has, and never keeps back more than the beginning of one tag.
ChunksDoNotMatter ==
  /\ tags.out \o Typed(tags.buffer, tags.thinking) = Meaning(input)
  /\ Len(tags.buffer) < Len(CloseTag)
  /\ ended => tags.buffer = <<>>

TagsSpec == TagsInit /\ [][TagsNext]_tagVars
=============================================================================
