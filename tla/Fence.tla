------------------------------- MODULE Fence -------------------------------
(***************************************************************************)
(* What the model quotes of <memory-context> and <attachments>             *)
(* (snaca-engine/src/memory_fence.rs, scrub_stream_event of engine.rs).    *)
(*                                                                         *)
(* The server puts such blocks into its prompts, and removes them from     *)
(* what the model says: as the deltas of a content block arrive, cut       *)
(* anywhere (StreamingScrubber), and in one go from a transcript           *)
(* (sanitize_context).  The two are separate programs for one function.    *)
(*                                                                         *)
(* Abstracted: a text is a sequence of symbols: "<", "/", ">", " " for     *)
(* every white space after a name, and pieces of names and of other text.  *)
(* Upper and lower case are one symbol.  Content blocks share no state     *)
(* (one scrubber per index): there is one.                                 *)
(***************************************************************************)
EXTENDS Integers, Sequences, FiniteSets, SequencesExt, FiniteSetsExt

CONSTANTS
  PROTECTED_FENCES,   \* names, sequences of symbols
  Chunk,              \* what a delta can be
  MaxText             \* symbols in a content block

VARIABLES
  block,       \* the content block: not begun, open, stopped
  text,        \* history: what its deltas were together
  held,        \* StreamingScrubber: undecided ...
  inside,      \* ... and the name of the block it is in, <<>> for None
  said         \* what the listener and the accumulator got

vars == <<block, text, held, inside, said>>

TypeOK ==
  /\ block \in {"none", "open", "stopped"}
  /\ Len(text) <= MaxText /\ IsSuffix(held, text) /\ Len(said) <= Len(text)
  /\ inside \in PROTECTED_FENCES \cup {<<>>}

-----------------------------------------------------------------------------
(* Texts.                                                                  *)
Delimiter == {">", " ", "/"}
Symbol    == {"<"} \cup Delimiter \cup UNION {ToSet(w) : w \in PROTECTED_FENCES \cup Chunk}

IsAt(t, i, w) == i + Len(w) - 1 <= Len(t) /\ SubSeq(t, i, i + Len(w) - 1) = w

(* Where w is in t, not before i.                                          *)
Occurrences(t, i, w) == {k \in i .. Len(t) : IsAt(t, k, w)}

CloseOf(name) == <<"<", "/">> \o name

(* The protected names whose opening tag begins at i: the name is followed *)
(* by a delimiter.                                                         *)
OpenedAt(t, i) ==
  {n \in PROTECTED_FENCES : /\ IsAt(t, i, <<"<">> \o n)
                            /\ i + Len(n) < Len(t) /\ t[i + Len(n) + 1] \in Delimiter}

(* strip_protected_block: where a block opened at i ends, exclusive.       *)
BlockEnd(t, i, name) ==
  LET past(S)  == IF S = {} THEN Len(t) + 1 ELSE Min(S) + 1
      tagEnds  == Occurrences(t, i + Len(name) + 1, <<">">>)
      closings == Occurrences(t, past(tagEnds), CloseOf(name))
  IN IF tagEnds = {} \/ t[Min(tagEnds) - 1] = "/" THEN past(tagEnds)
     ELSE IF closings = {} THEN Len(t) + 1
     ELSE past(Occurrences(t, Min(closings) + Len(CloseOf(name)), <<">">>))

(* sanitize_context.                                                       *)
Sanitize(t) ==
  LET rest[i \in 1 .. Len(t) + 1] ==
        IF i > Len(t) THEN <<>>
        ELSE IF OpenedAt(t, i) # {}
          THEN rest[BlockEnd(t, i, CHOOSE n \in OpenedAt(t, i) : TRUE)]
        ELSE <<t[i]>> \o rest[i + 1]
  IN rest[1]

-----------------------------------------------------------------------------
(* classify_open, for a held text that begins with "<".                    *)
LongestName == Max({Len(n) : n \in PROTECTED_FENCES})

MayGrow(h) ==
  \E n \in PROTECTED_FENCES : Len(h) <= Len(n) + 1 /\ IsPrefix(Tail(h), n)

Undecided(h) ==
  /\ Len(h) < 2 \/ h[2] # "/"
  /\ \/ MayGrow(h)
     \/ OpenedAt(h, 1) # {} /\ Occurrences(h, 1, <<">">>) = {}
     \/ OpenedAt(h, 1) = {} /\ Len(h) < LongestName + 2

(* Mutant: a closing tag cut by a delta is missed.                         *)
MutOverlap(h, close) == 0

(* held_tail_overlap: how much of the end of h may begin the closing tag.  *)
Overlap(h, close) ==
  Max({k \in 0 .. Min({Len(h), Len(close) - 1}) :
         SubSeq(h, Len(h) - k + 1, Len(h)) = SubSeq(close, 1, k)})

(* The loop of push, on what is held, the block it is in, and the output:  *)
(* a round of it goes past a closing or an opening tag or a lone "<", or   *)
(* ends the loop.                                                          *)
Scrubbing(h, name, out) == [held |-> h, inside |-> name, out |-> out, ended |-> FALSE]
Scrubbed(h, name, out)  == [held |-> h, inside |-> name, out |-> out, ended |-> TRUE]

SkipBlock(s) ==
  LET h        == s.held
      close    == CloseOf(s.inside) \o <<">">>
      closings == Occurrences(h, 1, close)
      after(k) == SubSeq(h, k, Len(h))
  IN IF closings # {} THEN Scrubbing(after(Min(closings) + Len(close)), <<>>, s.out)
     ELSE Scrubbed(after(Len(h) - Overlap(h, close) + 1), s.inside, s.out)

NextTag(s) ==
  LET h       == s.held
      angles  == Occurrences(h, 1, <<"<">>)
      tag     == SubSeq(h, Min(angles), Len(h))
      before  == s.out \o SubSeq(h, 1, Min(angles) - 1)
      opened  == OpenedAt(tag, 1)
      tagEnd  == Min(Occurrences(tag, 1, <<">">>))
      rest(k) == SubSeq(tag, k, Len(tag))
  IN IF angles = {} THEN Scrubbed(<<>>, <<>>, s.out \o h)
     ELSE IF Undecided(tag) THEN Scrubbed(tag, <<>>, before)
     ELSE IF opened = {} THEN Scrubbing(rest(2), <<>>, Append(before, "<"))
     ELSE IF tag[tagEnd - 1] = "/" THEN Scrubbing(rest(tagEnd + 1), <<>>, before)
     ELSE Scrubbing(rest(tagEnd + 1), CHOOSE n \in opened : TRUE, before)

Round(s) == IF s.ended THEN s ELSE IF s.inside # <<>> THEN SkipBlock(s) ELSE NextTag(s)

(* Every round but the last consumes a symbol.                             *)
Scrub(h, name, out) ==
  LET round[n \in 0 .. Len(h) + 1] ==
        IF n = 0 THEN Scrubbing(h, name, out) ELSE Round(round[n - 1])
  IN round[Len(h) + 1]

(* flush.                                                                  *)
Flushed == IF inside # <<>> THEN <<>> ELSE held

-----------------------------------------------------------------------------
Init ==
  /\ block = "none"
  /\ text = <<>> /\ held = <<>> /\ inside = <<>> /\ said = <<>>

(* scrub_stream_event on ContentBlockStart, ...                            *)
BlockStart ==
  /\ block = "none"
  /\ block' = "open"
  /\ UNCHANGED <<text, held, inside, said>>

(* ... on a delta: what push returns is passed on, ...                     *)
BlockDelta(c) ==
  /\ block = "open"
  /\ Len(text) + Len(c) <= MaxText
  /\ LET pushed == Scrub(held \o c, inside, <<>>)
     IN /\ held' = pushed.held
        /\ inside' = pushed.inside
        /\ said' = said \o pushed.out
  /\ text' = text \o c
  /\ UNCHANGED block

(* ... and on ContentBlockStop, before which goes what flush returns.      *)
BlockStop ==
  /\ block = "open"
  /\ block' = "stopped"
  /\ said' = said \o Flushed
  /\ held' = <<>> /\ inside' = <<>>
  /\ UNCHANGED text

Next == BlockStart \/ BlockStop \/ \E c \in Chunk : BlockDelta(c)

Spec == Init /\ [][Next]_vars

-----------------------------------------------------------------------------
(* The two programs disagree in two cases.  A fence is opened in what the  *)
(* scrubber has not decided about when the text ends: sanitize_context     *)
(* drops it, flush passes it on, taken for "a stray `<` or a partial       *)
(* unrecognised tag".  That is a tag without its ">", or one that follows  *)
(* another "<" so closely that the longest name would still fit.  And a    *)
(* closing tag has something between its name and its ">":                 *)
(* sanitize_context ends the block there, the scrubber goes on to the next *)
(* one.                                                                    *)
EndsUndecided ==
  \E i \in DOMAIN text :
    LET rest == SubSeq(text, i, Len(text))
    IN text[i] = "<" /\ Undecided(rest) /\ \E k \in DOMAIN rest : OpenedAt(rest, k) # {}

HasOddClose ==
  \E n \in PROTECTED_FENCES, i \in DOMAIN text :
    /\ IsAt(text, i, CloseOf(n))
    /\ i + Len(CloseOf(n)) <= Len(text) /\ text[i + Len(CloseOf(n))] # ">"

(* memory_fence.rs promises one function with two surfaces.  However the   *)
(* provider cuts a text into deltas, in the end the user and the next turn *)
(* get what sanitize_context leaves of it, but for the two cases above;    *)
(* and while the block arrives nothing goes out that would not stay if     *)
(* the text ended there, in the first case too.                            *)
StreamIsOneShot ==
  ~HasOddClose =>
    /\ ~EndsUndecided => said \o Flushed = Sanitize(text)
    /\ block = "open" => IsPrefix(said, Sanitize(text))

=============================================================================
