---------------------------- MODULE StreamGuards ----------------------------
(***************************************************************************)
(* What stands between a model that streams and the reader: the guard of   *)
(* the answer (core/safety_filter), which holds back as much as a word     *)
(* could still need, and the guard of the reasoning                        *)
(* (services/reasoning_guard), which lets whole lines through.             *)
(*                                                                         *)
(* Characters: "z" has no width, "s" ends a sentence, "w" stands for a     *)
(* context in which words are allowed, "n" ends a line.                    *)
(***************************************************************************)
EXTENDS Naturals, Sequences, Subsequences

CONSTANTS
    Words,        \* the lexicon of the filter
    Window,       \* characters scanned at once: 5000
    Strong, Weak, \* fingerprints of a leak: of the whole stream, of a line
    Overlap,      \* ReasoningStreamGuard._OVERLAP: 24
    Streams       \* bound: what the model may say, and which guard reads it

\* The strong fingerprints that the overlap has room for, but for one character.
Fitting == {p \in Strong : Len(p) - 1 <= Overlap}

\* A window has room for more than the longest word; a fingerprint is on one line, and a
\* strong one that does not fit is also one of a line.
ASSUME GuardAssumption ==
    /\ Window \in Nat /\ Overlap \in Nat
    /\ Words # {} /\ \A w \in Words : w \in Seq(STRING) /\ Len(w) \in 1..Window - 1
    /\ \A p \in Strong \cup Weak : p \in Seq(STRING) /\ p # <<>> /\ \A i \in DOMAIN p : p[i] # "n"
    /\ Strong \ Fitting \subseteq Weak
    /\ \A s \in Streams : s.guard \in {"answer", "reasoning"} /\ s.text \in Seq(STRING)

VARIABLES
    stream,  \* which guard, and all that the model says
    read,    \* how much of it was read
    shown,   \* what the reader got
    pending, \* _pending, _buf
    carry,   \* _carry
    verdict  \* _blocked, _dead

guardVars == <<stream, read, shown, pending, carry, verdict>>

GuardInit ==
    /\ stream \in Streams
    /\ read = 0 /\ shown = <<>> /\ pending = <<>> /\ carry = <<>> /\ verdict = "no"

-----------------------------------------------------------------------------
(* The filter. *)

\* _normalize_with_map: the characters that count, and where they are in the text.
Counted(text) == {i \in DOMAIN text : text[i] # "z"}
Norm(text) == Picked(text, Counted(text))
Origins(text) == Picked([i \in DOMAIN text |-> i], Counted(text))

MaxWordLen == CHOOSE n \in {Len(w) : w \in Words} : \A w \in Words : Len(w) <= n

\* A walk down the trie from each character.
Hits(norm) == {h \in (DOMAIN norm) \X (DOMAIN norm) : SubSeq(norm, h[1], h[2]) \in Words}

\* Fault: a window begins where the last one ended.
ScannedApart(norm, h) ==
    \E base \in {k * Window : k \in 0..Len(norm)} : h[1] > base /\ h[2] <= base + Window

\* Windows overlap by all but one character of the longest word.
Scanned(norm, h) ==
    LET step == Window - (MaxWordLen - 1) IN
    \E base \in {k * step : k \in 0..Len(norm)} : h[1] > base /\ h[2] <= base + Window

\* _in_safe_context of _sentence_at.
Exempt(text, at) ==
    \E i \in DOMAIN text :
       /\ text[i] = "w"
       /\ \A j \in DOMAIN text : text[j] = "s" => ~(i <= j /\ j < at) /\ ~(at <= j /\ j < i)

\* check_stream: the word is sought without the width-less, its sentence in the text itself.
Unsafe(text) ==
    \E h \in Hits(Norm(text)) : Scanned(Norm(text), h) /\ ~Exempt(text, Origins(text)[h[1]])

\* contains_sensitive: as if each window were the text.
ContainsSensitive(text) ==
    LET norm == Norm(text)
        step == Window - (MaxWordLen - 1)
        part(k) == SubSeq(norm, k * step + 1, IF k * step + Window < Len(norm) THEN k * step + Window ELSE Len(norm))
    IN \E k \in 0..Len(norm) : k * step < Len(norm) /\ \E h \in Hits(part(k)) : ~Exempt(part(k), h[1])

\* Fault: what is held back is counted in the text as it came.
EmittableByText(text) ==
    IF Len(text) <= MaxWordLen - 1 THEN 0 ELSE Len(text) - (MaxWordLen - 1)

\* _emittable_prefix_len: behind it are characters that count, one less than the longest
\* word has.
Emittable(text) ==
    LET norm == Norm(text)
        hold == MaxWordLen - 1
    IN IF hold = 0 THEN Len(text)
       ELSE IF Len(norm) <= hold THEN 0
       ELSE Origins(text)[Len(norm) - hold + 1] - 1

-----------------------------------------------------------------------------
(* The guards; each reads a piece of any length. *)

Piece(n) == SubSeq(stream.text, read + 1, read + n)
More == verdict = "no" /\ read < Len(stream.text)

\* feed of ContentStreamGuard: a text that takes too long, or that has grown too long, is
\* stopped like one that is not safe.
FeedContent ==
    /\ More /\ stream.guard = "answer"
    /\ \E n \in 1..Len(stream.text) - read :
         LET text == pending \o Piece(n)
             cut == Emittable(text)
         IN /\ read' = read + n
            /\ \/ verdict' = "caught" /\ pending' = <<>> /\ UNCHANGED shown
               \/ /\ ~Unsafe(text)
                  /\ shown' = shown \o SubSeq(text, 1, cut)
                  /\ pending' = SubSeq(text, cut + 1, Len(text))
                  /\ UNCHANGED verdict
    /\ UNCHANGED <<stream, carry>>

FlushContent ==
    /\ verdict = "no" /\ read = Len(stream.text) /\ stream.guard = "answer"
    /\ pending' = <<>>
    /\ IF Unsafe(pending) THEN verdict' = "caught" /\ UNCHANGED shown
       ELSE verdict' = "passed" /\ shown' = shown \o pending
    /\ UNCHANGED <<stream, read, carry>>

Has(text, prints) == \E i, j \in DOMAIN text : SubSeq(text, i, j) \in prints
LastOf(text, n) == SubSeq(text, IF Len(text) > n THEN Len(text) - n + 1 ELSE 1, Len(text))

\* Where the last whole line ends.
LastEnd(text) ==
    LET ends == {0} \cup {i \in DOMAIN text : text[i] = "n"} IN CHOOSE e \in ends : \A r \in ends : r <= e

\* The characters from first to last are a line with its end.
IsLine(text, first, last) ==
    /\ first <= last /\ text[last] = "n" /\ \A i \in first..last - 1 : text[i] # "n"
    /\ first > 1 => text[first - 1] = "n"

\* _keep_lines: of the lines that are whole those without a fingerprint.
Kept(text) ==
    {i \in DOMAIN text : \E first \in 1..i, last \in i..Len(text) :
                           IsLine(text, first, last) /\ ~Has(SubSeq(text, first, last), Weak)}
Lines(text) == Picked(text, Kept(text))

\* Fault: each piece is looked at alone, and what it may have is shown.
FeedPieces ==
    /\ More /\ stream.guard = "reasoning"
    /\ \E n \in 1..Len(stream.text) - read :
         /\ read' = read + n
         /\ IF Has(Piece(n), Strong \cup Weak) THEN verdict' = "caught" /\ UNCHANGED shown
            ELSE UNCHANGED verdict /\ shown' = shown \o Piece(n)
    /\ UNCHANGED <<stream, pending, carry>>

\* feed of ReasoningStreamGuard.
FeedReasoning ==
    /\ More /\ stream.guard = "reasoning"
    /\ \E n \in 1..Len(stream.text) - read :
         LET buf == pending \o Piece(n)
         IN /\ read' = read + n
            /\ IF Has(carry \o Piece(n), Strong)
               THEN verdict' = "caught" /\ UNCHANGED <<shown, pending, carry>>
               ELSE /\ carry' = LastOf(buf, Overlap)
                    /\ shown' = shown \o Lines(buf)
                    /\ pending' = SubSeq(buf, LastEnd(buf) + 1, Len(buf))
                    /\ UNCHANGED verdict
    /\ UNCHANGED stream

FlushReasoning ==
    /\ verdict = "no" /\ read = Len(stream.text) /\ stream.guard = "reasoning"
    /\ verdict' = IF Has(pending, Strong) THEN "caught" ELSE "passed"
    /\ shown' = IF Has(pending, Strong \cup Weak) THEN shown ELSE shown \o pending
    /\ pending' = <<>>
    /\ UNCHANGED <<stream, read, carry>>

GuardNext == FeedContent \/ FlushContent \/ FeedReasoning \/ FlushReasoning

GuardSpec == GuardInit /\ [][GuardNext]_guardVars

-----------------------------------------------------------------------------
(* Properties. *)

\* However a word is cut into pieces, and whatever has no width inside it, it is shown
\* only where its sentence allows it; of a fingerprint no line is shown, and nothing that
\* comes behind a strong one that fits: a longer one may come in pieces too small to be seen.
ShownIsSafe ==
    /\ stream.guard = "answer" =>
         \A h \in Hits(Norm(shown)) : Exempt(stream.text, Origins(stream.text)[h[1]])
    /\ stream.guard = "reasoning" =>
         /\ ~Has(shown, Strong \cup Weak)
         /\ Has(SubSeq(stream.text, 1, read), Fitting) => verdict = "caught"

\* An answer that was not caught is shown whole and in order, nothing of it is kept back
\* at its end, and no word of it escapes the last look at the whole of it.
PassedIsWhole ==
    stream.guard = "answer" =>
       /\ verdict # "caught" => shown \o pending = SubSeq(stream.text, 1, read)
       /\ verdict = "passed" => shown = stream.text
       /\ Unsafe(stream.text) => ContainsSensitive(stream.text) /\ verdict # "passed"
       /\ \A h \in Hits(Norm(stream.text)) : Scanned(Norm(stream.text), h)

\* Neither guard lets through what it should stop, however the stream is cut into
\* pieces, and the filter loses nothing of an answer it lets through.
GuardIsExact == ShownIsSafe /\ PassedIsWhole

\* What the documentation of ReasoningStreamGuard says of every strong fingerprint
\* (reasoning_guard.py:120), the pieces it comes in notwithstanding: when it has come,
\* the stream has been stopped. TLC refutes it for one that is longer than the overlap.
StrongStops ==
    stream.guard = "reasoning" /\ Has(SubSeq(stream.text, 1, read), Strong) => verdict = "caught"
=============================================================================
