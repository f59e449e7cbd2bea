----------------------------- MODULE DateFormat -----------------------------
(***************************************************************************)
(* Date.prototype.Format of the demo page (date.js): a pattern's letters    *)
(* are replaced by the fields of a date, one kind of letter after another,  *)
(* each in the text the earlier ones left.  Of every kind only the first    *)
(* run is replaced.  Texts are sequences of characters.                     *)
(***************************************************************************)
EXTENDS Integers, SequencesExt

CONSTANTS
  Patterns,  \* the patterns asked for
  Dates      \* valid dates with a year from 1000 to 9999, see DateRec

DateRec == [year: 1000 .. 9999, month: 0 .. 11, day: 1 .. 31, hours: 0 .. 23,
            minutes: 0 .. 59, seconds: 0 .. 59, ms: 0 .. 999]

ASSUME DateAssumption ==
  /\ Patterns \subseteq Seq(STRING)
  /\ Dates \subseteq DateRec

VARIABLES
  pattern,  \* fmt as the caller passed it
  date,     \* `this'
  text,     \* fmt by now
  key       \* the letters still to look for; <<>> once it has returned

dateVars == <<pattern, date, text, key>>

\* The year, then the keys of o in their order.
Keys == <<"y", "M", "d", "H", "m", "s", "q", "S">>

DateInit ==
  /\ pattern = <<>> /\ text = <<>> /\ key = <<>>
  /\ date = [year |-> 2000, month |-> 0, day |-> 1, hours |-> 0, minutes |-> 0,
             seconds |-> 0, ms |-> 0]
-----------------------------------------------------------------------------
Figures == <<"0", "1", "2", "3", "4", "5", "6", "7", "8", "9">>

\* n + "", for the numbers a date has.
Decimal[n \in Nat] ==
  IF n < 10 THEN <<Figures[n + 1]>> ELSE Append(Decimal[n \div 10], Figures[(n % 10) + 1])

\* substr(from): a negative `from' counts from the end.
Substr(s, from) ==
  SubSeq(s, 1 + (IF from >= 0 THEN from ELSE IF Len(s) + from >= 0 THEN Len(s) + from ELSE 0),
         Len(s))

\* The object o.
Field(k, d) ==
  CASE k = "y" -> d.year
    [] k = "M" -> d.month + 1
    [] k = "d" -> d.day
    [] k = "H" -> d.hours
    [] k = "m" -> d.minutes
    [] k = "s" -> d.seconds
    [] k = "q" -> (d.month + 3) \div 3
    [] k = "S" -> d.ms

\* What a run of n letters k becomes.
\* (Mutant: figures are not padded and the year not cut.)
Rendered_Unpadded(k, n, d) == Decimal[Field(k, d)]
Rendered(k, n, d) ==
  LET v == Decimal[Field(k, d)] IN
  IF k = "y" THEN Substr(v, 4 - n)
  ELSE IF n = 1 THEN v
  ELSE Substr(<<"0", "0">> \o v, Len(v))

Places(t, k) == {i \in DOMAIN t : t[i] = k}

\* The last place of the run of k that begins at i; "S" is sought without a +.
RunEnd(t, k, i) ==
  IF k = "S" THEN i
  ELSE Max({j \in i .. Len(t) : \A l \in i .. j : t[l] = k})

\* test and replace for one key.
\* (Mutant: the places are those of the last run.)
Replaced_Last(t, k, d) ==
  IF Places(t, k) = {} THEN t
  ELSE LET i == Max(Places(t, k))
       IN  SubSeq(t, 1, i - 1) \o Rendered(k, 1, d) \o SubSeq(t, i + 1, Len(t))

Replaced(t, k, d) ==
  IF Places(t, k) = {} THEN t
  ELSE LET i == Min(Places(t, k))
           j == RunEnd(t, k, i)
       IN  SubSeq(t, 1, i - 1) \o Rendered(k, j - i + 1, d) \o SubSeq(t, j + 1, Len(t))

\* The whole of Format.
Format(p, d) ==
  LET turned[i \in 0 .. Len(Keys)] ==
        IF i = 0 THEN p ELSE Replaced(turned[i - 1], Keys[i], d)
  IN  turned[Len(Keys)]
-----------------------------------------------------------------------------
Call(p, d) ==
  /\ key = <<>>
  /\ pattern' = p /\ date' = d
  /\ text' = p /\ key' = Keys

YearStep ==
  /\ key # <<>> /\ Head(key) = "y"
  /\ text' = Replaced(text, "y", date)
  /\ key' = Tail(key)
  /\ UNCHANGED <<pattern, date>>

\* One turn of the loop over o; after the last one Format returns.
KeyStep ==
  /\ key # <<>> /\ Head(key) # "y"
  /\ text' = Replaced(text, Head(key), date)
  /\ key' = Tail(key)
  /\ UNCHANGED <<pattern, date>>

DateNext ==
  \/ \E p \in Patterns, d \in Dates : Call(p, d)
  \/ YearStep
  \/ KeyStep

DateSpec == DateInit /\ [][DateNext]_dateVars
-----------------------------------------------------------------------------
\* i begins, or is within, the first run of a letter of p.
Begins(p, i) == p[i] \in ToSet(Keys) /\ i = Min(Places(p, p[i]))
Within(p, i) == \E h \in 1 .. (i - 1) : Begins(p, h) /\ i <= RunEnd(p, p[h], h)

(* The substitutions do not get into one another's way: the answer is the   *)
(* pattern with the first run of every letter rendered where it stood and   *)
(* all else as it was, as if they had been made at once.                    *)
(* (date.js: each key is sought in text that holds what earlier ones put in.) *)
FieldsInPlace ==
  key = <<>> =>
    text = FlattenSeq([i \in DOMAIN pattern |->
             IF Begins(pattern, i)
               THEN Rendered(pattern[i], RunEnd(pattern, pattern[i], i) - i + 1, date)
             ELSE IF Within(pattern, i) THEN <<>>
             ELSE <<pattern[i]>>])

\* From the year down, every field at its full width.
Sortable == <<"y","y","y","y","-","M","M","-","d","d"," ","H","H",":","m","m",":","s","s">>

DateFields == <<"y", "M", "d", "H", "m", "s">>

Earlier(d, e) ==
  \E i \in DOMAIN DateFields :
    /\ Field(DateFields[i], d) < Field(DateFields[i], e)
    /\ \A j \in 1 .. (i - 1) : Field(DateFields[j], d) = Field(DateFields[j], e)

Rank(c) == IF c \in ToSet(Figures) THEN CHOOSE n \in DOMAIN Figures : Figures[n] = c ELSE 0

TextLess(s, t) ==
  \E i \in DOMAIN s \intersect DOMAIN t :
    /\ Rank(s[i]) < Rank(t[i])
    /\ \A j \in 1 .. (i - 1) : s[j] = t[j]

(* Formatted from the year down to the second, dates sort as their texts do *)
(* and two dates of one text agree in every one of these fields.            *)
(* (date.js: the padding to two digits and the four of the year.)           *)
SortsAsDates ==
  key = <<>> /\ pattern = Sortable =>
    \A d \in Dates : Earlier(date, d) <=> TextLess(text, Format(Sortable, d))
=============================================================================
