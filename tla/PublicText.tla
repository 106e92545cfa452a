----------------------------- MODULE PublicText -----------------------------
(***************************************************************************)
(* A name's way into the public summary: Redactor.redact of                *)
(* src/watchdog/redaction.py, sanitize_markdown_inline of                  *)
(* src/watchdog/markdown.py, and render_summary of src/watchdog/cli.py,    *)
(* which applies the one before and after the other.                       *)
(*                                                                         *)
(* A text is a sequence of characters; the mask counts as one.  Of the     *)
(* redactor's two layers this is the first, the known secrets: the second, *)
(* patterns of secret-shaped text, only masks more.                        *)
(***************************************************************************)
EXTENDS Naturals, Sequences, SequencesExt

CONSTANTS
  Chars,    \* the characters, a few of each kind
  Mask,     \* MASK
  Spaces,   \* whitespace and control characters other than Space
  Joined,   \* the metacharacters that are escaped by a backslash
  Names,    \* the texts a service name may be
  Secrets   \* the configuration's secrets, the longest first

Space == " "
Entity == <<"&", "a", ";">>  \* stands for any

ASSUME PublicTextAssumption ==
  /\ {Mask, Space, "\\"} \subseteq Chars
  /\ Entity \in Seq(Chars)
  /\ "\\" \in Joined
  /\ Names \subseteq Seq(Chars)
  /\ Secrets \in Seq(Seq(Chars \ {Mask}))
  /\ \A i \in DOMAIN Secrets : Secrets[i] # <<>>
  /\ \A i, j \in DOMAIN Secrets : i < j => Len(Secrets[i]) >= Len(Secrets[j])

VARIABLES
  service_name,  \* of an outcome that is rendered
  text,          \* what became of it
  stage          \* "none", "raw", "redacted", "sanitized" or "summary"

textVars == <<service_name, text, stage>>

-----------------------------------------------------------------------------
(* A text is read from the left: what begins at i is width[i] characters   *)
(* long and becomes piece[i].                                              *)
Scanned(piece, width) ==
  LET from[i \in Nat] ==
        IF i \in DOMAIN piece THEN piece[i] \o from[i + width[i]] ELSE <<>>
  IN from[1]

Mapped(piece) == Scanned(piece, [i \in DOMAIN piece |-> 1])

(* str.replace: the occurrences from the left, none overlapping another.   *)
OccursAt(secret, t, i) ==
  i + Len(secret) - 1 <= Len(t) /\ SubSeq(t, i, i + Len(secret) - 1) = secret

Replaced(t, secret) ==
  Scanned([i \in DOMAIN t |-> IF OccursAt(secret, t, i) THEN <<Mask>> ELSE <<t[i]>>],
          [i \in DOMAIN t |-> IF OccursAt(secret, t, i) THEN Len(secret) ELSE 1])

(* Mutant: the shortest first.                                             *)
ShortestFirst(t) == FoldLeft(Replaced, t, Reverse(Secrets))

Redact(t) ==
  LET masked[k \in 0 .. Len(Secrets)] ==
        IF k = 0 THEN t ELSE Replaced(masked[k - 1], Secrets[k])
  IN masked[Len(Secrets)]

(* Runs of whitespace become one space, none of them at either end.        *)
IsSpace(c) == c \in Spaces \cup {Space}

Collapsed(t) ==
  LET kept(i) == IF ~IsSpace(t[i]) THEN <<t[i]>>
                 ELSE IF i > 1 /\ ~IsSpace(t[i - 1])
                         /\ \E j \in i .. Len(t) : ~IsSpace(t[j]) THEN <<Space>>
                 ELSE <<>>
  IN Mapped([i \in DOMAIN t |-> kept(i)])

(* The translation of one character.                                       *)
Escaped(c) ==
  IF c \in Joined THEN <<"\\", c>> ELSE IF c = "&" THEN Entity ELSE <<c>>

(* Mutant: one replacement after the other, the backslash's the last.      *)
EscapedInTurn(t) ==
  LET each(s, c) == Mapped([i \in DOMAIN s |-> IF s[i] = c THEN Escaped(c) ELSE <<s[i]>>])
  IN FoldLeft(each, t, SetToSeq(Joined \ {"\\"}) \o <<"&", "\\">>)

(* str.translate: a character's translation is not translated again.       *)
Translated(t) == Mapped([i \in DOMAIN t |-> Escaped(t[i])])

Sanitize(t) == Translated(Collapsed(t))

-----------------------------------------------------------------------------
(* render_summary                                                          *)

TextInit == service_name = <<>> /\ text = <<>> /\ stage = "none"

TakeName ==
  /\ stage = "none"
  /\ service_name' \in Names
  /\ text' = service_name'
  /\ stage' = "raw"

(* Mutant: the name is not redacted before it is sanitized.                *)
LeaveRaw == stage = "raw" /\ stage' = "redacted" /\ UNCHANGED <<service_name, text>>

RedactName ==
  /\ stage = "raw"
  /\ text' = Redact(text)
  /\ stage' = "redacted"
  /\ UNCHANGED service_name

SanitizeName ==
  /\ stage = "redacted"
  /\ text' = Sanitize(text)
  /\ stage' = "sanitized"
  /\ UNCHANGED service_name

RedactSummary ==
  /\ stage = "sanitized"
  /\ text' = Redact(text)
  /\ stage' = "summary"
  /\ UNCHANGED service_name

TextStep == TakeName \/ RedactName \/ SanitizeName \/ RedactSummary

-----------------------------------------------------------------------------
(* What a reader of the Markdown sees: a backslash shows the punctuation   *)
(* that follows it, an entity its character.                               *)
Rendered(t) ==
  LET escape(i) == t[i] = "\\" /\ i < Len(t) /\ t[i + 1] \in Joined
      entity(i) == OccursAt(Entity, t, i)
  IN Scanned([i \in DOMAIN t |-> IF escape(i) THEN <<t[i + 1]>>
                                 ELSE IF entity(i) THEN <<"&">> ELSE <<t[i]>>],
             [i \in DOMAIN t |-> IF escape(i) THEN 2 ELSE IF entity(i) THEN 3 ELSE 1])

Occurs(secret, t) == \E i \in DOMAIN t : OccursAt(secret, t, i)

(* No secret is in the summary, neither as it is written nor as a reader   *)
(* sees it: what the first redaction misses is not made legible by         *)
(* escaping, and escaping does not hide a secret from the second.  This is *)
(* so for secrets without whitespace, backslash, "&" and the character an  *)
(* entity ends in, as the instance's are; of others nothing is claimed.    *)
NoSecretShown ==
  stage = "summary" => \A i \in DOMAIN Secrets :
    ~Occurs(Secrets[i], text) /\ ~Occurs(Secrets[i], Rendered(text))

(* What the secrets in a text cover, and whether two of their occurrences  *)
(* (of one secret, too) overlap without one being a part of the other.     *)
Covered(t) ==
  {j \in DOMAIN t : \E s \in DOMAIN Secrets, i \in 1 .. j :
     OccursAt(Secrets[s], t, i) /\ j < i + Len(Secrets[s])}

Crosses(t) ==
  \E r, s \in DOMAIN Secrets, i, j \in DOMAIN t :
    /\ OccursAt(Secrets[r], t, i) /\ OccursAt(Secrets[s], t, j)
    /\ i < j /\ j < i + Len(Secrets[r])
    /\ i + Len(Secrets[r]) < j + Len(Secrets[s])

MasksIn(t) == {j \in DOMAIN t : t[j] = Mask}

Without(t, hidden) == Mapped([i \in DOMAIN t |-> IF i \in hidden THEN <<>> ELSE <<t[i]>>])

(* "Longest first so overlapping secrets mask fully": of a name in which   *)
(* occurrences overlap only as parts of one another, exactly what no       *)
(* secret covers is left.  Of two that cross, the one masked first leaves  *)
(* the rest of the other legible.                                          *)
MaskedWhole ==
  stage = "redacted" /\ ~Crosses(service_name) =>
    Without(text, MasksIn(text))
      = Without(service_name, Covered(service_name) \cup MasksIn(service_name))

(* "The human-readable text stays visible": the Markdown, its escapes and  *)
(* entities read back, is the redacted name with its whitespace collapsed. *)
(* Whether every character that begins markup is escaped is not asked.     *)
RendersAsWritten ==
  stage = "sanitized" => Rendered(text) = Collapsed(Redact(service_name))
=============================================================================
