-------------------------------- MODULE Texts --------------------------------
(***************************************************************************)
(* What becomes of the texts clients send.                                 *)
(*                                                                         *)
(* A job: what internal/middleware/security.go and categories.go let into  *)
(* a row of JOBSAPPS, and what JobHandler.Create and JobHandler.Update     *)
(* make of it: its title, its location and its category; the description   *)
(* is validated and stored as the title is, with another limit.  Who may   *)
(* do it, and when two do it at once, is JobBoard's.                       *)
(*                                                                         *)
(* An id and a mail: the three loops over characters that the program has  *)
(* written itself, parseInt64 (internal/handlers/job.go), which reads the  *)
(* id in a job's URL while strconv.ParseInt reads the id in an             *)
(* employer's, and the escaper and splitParagraphs                         *)
(* (internal/email/sender.go), which make the HTML of a mail from its      *)
(* text.  They are pure; the specification enumerates their inputs.        *)
(***************************************************************************)
EXTENDS Integers, Sequences, FiniteSetsExt, SequencesExt

CONSTANTS
  Limit,      \* bytes of a title or a location without white space around it
  MaxBody,    \* bytes that the 10240 of a request's body leave for both
  MaxLen,     \* bound: characters of a title or a location that is sent
  Base,       \* digits are 0 .. Base - 1; 10 in the code
  Word,       \* values of an int64; 2^64 in the code
  MaxDigits,  \* bound: characters of an id
  MaxText     \* bound: characters of a mail

ASSUME Sizes ==
  /\ {Limit, MaxBody, MaxLen, Base, Word, MaxDigits, MaxText} \subseteq Nat
  /\ Limit > 0 /\ Limit <= MaxBody
  /\ Base > 1 /\ Base < Word /\ Word % 2 = 0

(* A text of a job is a sequence of characters, of which only the width in *)
(* UTF-8 matters, and whether it is white space: strings.TrimSpace drops   *)
(* that at both ends, len counts bytes. *)
Char == {"space", "narrow", "wide"}
Text == BoundedSeq(Char, MaxLen)

(* a category, as sent: one of Categories, the same with white space       *)
(* around it, another word; and the empty string, which in an edit leaves  *)
(* the column alone *)
Categories == {"Engineering", "Design", "Other"}
Category   == Categories \cup {" Other", "Gardening", ""}

(* the job's row, or none *)
NoJob == [title |-> << >>, location |-> << >>, category |-> ""]

(* Characters of an id: the digits, one that is none, and the two signs.   *)
NoDigit == Base
Plus    == Base + 1
Minus   == Base + 2
IdChar  == 0 .. Base + 2

(* Characters of a mail: a new line, the two the escaper must tell from    *)
(* markup and from its own entities, and the rest of two entities.         *)
Newline == "\n"
Special == {"<", "&"}
Entity  == [c \in Special |-> IF c = "<" THEN "lt;" ELSE "amp;"]
Mark    == {Newline, "<", "&", "lt;", "amp;"}

VARIABLES
  job,  \* the job's row
  id,   \* an id in a URL
  mail  \* a mail's body

vars == <<job, id, mail>>

Init == job = NoJob /\ id = << >> /\ mail = << >>

-----------------------------------------------------------------------------
(***************************************************************************)
(* Plausible mistakes, for the mutation runs: each stands in for the       *)
(* operator its name begins with.  Next uses none.                         *)
(***************************************************************************)

(* Create stores the texts as they were sent *)
Created_AsSent(title, location, category) ==
  [title |-> title, location |-> location, category |-> category]

(* the digit is added before the id is shifted *)
Shift_AddFirst(n, c) == (n + c) * Base

(* the paragraph keeps growing after it was put out *)
Split_KeepCurrent(acc, c) ==
  IF c = Newline /\ acc.cur # << >> /\ Last(acc.cur) = Newline
  THEN [acc EXCEPT !.out = Append(@, Front(acc.cur))]
  ELSE [acc EXCEPT !.cur = Append(@, c)]

-----------------------------------------------------------------------------
(***************************************************************************)
(* The job.                                                                *)
(***************************************************************************)

Solid(text) == {i \in DOMAIN text : text[i] # "space"}

(* strings.TrimSpace *)
Trim(text) ==
  IF Solid(text) = {} THEN << >>
  ELSE SubSeq(text, Min(Solid(text)), Max(Solid(text)))

(* len *)
Bytes(text) ==
  Len(text) + Cardinality({i \in DOMAIN text : text[i] = "wide"})

(* ValidateJobTitle, ValidateDescription and ValidateLocation *)
Validate(text) == Trim(text) # << >> /\ Bytes(Trim(text)) <= Limit

(* ValidateCategory and ValidateCategoryInList: exactly one of the list *)
ValidateCategory(cat) == cat \in Categories

(* http.MaxBytesReader: what is around the texts, and the description, are *)
(* taken off the 10240 bytes *)
Fits(title, location) == Bytes(title) + Bytes(location) <= MaxBody

(* a new row has the texts without the white space around them *)
Created(title, location, category) ==
  [title |-> Trim(title), location |-> Trim(location), category |-> category]

Create(title, location, category) ==
  /\ job = NoJob
  /\ Fits(title, location)
  /\ Validate(title) /\ Validate(location) /\ ValidateCategory(category)
  /\ job' = Created(title, location, category)
  /\ UNCHANGED <<id, mail>>

(* An edit: the empty string leaves a column alone; a title is trimmed,    *)
(* while a location is stored as it was sent. *)
Accepts(title, location, category) ==
  /\ Fits(title, location)
  /\ title # << >> => Validate(title)
  /\ location # << >> => Validate(location)
  /\ category # "" => ValidateCategory(category)

Edited(j, title, location, category) ==
  [title    |-> IF title = << >> THEN j.title ELSE Trim(title),
   location |-> IF location = << >> THEN j.location ELSE location,
   category |-> IF category = "" THEN j.category ELSE category]

Update(title, location, category) ==
  /\ job # NoJob
  /\ Accepts(title, location, category)
  /\ job' = Edited(job, title, location, category)
  /\ UNCHANGED <<id, mail>>

-----------------------------------------------------------------------------
(***************************************************************************)
(* The id and the mail.                                                    *)
(***************************************************************************)

(* a loop over the characters of s, whose turn makes of what it has and of *)
(* the next character what it has then (a FoldLeft, by a recursive         *)
(* function) *)
Loop(turn, start, s) ==
  LET after[n \in 0 .. Len(s)] ==
        IF n = 0 THEN start ELSE turn[<<after[n - 1], s[n]>>]
  IN after[Len(s)]

(* int64 wraps around *)
Wrap(n) == ((n + Word \div 2) % Word) - Word \div 2

Shift(n, c) == n * Base + c

Refused == [ok |-> FALSE, id |-> 0]

(* one turn of parseInt64's loop; it returns at a character that is no     *)
(* digit, a sign included *)
Turn(acc, c) ==
  IF ~acc.ok \/ c >= Base THEN Refused
  ELSE [ok |-> TRUE, id |-> Wrap(Shift(acc.id, c))]

Turns(s) ==
  Loop([p \in [ok : BOOLEAN, id : Int] \X IdChar |-> Turn(p[1], p[2])],
       [ok |-> TRUE, id |-> 0], s)

ParseInt64(s) == IF s = << >> THEN Refused ELSE Turns(s)

(* strconv.ParseInt(s, 10, 64): a sign is allowed, and a value that is no  *)
(* int64 is an error *)
Numeral(s) == s # << >> /\ \A i \in DOMAIN s : s[i] < Base
Signed(s)  == s # << >> /\ Head(s) \in {Plus, Minus}

Value(s) == Loop([p \in Int \X IdChar |-> p[1] * Base + p[2]], 0, s)

Meant(s) ==
  IF ~Signed(s) THEN Value(s)
  ELSE IF Head(s) = Plus THEN Value(Tail(s)) ELSE -Value(Tail(s))

ParseInt(s) ==
  IF /\ Numeral(IF Signed(s) THEN Tail(s) ELSE s)
     /\ Wrap(Meant(s)) = Meant(s)
  THEN [ok |-> TRUE, id |-> Meant(s)] ELSE Refused

(* renderHTML's esc, one turn of its loop and all of it *)
Escaped(acc, c) ==
  IF c \in Special THEN acc \o <<"&", Entity[c]>> ELSE Append(acc, c)

Escape(s) == Loop([p \in Seq(Mark) \X Mark |-> Escaped(p[1], p[2])], << >>, s)

(* one turn of splitParagraphs' loop: a new line after a new line ends a   *)
(* paragraph and drops both *)
Split(acc, c) ==
  IF c = Newline /\ acc.cur # << >> /\ Last(acc.cur) = Newline
  THEN [cur |-> << >>, out |-> Append(acc.out, Front(acc.cur))]
  ELSE [cur |-> Append(acc.cur, c), out |-> acc.out]

Splits(s) ==
  Loop([p \in [cur : Seq(Mark), out : Seq(Seq(Mark))] \X Mark |-> Split(p[1], p[2])],
       [cur |-> << >>, out |-> << >>], s)

SplitParagraphs(s) ==
  LET end == Splits(s)
  IN IF end.cur = << >> THEN end.out ELSE Append(end.out, end.cur)

(* the paragraphs of a mail, each of which renderHTML puts in a <p> *)
Paragraphs(body) == SplitParagraphs(Escape(body))

Digit(c) ==
  /\ Len(id) < MaxDigits
  /\ id' = Append(id, c)
  /\ UNCHANGED <<job, mail>>

Write(c) ==
  /\ Len(mail) < MaxText
  /\ mail' = Append(mail, c)
  /\ UNCHANGED <<job, id>>

(* a job, an id or a mail: they have nothing to do with each other *)
Next ==
  \/ /\ id = << >> /\ mail = << >>
     /\ \E title, location \in Text, category \in Category :
          \/ Create(title, location, category)
          \/ Update(title, location, category)
  \/ job = NoJob /\ mail = << >> /\ \E c \in IdChar : Digit(c)
  \/ job = NoJob /\ id = << >> /\ \E c \in Mark : Write(c)

Spec == Init /\ [][Next]_vars

-----------------------------------------------------------------------------
(***************************************************************************)
(* Correctness.                                                            *)
(***************************************************************************)

(* an edit form that returns the columns S as they are shown, and leaves   *)
(* the others empty *)
Form(S) ==
  [title    |-> IF "title" \in S THEN job.title ELSE << >>,
   location |-> IF "location" \in S THEN job.location ELSE << >>,
   category |-> IF "category" \in S THEN job.category ELSE ""]

(* What is shown can be sent back: an edit form that returns one column, or *)
(* any columns that fit into a body, is accepted and changes nothing,      *)
(* however the job was made and edited before (Create and Update agree on  *)
(* what a column may hold).  All columns at once need not fit.             *)
ShownCanBeSent ==
  job # NoJob =>
    \A S \in SUBSET {"title", "location", "category"} :
      LET form == Form(S) IN
      Cardinality(S) = 1 \/ Fits(form.title, form.location) =>
        /\ Accepts(form.title, form.location, form.category)
        /\ Edited(job, form.title, form.location, form.category) = job

(* A job's id is read by parseInt64, an employer's by strconv.ParseInt.    *)
(* Both read digits that stand for an int64, which is what the pages show, *)
(* as that number; they never read two numbers in one text; and one reads  *)
(* what the other refuses only with a sign, which parseInt64 does not      *)
(* know, or beyond an int64, where parseInt64 wraps around.                *)
ParsersAgree ==
  /\ Numeral(id) /\ Value(id) < Word \div 2 =>
       ParseInt64(id) = [ok |-> TRUE, id |-> Value(id)] /\ ParseInt(id) = ParseInt64(id)
  /\ ParseInt64(id).ok /\ ParseInt(id).ok => ParseInt64(id).id = ParseInt(id).id
  /\ ParseInt64(id).ok # ParseInt(id).ok => Signed(id) \/ Value(id) >= Word \div 2

(* What a reader of the HTML sees of a paragraph, read left to right: an   *)
(* ampersand is held back until the next character tells whether it begins *)
(* an entity; a bracket that is not escaped is not seen; a new line is     *)
(* white space, here and in the text. *)
Solidly(text, c) == IF c = Newline THEN text ELSE Append(text, c)

Said(seen) == IF seen.amp THEN Append(seen.text, "&") ELSE seen.text

Meaning(c) == CHOOSE d \in Special : Entity[d] = c

See(seen, c) ==
  IF seen.amp /\ \E d \in Special : Entity[d] = c
  THEN [text |-> Append(seen.text, Meaning(c)), amp |-> FALSE]
  ELSE [text |-> IF c \in Special THEN Said(seen) ELSE Solidly(Said(seen), c),
        amp  |-> c = "&"]

Seen(para) ==
  Loop([p \in [text : Seq(Mark), amp : BOOLEAN] \X Mark |-> See(p[1], p[2])],
       [text |-> << >>, amp |-> FALSE], para)
Shown(para) == Said(Seen(para))

(* what is read in a text, and in one paragraph after the other *)
Words(text) == Loop([p \in Seq(Mark) \X Mark |-> Solidly(p[1], p[2])], << >>, text)
ReadAll(paras) ==
  Loop([p \in Seq(Mark) \X Seq(Mark) |-> p[1] \o Shown(p[2])], << >>, paras)

NoBlankLine(para) ==
  \A i \in 1 .. Len(para) - 1 : para[i] # Newline \/ para[i + 1] # Newline

(* The HTML says what the text says: nothing of the mail but new lines is  *)
(* lost, added or taken for markup, wherever the text was split, and no    *)
(* paragraph has a blank line in it; escaping first and splitting then     *)
(* (renderHTML) does no harm to either. *)
HtmlSaysTheText ==
  /\ ReadAll(Paragraphs(mail)) = Words(mail)
  /\ \A k \in DOMAIN Paragraphs(mail) : NoBlankLine(Paragraphs(mail)[k])

-----------------------------------------------------------------------------
(***************************************************************************)
(* The inductive invariant.                                                *)
(***************************************************************************)

(* whatever its history, a job has a title without white space around it,  *)
(* a location with or without, and each alone would be accepted *)
JobInv ==
  job # NoJob =>
    /\ job.title \in Seq(Char) /\ Trim(job.title) = job.title /\ Validate(job.title)
    /\ job.location \in Seq(Char) /\ Validate(job.location)
    /\ Bytes(job.location) <= MaxBody
    /\ job.category \in Categories

IInv ==
  /\ JobInv
  /\ job = [title |-> job.title, location |-> job.location, category |-> job.category]
  /\ id \in Seq(IdChar)
  /\ mail \in Seq(Mark)
=============================================================================
