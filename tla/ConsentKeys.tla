------------------------------ MODULE ConsentKeys ------------------------------
(***************************************************************************)
(* The keys under which the fields of a consent form are stored, and under *)
(* which attendees answer them.  A custom field gets its key from the one  *)
(* that was sent or else from its label; the dashboard sends back what it  *)
(* was answered.  Values and usage counters are in ConsentForms.           *)
(***************************************************************************)
EXTENDS Naturals, FiniteSets, SequencesExt

CONSTANTS
  Letters,    \* letters and digits
  Custom,     \* stands for the letters of the word custom
  Labels,     \* labels that organizers give, as sequences of characters
  SentKeys,   \* keys that they send
  Presets,    \* preset fields, each a character of its own in a key
  Required,   \* the presets that are always required
  SlugLength  \* the length at which the slug of a label is cut

Blank == " "
Underscore == "_"
Other == "!"
Plain == Letters \cup {Custom, Underscore} \cup Presets
Chars == Plain \cup {Blank, Other}

\* What an instance has to satisfy.
ConsentKeysAssumption ==
  /\ Letters # {} /\ Custom \notin Letters \cup Presets /\ Letters \cap Presets = {}
  /\ {Underscore, Blank, Other} \cap (Letters \cup {Custom} \cup Presets) = {}
  /\ Labels \cup SentKeys \subseteq Seq(Chars)
  /\ Required \subseteq Presets
  /\ SlugLength \in Nat \ {0}

VARIABLES
  form,   \* consent_templates.fields: the fields of the event, <<>> if there is no row
  edited  \* no column: the form was not stored since it was sent back as it was

vars == <<form, edited>>

Field == [key : Seq(Chars), label : Seq(Chars), custom : BOOLEAN, required : BOOLEAN]

Init == form = <<>> /\ edited = TRUE

-----------------------------------------------------------------------------
\* Without the characters of C at both ends.
Trim(s, C) ==
  LET in == {i \in DOMAIN s : s[i] \notin C}
  IN  IF in = {} THEN <<>>
      ELSE SubSeq(s, CHOOSE i \in in : \A j \in in : i <= j, CHOOSE i \in in : \A j \in in : i >= j)

\* A run of characters outside a-z, 0-9 and _ becomes one underscore.
Sanitize(s) ==
  LET heads == {i \in DOMAIN s : s[i] \in Plain \/ i = 1 \/ s[i - 1] \in Plain}
      nth(j) == CHOOSE i \in heads : Cardinality({h \in heads : h <= i}) = j
  IN  [j \in 1..Cardinality(heads) |-> IF s[nth(j)] \in Plain THEN s[nth(j)] ELSE Underscore]

Prefix == <<Custom, Underscore>>

\* From a label: every blank becomes an underscore of its own.
SlugConsentFieldKey(label) ==
  LET text == Trim(label, {Blank})
      slug == Trim(Sanitize([i \in DOMAIN text |-> IF text[i] = Blank THEN Underscore ELSE text[i]]),
                   {Underscore})
  IN  Prefix \o IF slug = <<>> THEN <<CHOOSE l \in Letters : TRUE>>  \* "field"
                ELSE SubSeq(slug, 1, IF Len(slug) > SlugLength THEN SlugLength ELSE Len(slug))

\* Mutation: the prefix is put before every key.
CustomKeyPrefixed(key, label) ==
  IF Trim(key, {Blank}) = <<>> THEN SlugConsentFieldKey(label)
  ELSE Prefix \o Trim(Sanitize(Trim(key, {Blank})), {Underscore})

\* From a key, or from the label if there is none.
CustomKey(key, label) ==
  LET sent == Trim(Sanitize(Trim(key, {Blank})), {Underscore})
  IN  IF Trim(key, {Blank}) = <<>> THEN SlugConsentFieldKey(label)
      ELSE IF IsPrefix(Prefix, sent) THEN sent ELSE Prefix \o sent

\* A preset is found by its key, whose blanks are trimmed, and takes its own label.
NormalizeOne(f) ==
  IF f.custom
  THEN [f EXCEPT !.key = CustomKey(f.key, f.label), !.label = Trim(f.label, {Blank})]
  ELSE [f EXCEPT !.key = Trim(f.key, {Blank}), !.label = Trim(f.key, {Blank}),
                 !.required = f.required \/ Trim(f.key, {Blank}) \in {<<p>> : p \in Required}]

\* Mutation: a key of which nothing remains is taken.
InvalidLabelOnly(f) ==
  IF f.custom THEN Trim(f.label, {Blank}) = <<>> ELSE Trim(f.key, {Blank}) \notin {<<p>> : p \in Presets}

\* An error is answered with 400 and nothing is stored.
Invalid(f) ==
  IF f.custom
  THEN Trim(f.label, {Blank}) = <<>> \/ CustomKey(f.key, f.label) = Prefix
  ELSE Trim(f.key, {Blank}) \notin {<<p>> : p \in Presets}

Normalized(fields) == [i \in DOMAIN fields |-> NormalizeOne(fields[i])]

Accepted(fields) ==
  /\ fields # <<>>
  /\ \A i \in DOMAIN fields : ~Invalid(fields[i])
  /\ IsInjective([i \in DOMAIN fields |-> NormalizeOne(fields[i]).key])

-----------------------------------------------------------------------------
Sent == [key : SentKeys, label : Labels, custom : {TRUE}, required : {FALSE}]
          \cup [key : SentKeys, label : {<<>>}, custom : {FALSE}, required : {FALSE}]

\* A form is made anew, or a field is added to the one that was answered.
PutTemplate ==
  \E f \in Sent : \E old \in {<<>>, form} :
     /\ Len(old) < 2
     /\ Accepted(Append(old, f))
     /\ form' = Normalized(Append(old, f))
     /\ edited' = TRUE

\* The form is sent back as it was answered.
PutAgain ==
  /\ Accepted(form)
  /\ form' = Normalized(form)
  /\ edited' = FALSE

Next == PutTemplate \/ PutAgain

Spec == Init /\ [][Next]_vars

-----------------------------------------------------------------------------
\* The form has at most two fields here, with different keys of a-z, 0-9 and _, and always
\* asks for the presets that must be answered.
TypeOK ==
  /\ form \in Seq(Field) /\ Len(form) <= 2 /\ edited \in BOOLEAN
  /\ \A i \in DOMAIN form : \A c \in Range(form[i].key) : c \in Plain
  /\ \A i \in DOMAIN form : ~form[i].custom /\ form[i].key \in {<<p>> : p \in Required} => form[i].required
  /\ \A i, j \in DOMAIN form : i # j => form[i].key # form[j].key

\* Whatever organizers type as label or key, a custom field has a key of its own after the
\* prefix, so that it is never answered by the value of a preset.
CustomIsApart ==
  \A i \in DOMAIN form :
    IF form[i].custom
    THEN IsPrefix(Prefix, form[i].key) /\ Len(form[i].key) > Len(Prefix)
    ELSE form[i].key \in {<<p>> : p \in Presets}

\* A form that was sent back once keeps its keys from then on, and with them the answers
\* of attendees, however often it is sent back.
SettlesAtOnce == ~edited => Accepted(form) /\ Normalized(form) = form
=============================================================================
