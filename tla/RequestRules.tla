---------------------------- MODULE RequestRules ----------------------------
(***************************************************************************)
(* The messages of pet.v1.PetService and the rules that pet.proto puts on  *)
(* their fields (buf.validate), as the interceptor applies them.           *)
(*                                                                         *)
(* A text is told by what the rules and the two trimming functions see of  *)
(* it: its characters, the white space before and after them, and what it  *)
(* looks like.                                                             *)
(***************************************************************************)
EXTENDS Integers, Sequences

\* White space around a text: a space, a byte order mark (U+FEFF), which only
\* JavaScript trims, or a next-line control (U+0085), which only Go trims.
Pads == {"space", "bom", "nel"}
Looks == {"plain", "date", "uri", "uuid"}

\* lead, trail: the white space before and after, of all kinds in any order;
\* chars: Unicode characters between them; wide: each of these takes two of
\* JavaScript's UTF-16 units.  White space alone is all in lead.
Text ==
  {t \in [lead : Seq(Pads), chars : Nat, wide : BOOLEAN, trail : Seq(Pads), look : Looks] :
     t.chars = 0 => t.trail = <<>>}
Looking(l) == [lead |-> <<>>, chars |-> 10, wide |-> FALSE, trail |-> <<>>, look |-> l]
Plain(n) == [lead |-> <<>>, chars |-> n, wide |-> FALSE, trail |-> <<>>, look |-> "plain"]
EmptyText == Plain(0)

PadLength(t) == Len(t.lead) + Len(t.trail)
Characters(t) == t.chars + PadLength(t)
Units(t) == (IF t.wide THEN 2 * t.chars ELSE t.chars) + PadLength(t)

(***************************************************************************)
(* Rules on one field.                                                     *)
(***************************************************************************)
NoRule == [type |-> "none"]
Length(min, max) == [type |-> "length", min |-> min, max |-> max]
DateOrEmpty == [type |-> "pattern", look |-> "date"]
Uri == [type |-> "format", look |-> "uri"]
Uuid == [type |-> "format", look |-> "uuid"]
DefinedOnly(values) == [type |-> "enum", values |-> values]
Interval(gte, lte) == [type |-> "int32", gte |-> gte, lte |-> lte]
Items(rule) == [type |-> "repeated", items |-> rule]

\* min_len and max_len count Unicode code points.
LengthAllowed(t, rule) == Characters(t) >= rule.min /\ Characters(t) <= rule.max

\* A pattern may match the empty text, a well-known format does not.
TextMeets(t, rule) ==
  CASE rule.type = "length"  -> LengthAllowed(t, rule)
    [] rule.type = "pattern" -> t = EmptyText \/ (t.look = rule.look /\ PadLength(t) = 0)
    [] rule.type = "format"  -> t.look = rule.look /\ PadLength(t) = 0

Meets(v, rule) ==
  CASE rule.type = "none"     -> TRUE
    [] rule.type = "enum"     -> v \in rule.values
    [] rule.type = "int32"    -> v >= rule.gte /\ v <= rule.lte
    [] rule.type = "repeated" -> \A i \in DOMAIN v : TextMeets(v[i], rule.items)
    [] OTHER                  -> TextMeets(v, rule)

\* The fields that are looked at.  None of them tracks presence, so that all
\* that have a rule are, whether they are set or not.
Validated(rules) == DOMAIN rules

\* The fields of a message that break their rule.
Violations(message, rules) == {f \in Validated(rules) : ~Meets(message[f], rules[f])}

(***************************************************************************)
(* Messages.                                                               *)
(***************************************************************************)
PetStatus == 0..3
MaxInt32 == 2147483647

CreatePetRequest ==
  [name |-> Length(1, 100), species |-> Length(1, 50), birthDate |-> DateOrEmpty,
   status |-> DefinedOnly(PetStatus), photoUrls |-> Items(Uri), tags |-> NoRule,
   estimated |-> NoRule]

UpdatePetRequest ==
  [id |-> Uuid, name |-> Length(1, 100), species |-> Length(1, 50),
   birthDate |-> DateOrEmpty, status |-> DefinedOnly(PetStatus),
   photoUrls |-> Items(Uri), tags |-> NoRule, estimated |-> NoRule]

ListPetsRequest ==
  [status |-> NoRule, species |-> NoRule, pageSize |-> Interval(0, 100),
   page |-> Interval(0, MaxInt32)]

\* The rules on what the service answers; nothing enforces them.
Pet ==
  [id |-> Uuid, name |-> Length(1, 100), species |-> Length(1, 50),
   birthDate |-> DateOrEmpty, status |-> DefinedOnly(PetStatus),
   photoUrls |-> Items(Uri), tags |-> NoRule, estimated |-> NoRule]
=============================================================================
