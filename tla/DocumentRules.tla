---------------------------- MODULE DocumentRules ----------------------------
(***************************************************************************)
(* How documents and plates are read: the check digits of CPFs and CNPJs,  *)
(* computed by the schema of a registration and again, in another form, by *)
(* the domain at a log-in, and the forms in which both are written.        *)
(* A text is a sequence of characters: a digit is its value, a letter or   *)
(* what masks and separates is a model value.  Digits are the ASCII ones;  *)
(* Superscripts stand for what str.isdigit takes and \d does not.          *)
(***************************************************************************)
EXTENDS Subsequences, FiniteSetsExt

CONSTANTS
  Capitals,       \* the capital letters of plates
  UpperOf,        \* the capital of each small letter
  Hyphen, Space,  \* what plates are separated and padded with
  Mark,           \* what masks a document besides the hyphen: a point, a slash
  Superscripts,   \* digits to str.isdigit that are none to a regular expression
  None            \* "rejected"

Digits     == 0 .. 9
Characters == Digits \cup Capitals \cup DOMAIN UpperOf \cup {Hyphen, Space, Mark} \cup Superscripts

\* One value throughout: "000...", "111...".
Repeated(digits) == \A i \in DOMAIN digits : digits[i] = digits[1]

Total(digits, weights) == SumFunctionOnSet([i \in DOMAIN digits |-> digits[i] * weights[i]], DOMAIN digits)

\* The weights of n digits: falling by one, the first of them given.
Falling(first, n) == [i \in 1 .. n |-> first + 1 - i]

-----------------------------------------------------------------------------
(***************************************************************************)
(* app/domain/value_objects/cpf.py                                         *)
(***************************************************************************)

Normalize(text) == Only(text, Digits)

\* Mutant of CheckDigit: a remainder of 10 is left to the comparison.
CheckDigitUnwrapped(digits, weight) == (Total(digits, Falling(weight, Len(digits))) * 10) % 11

CheckDigit(digits, weight) ==
  LET remainder == (Total(digits, Falling(weight, Len(digits))) * 10) % 11
  IN IF remainder = 10 THEN 0 ELSE remainder

\* is_valid: accepts a CPF with or without a mask.
IsValid(text) ==
  LET digits == Normalize(text)
      base   == SubSeq(digits, 1, 9)
      first  == CheckDigit(base, 10)
  IN /\ Len(digits) = 11 /\ ~Repeated(digits)
     /\ SubSeq(digits, 10, 11) = <<first, CheckDigit(Append(base, first), 11)>>

FormatMasked(text) ==
  LET d == Normalize(text) IN
  IF Len(d) # 11 THEN d
  ELSE SubSeq(d, 1, 3) \o <<Mark>> \o SubSeq(d, 4, 6) \o <<Mark>> \o SubSeq(d, 7, 9)
         \o <<Hyphen>> \o SubSeq(d, 10, 11)

-----------------------------------------------------------------------------
(***************************************************************************)
(* app/interfaces/http/schemas/client_schema.py                            *)
(***************************************************************************)

\* _validate_cpf: the digit at (zero-based) position i, from the i digits before it.
ValidateCpf(digits) ==
  /\ Len(digits) = 11 /\ ~Repeated(digits)
  /\ \A i \in 9 .. 10 :
       digits[i + 1] = ((Total(SubSeq(digits, 1, i), Falling(i + 1, i)) * 10) % 11) % 10

Weights1 == <<5, 4, 3, 2, 9, 8, 7, 6, 5, 4, 3, 2>>
Weights2 == <<6>> \o Weights1

ValidateCnpj(digits) ==
  /\ Len(digits) = 14 /\ ~Repeated(digits)
  /\ \A weights \in {Weights1, Weights2} :
       LET position  == Len(weights)
           remainder == Total(SubSeq(digits, 1, position), weights) % 11
       IN digits[position + 1] = IF remainder < 2 THEN 0 ELSE 11 - remainder

\* Mutant of RegisteredDocument: the document is kept as it was written.
RegisteredAsWritten(text) ==
  LET digits == Normalize(text) IN IF ValidateCpf(digits) \/ ValidateCnpj(digits) THEN text ELSE None

\* ClientCreate.validate_cpf_cnpj: the document under which the client is registered.
RegisteredDocument(text) ==
  LET digits == Normalize(text) IN IF ValidateCpf(digits) \/ ValidateCnpj(digits) THEN digits ELSE None

\* AuthenticateByDocumentUseCase: the document a log-in looks up.
LogInDocument(text) == IF IsValid(text) THEN Normalize(text) ELSE None

\* _only_digits: the document that get_current_client looks up for the sub of a token, by
\* another test of a digit than the \D of Normalize.
TokenDocument(sub) == Only(sub, Digits \cup Superscripts)

-----------------------------------------------------------------------------
(***************************************************************************)
(* app/interfaces/http/schemas/vehicle_schema.py                           *)
(***************************************************************************)

Uppercase(text) ==
  [i \in DOMAIN text |-> IF text[i] \in DOMAIN UpperOf THEN UpperOf[text[i]] ELSE text[i]]

Strip(text) ==
  LET kept == {i \in DOMAIN text : text[i] # Space} IN
  IF kept = {} THEN <<>> ELSE SubSeq(text, Min(kept), Max(kept))

\* Old plates end in four digits; the second of a Mercosul plate may be a letter.
PlateShape(text) ==
  /\ Len(text) = 7
  /\ \A i \in {1, 2, 3} : text[i] \in Capitals
  /\ \A i \in {4, 6, 7} : text[i] \in Digits
  /\ text[5] \in Digits \cup Capitals

\* VehicleCreate.validate_plate: the plate under which the vehicle is registered.
RegisteredPlate(text) ==
  LET plate == Strip(Only(Uppercase(text), Characters \ {Hyphen}))
  IN IF PlateShape(plate) THEN plate ELSE None
=============================================================================
