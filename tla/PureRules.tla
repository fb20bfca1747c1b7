------------------------------ MODULE PureRules ------------------------------
(***************************************************************************)
(* The rules that only compute, put to every input of a bounded set: what  *)
(* documents and plates a registration accepts and a log-in finds again,   *)
(* what the listing and the average answer, and what a replica makes of    *)
(* its settings.  One step puts one question and keeps the answer.         *)
(***************************************************************************)
EXTENDS Subsequences, FiniteSets

CONSTANTS
  None,
  Capitals, UpperOf, Hyphen, Space, Mark, Superscripts,   \* as in DocumentRules
  Documents,                      \* the documents that callers write
  Plates,                         \* the plates that callers write
  OrderSets,                      \* the orders that a listing or an average may find
  Dsns, Channels,                 \* the settings of a deployment
  ConnectArguments                \* as in SettingsRules

VARIABLES question, answer

D == INSTANCE DocumentRules
Q == INSTANCE QueryRules
S == INSTANCE SettingsRules

\* The characters are told apart.
ASSUME LettersAssumption ==
  /\ UpperOf \in [DOMAIN UpperOf -> Capitals] /\ DOMAIN UpperOf \cap (Capitals \cup D!Digits) = {}
  /\ {Hyphen, Space} \cap (Capitals \cup D!Digits) = {} /\ Mark \notin D!Digits /\ Hyphen # Space
  /\ Superscripts \cap (D!Digits \cup {Hyphen, Mark}) = {}
  /\ Documents \cup Plates \subseteq Seq(D!Characters) /\ None \notin Seq(D!Characters)

\* An order that was delivered was started and completed before (transition_to).
ASSUME OrdersAssumption ==
  /\ None \notin Int \cup Q!Statuses
  /\ \A orders \in OrderSets :
       /\ IsFiniteSet(DOMAIN orders) /\ DOMAIN orders \subseteq Int
       /\ \A i \in DOMAIN orders :
            /\ orders[i].status \in Q!Statuses /\ orders[i].created \in Int
            /\ orders[i].status = "ENTREGUE" => orders[i].started \in Int /\ orders[i].completed \in Int

\* A query holds any keys and values; the driver has an argument named ssl.
ASSUME DsnsAssumption ==
  /\ Dsns \subseteq [driver : STRING, query : Seq([key : STRING, value : STRING])]
  /\ ConnectArguments \subseteq STRING /\ "ssl" \in ConnectArguments

vars == <<question, answer>>

Kinds == {"document", "plate", "list", "average", "settings"}

Init == question = [kind |-> "none"] /\ answer = None

Unasked == question.kind = "none"

Ask(q, a) == question' = q /\ answer' = a

\* A client registers with a document, or logs in with it.
AskDocument ==
  Unasked /\ \E text \in Documents :
    Ask([kind |-> "document", text |-> text],
        [registered |-> D!RegisteredDocument(text), found |-> D!LogInDocument(text)])

AskPlate ==
  Unasked /\ \E text \in Plates : Ask([kind |-> "plate", text |-> text], D!RegisteredPlate(text))

AskList ==
  Unasked /\ \E orders \in OrderSets, status \in Q!Statuses \cup {None} :
    \E list \in Q!ListServiceOrders(orders, status) :
      Ask([kind |-> "list", orders |-> orders, status |-> status], list)

AskAverage ==
  Unasked /\ \E orders \in OrderSets :
    \E result \in Q!AverageExecutionTime(orders) :
      Ask([kind |-> "average", orders |-> orders], result)

AskSettings ==
  Unasked /\ \E dsn \in Dsns, channel \in Channels, host \in BOOLEAN :
    Ask([kind |-> "settings", dsn |-> dsn, channel |-> channel, host |-> host],
        [dsn |-> S!NormalizeAsyncDsn(dsn), notifier |-> S!BuildNotifier(channel, host)])

Next == AskDocument \/ AskPlate \/ AskList \/ AskAverage \/ AskSettings

Spec == Init /\ [][Next]_vars

Asked(kind) == question.kind = kind

-----------------------------------------------------------------------------
(***************************************************************************)
(* Documents: the rules of the Receita Federal as the reference            *)
(***************************************************************************)

\* The check digit of the digits before it, weights growing from 2 at the right, and
\* starting over after last.
Expected(digits, last) ==
  LET n     == Len(digits)
      total[i \in 0 .. n] ==
        IF i = 0 THEN 0 ELSE total[i - 1] + digits[i] * (2 + ((n - i) % (last - 1)))
      rest  == total[n] % 11
  IN IF rest < 2 THEN 0 ELSE 11 - rest

Genuine(digits, length, last) ==
  /\ Len(digits) = length /\ ~D!Repeated(digits)
  /\ \A i \in {length - 1, length} : digits[i] = Expected(SubSeq(digits, 1, i - 1), last)

\* The check digits of a CPF are computed in three forms here: by the schema that
\* registers, by the domain that logs in and by the reference.  They accept the same
\* documents, remainders of 10 and repeated digits included; CNPJs register and never log in.
\* (cpf.py: is_valid; client_schema.py: _validate_cpf, _validate_cnpj.)
DocumentRulesAgree ==
  Asked("document") =>
    LET digits == D!Normalize(question.text)
        cpf    == Genuine(digits, 11, 11)
    IN /\ answer.found # None <=> cpf
       /\ answer.registered # None <=> cpf \/ Genuine(digits, 14, 9)

\* A thing has one key, however it is written: what a registration keeps is the same for
\* every mask, letter case, hyphen and padding, so that UNIQUE sees a duplicate, a log-in
\* finds the client that registered, and a token's sub finds it again, masked or not, though
\* another function strips it.
\* (validate_cpf_cnpj, validate_plate, normalize, format_masked, _only_digits.)
OneKeyPerThing ==
  /\ Asked("document") /\ answer.registered # None =>
       /\ answer.found \in {None, answer.registered}
       /\ \A sub \in {answer.registered, D!FormatMasked(question.text)} :
            D!TokenDocument(sub) = answer.registered
       /\ D!RegisteredDocument(D!FormatMasked(question.text)) = answer.registered
  /\ Asked("plate") /\ answer # None =>
       /\ D!RegisteredPlate(answer) = answer
       /\ answer = Only(D!Uppercase(question.text), D!Characters \ {Hyphen, Space})

(***************************************************************************)
(* Queries                                                                 *)
(***************************************************************************)

\* The work list shows each order that is being worked on or waits for it, once, the
\* statuses in the order the workshop acts on them and the oldest first within one; it
\* is the filtered lists of those statuses put together.
\* (list_open_ordered, _STATUS_PRIORITY, TERMINAL_STATUSES; get_by_status.)
WorkOrder == <<"EM_EXECUCAO", "AGUARDANDO_APROVACAO", "EM_DIAGNOSTICO", "RECEBIDA">>

WorkListInOrder ==
  Asked("list") =>
    LET orders  == question.orders
        rank(i) == CHOOSE p \in DOMAIN WorkOrder : WorkOrder[p] = orders[i].status
        shown   == {i \in DOMAIN orders : IF question.status = None
                                            THEN \E p \in DOMAIN WorkOrder : WorkOrder[p] = orders[i].status
                                            ELSE orders[i].status = question.status}
    IN /\ Len(answer) = Cardinality(shown)
       /\ \A i \in shown : \E p \in DOMAIN answer : answer[p] = i
       /\ question.status = None =>
            \A p, q \in DOMAIN answer : p < q =>
              LET i == answer[p]  k == answer[q] IN
              /\ rank(i) <= rank(k)
              /\ rank(i) = rank(k) => orders[i].created <= orders[k].created
              /\ rank(i) = rank(k) /\ orders[i].created = orders[k].created => i < k

\* The average lies between the shortest and the longest execution of a delivered order,
\* half a hundredth of a minute aside, and is absent exactly when no order was delivered.
\* (GetAverageExecutionTimeUseCase; get_completed_with_times.)
AverageWithinRange ==
  Asked("average") =>
    LET delivered == {i \in DOMAIN question.orders : question.orders[i].status = "ENTREGUE"}
        seconds(i) == question.orders[i].completed - question.orders[i].started
    IN /\ answer.completed = Cardinality(delivered)
       /\ answer.average = None <=> delivered = {}
       /\ delivered # {} =>
            /\ \E i \in delivered : 100 * seconds(i) <= 60 * answer.average + 30
            /\ \E i \in delivered : 60 * answer.average <= 100 * seconds(i) + 30

(***************************************************************************)
(* Settings                                                                *)
(***************************************************************************)

\* At most one parameter has a key, and one key names the mode of TLS.
Unambiguous(query) ==
  \A i, k \in DOMAIN query :
    query[i].key = query[k].key \/ {query[i].key, query[k].key} = S!TlsKeys => i = k

\* A query in the terms of libpq or of the driver: what the driver has no argument for is
\* what the code drops or translates, and a mode that is passed on is one of the driver's.
InKnownTerms(query) ==
  \A i \in DOMAIN query :
    LET p == query[i] IN
    /\ p.key \in S!PARAMETROS_INCOMPATIVEIS \cup S!TlsKeys \cup ConnectArguments
    /\ p.key = "ssl" => p.value \in S!SslModes

\* What a replica makes of any string: other drivers' stays as it is and translating twice
\* changes nothing; for asyncpg every parameter outside the list and TLS is passed on with
\* its value and none is invented, TLS is named when it was and off exactly when a parameter
\* asked for that, and the driver accepts the result whenever the string is unambiguous and
\* in known terms.  Notices go by e-mail exactly when the channel allows it and a server is set.
\* (normalize_async_dsn; build_notifier.)
SettingsUsable ==
  Asked("settings") =>
    LET given == question.dsn
        made  == answer.dsn
        Pairs(dsn)  == {dsn.query[i] : i \in DOMAIN dsn.query}
        Others(dsn) == {p \in Pairs(dsn) : p.key \notin S!PARAMETROS_INCOMPATIVEIS \cup S!TlsKeys}
        Tls(dsn)    == {p \in Pairs(dsn) : p.key \in S!TlsKeys}
        Off(dsn)    == {p \in Tls(dsn) : p.value = "disable"}
    IN /\ S!NormalizeAsyncDsn(made) = made
       /\ given.driver # "asyncpg" => made = given
       /\ given.driver = "asyncpg" =>
            /\ Pairs(made) = Others(made) \cup Tls(made) /\ Others(made) = Others(given)
            /\ Tls(made) = {} <=> Tls(given) = {}
            /\ \A p \in Tls(made) : p.key = "ssl"
            /\ Off(made) = {} <=> Off(given) = {}
            /\ Unambiguous(given.query) /\ InKnownTerms(given.query) => S!Accepts(made)
       /\ answer.notifier = "email" <=> question.host /\ question.channel \in {"email", "auto"}
=============================================================================
