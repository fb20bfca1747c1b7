---------------------------- MODULE SettingsRules ----------------------------
(***************************************************************************)
(* What a replica makes of its environment when it starts: the connection  *)
(* string for the asyncpg driver, and the channel of the notifications.    *)
(* A connection string is [driver, query], its query a sequence of         *)
(* [key, value].                                                           *)
(***************************************************************************)
EXTENDS Subsequences, Functions

CONSTANT ConnectArguments  \* the keyword arguments of asyncpg's connect() that a text can be given for

\* What a managed PostgreSQL puts into the query and asyncpg does not know.
PARAMETROS_INCOMPATIVEIS == {"channel_binding", "options", "target_session_attrs", "connect_timeout"}

\* The parameter that turns TLS on and off: asyncpg's name and libpq's.
TlsKeys == {"ssl", "sslmode"}

\* Mutant of Translated: every value asks for TLS.
TranslatedRequired(p) == IF p.key = "sslmode" THEN [key |-> "ssl", value |-> "require"] ELSE p

Translated(p) ==
  IF p.key = "sslmode"
    THEN [key |-> "ssl", value |-> IF p.value = "disable" THEN "disable" ELSE "require"]
    ELSE p

\* normalize_async_dsn.
NormalizeAsyncDsn(dsn) ==
  LET kept == Only(dsn.query, {p \in Range(dsn.query) : p.key \notin PARAMETROS_INCOMPATIVEIS})
  IN IF dsn.driver = "asyncpg" THEN [dsn EXCEPT !.query = [i \in DOMAIN kept |-> Translated(kept[i])]]
                               ELSE dsn

\* SQLAlchemy passes each key of the query to connect() as a keyword argument, with the tuple
\* of its values when it is repeated: connect() takes keys that it has, each once, and modes
\* of TLS that it knows.
SslModes == {"disable", "allow", "prefer", "require", "verify-ca", "verify-full"}

Accepts(dsn) ==
  /\ \A i \in DOMAIN dsn.query : dsn.query[i].key \in ConnectArguments
  /\ \A i \in DOMAIN dsn.query : dsn.query[i].key = "ssl" => dsn.query[i].value \in SslModes
  /\ \A i, k \in DOMAIN dsn.query : dsn.query[i].key = dsn.query[k].key => i = k

\* build_notifier, by NOTIFICATION_CHANNEL (trimmed, in lower case) and whether SMTP_HOST is set.
BuildNotifier(channel, host) ==
  IF (channel = "email" \/ (channel = "auto" /\ host)) /\ host THEN "email" ELSE "log"
=============================================================================
