--------------------------------- MODULE Access ---------------------------------
(***************************************************************************)
(* Who a request is from: what a token amounts to (backend/auth.py), which  *)
(* company it puts the caller in (backend/tenants.py), and which rows of    *)
(* the library that caller may read (backend/library.py).                   *)
(***************************************************************************)
EXTENDS FiniteSets

CONSTANTS
    Aliases,        \* the Organization aliases a realm can issue
    LongAliases,    \* those longer than tenant.extern_ref
    Default,        \* the ref of the seeded tenant
    Nobody          \* no alias; created_by of a built-in; no tenant stamped

ASSUME AccessAssumption ==
    /\ LongAliases \subseteq Aliases
    /\ Default \notin Aliases /\ Nobody \notin Aliases /\ Default # Nobody

Tenants == (Aliases \ LongAliases) \cup {Default}

\* A token as its verification finds it; `unverifiable`: the realm is down.
Token(state, admitted, organization) ==
    [state |-> state, admitted |-> admitted, organization |-> organization]
Tokens == [state: {"valid", "rejected", "unverifiable"}, admitted: BOOLEAN,
           organization: SUBSET Aliases]

\* The one alias, or none: several are no answer.
Organization(claim) ==
    IF Cardinality(claim) = 1 THEN CHOOSE a \in claim : TRUE ELSE Nobody

TenantRef(token) ==
    LET alias == Organization(token.organization) IN
    IF alias \in Aliases \ LongAliases THEN alias ELSE Default

\* require_user; the handshake words the same three refusals for itself.
Verdict(token) ==
    CASE token.state = "unverifiable" -> "503"
      [] token.state = "rejected" -> "401"
      [] token.state = "valid" /\ ~token.admitted -> "403"
      [] OTHER -> "admitted"

\* A company is registered on first sight; `default` is seeded.
Registered(tenants, token) == tenants \cup {TenantRef(token)}

\* Public rows, rows shared with the caller's company, and the caller's own.
VisibleTo(row, subject, tenant) ==
    \/ row.visibility = "public"
    \/ row.visibility = "tenant" /\ row.tenant = tenant
    \/ row.by = subject
================================================================================
