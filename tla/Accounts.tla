------------------------------ MODULE Accounts ------------------------------
(***************************************************************************)
(* Organizations, service accounts, their logins, tokens and webhook       *)
(* secrets: ServiceAccountService (accounts/services.py), the admin pages  *)
(* (accounts/admin.py) and the constraints of accounts/models.py, with     *)
(* several admins at work and API requests of the accounts' holders.       *)
(*                                                                         *)
(* An admin page reads its object when the request arrives and writes in a *)
(* later transaction.  An account and its login share an id.  The three    *)
(* limit values are one field: NotSet when one of them is blank.           *)
(***************************************************************************)
EXTENDS Naturals, Functions

CONSTANTS
    Orgs, Names, TokenNames,  \* what an admin may type
    Admins,                   \* admins at work
    Requests,                 \* API requests
    MaxAccounts, MaxKeys      \* accounts and keys (tokens, secrets) made (bounds)

ASSUME AccountsAssumption == MaxAccounts \in Nat /\ MaxKeys \in Nat

Ids == 1..MaxAccounts
Keys == 1..MaxKeys
NotSet == 0
Limits == [unlimited: BOOLEAN, values: {NotSet, 1}]
Account == [org: Orgs, name: Names, secret: Keys, limits: Limits]

VARIABLES
    orgs,      \* organizations
    account,   \* the row of each account that exists
    logins,    \* ids of the users that exist
    knox,      \* knox tokens: who can log in with which key
    named,     \* ServiceAccountToken rows
    jobs,      \* accounts with a Remediation, which PROTECTs them
    made,      \* accounts made so far
    minted,    \* tokens and secrets made so far
    admin,     \* what each admin's request has read
    request,   \* what each API request has read
    orphans    \* history: accounts deleted with their organization

tokenVars == <<knox, named, minted>>
accountVars == <<orgs, account, logins, made, orphans>>
vars == <<orgs, account, logins, knox, named, jobs, made, minted, admin,
          request, orphans>>

accounts == DOMAIN account

Idle == [op |-> "idle"]
Work ==
    {Idle}
    \cup [op: {"add"}, org: Orgs, name: Names, limits: Limits, token: TokenNames]
    \cup [op: {"edit"}, id: Ids, loaded: Account, form: Account]
    \cup [op: {"issue"}, id: Ids, token: TokenNames]
    \cup [op: {"regenerate", "delete"}, id: Ids]

\* Type invariant; a key or an account is one that was made.
TypeOK ==
    /\ orgs \subseteq Orgs
    /\ accounts \subseteq 1..made /\ account \in [accounts -> Account]
    /\ logins \subseteq 1..made
    /\ jobs \subseteq Ids /\ orphans \subseteq Ids
    /\ made \in 0..MaxAccounts /\ minted \in 0..MaxKeys
    /\ knox \subseteq [key: 1..minted, id: 1..made]
    /\ named \subseteq [key: 1..minted, id: 1..made, name: TokenNames]
    /\ admin \in [Admins -> Work]
    /\ request \in [Requests -> [pc: {"idle", "in", "served", "error"},
                                id: Ids \cup {0}]]

-----------------------------------------------------------------------------
\* Constraints of the tables.

\* limits_set_unless_unlimited, also what validate_limits checks.
LimitsSet(l) == l.unlimited \/ l.values # NotSet

\* unique_service_account_name_per_organization
NameTaken(org, name) ==
    \E i \in accounts : account[i].org = org /\ account[i].name = name

\* unique_token_name_per_service_account
TokenNameTaken(i, name) == \E t \in named : t.id = i /\ t.name = name

-----------------------------------------------------------------------------
Open(a, work) == admin[a] = Idle /\ admin' = [admin EXCEPT ![a] = work]
Close(a) == admin' = [admin EXCEPT ![a] = Idle]

AddOrganization(o) ==
    /\ orgs' = orgs \cup {o}
    /\ UNCHANGED <<account, logins, made, tokenVars, jobs, admin,
                   request, orphans>>

\* The Add form is valid: limits set, and the name free when it looks.
OpenAdd(a) ==
    /\ \E o \in orgs, n \in Names, l \in Limits, t \in TokenNames :
          /\ LimitsSet(l) /\ ~NameTaken(o, n)
          /\ Open(a, [op |-> "add", org |-> o, name |-> n, limits |-> l, token |-> t])
    /\ UNCHANGED <<accountVars, tokenVars, jobs, request>>

\* ServiceAccountService.create, one transaction: login, account, secret and
\* first token.  A name taken meanwhile, or an organization deleted meanwhile,
\* is an IntegrityError that rolls all of it back.
Create(w) ==
    LET i == made + 1 IN
    \/ /\ ~NameTaken(w.org, w.name) /\ w.org \in orgs
       /\ made < MaxAccounts /\ minted + 2 <= MaxKeys
       /\ account' = [j \in accounts \cup {i} |->
              IF j = i THEN [org |-> w.org, name |-> w.name,
                             secret |-> minted + 1, limits |-> w.limits]
              ELSE account[j]]
       /\ logins' = logins \cup {i}
       /\ knox' = knox \cup {[key |-> minted + 2, id |-> i]}
       /\ named' = named \cup {[key |-> minted + 2, id |-> i, name |-> w.token]}
       /\ made' = i /\ minted' = minted + 2
    \/ /\ NameTaken(w.org, w.name) \/ w.org \notin orgs
       /\ UNCHANGED <<account, logins, knox, named, made, minted>>

\* save_model of an Add, through _create_with_login.
SaveAdd(a) ==
    /\ admin[a].op = "add"
    /\ Create(admin[a])
    /\ Close(a)
    /\ UNCHANGED <<orgs, jobs, request, orphans>>

\* The name is free in the organization, or the account's own.
NameFree(i, org, name) ==
    (org = account[i].org /\ name = account[i].name) \/ ~NameTaken(org, name)

\* A change form is posted: the row as it is now, and a valid form.
OpenEdit(a) ==
    /\ \E i \in accounts, o \in orgs, n \in Names, l \in Limits :
          /\ LimitsSet(l) /\ NameFree(i, o, n)
          /\ Open(a, [op |-> "edit", id |-> i, loaded |-> account[i],
                      form |-> [account[i] EXCEPT !.org = o, !.name = n, !.limits = l]])
    /\ UNCHANGED <<accountVars, tokenVars, jobs, request>>

\* Mutant: obj.save() writes every field of the copy.
EditedAll(w) == w.form

\* The value a field has after an update of the fields that were changed.
Merged(now, loaded, form) == IF form # loaded THEN form ELSE now

\* save(update_fields=form.changed_data): the row as it is now, with the fields
\* the form changed.
Edited(w) ==
    LET now == account[w.id] IN
    [now EXCEPT
        !.org = Merged(now.org, w.loaded.org, w.form.org),
        !.name = Merged(now.name, w.loaded.name, w.form.name),
        !.limits.unlimited = Merged(now.limits.unlimited,
            w.loaded.limits.unlimited, w.form.limits.unlimited),
        !.limits.values = Merged(now.limits.values, w.loaded.limits.values,
                                 w.form.limits.values)]

\* Mutant: the limits are checked in the form alone, not in the table.
SavesUnchecked(w) ==
    /\ w.id \in accounts
    /\ Edited(w).org \in orgs /\ NameFree(w.id, Edited(w).org, Edited(w).name)

\* The constraints hold of the row that results.
Saves(w) ==
    /\ w.id \in accounts
    /\ LimitsSet(Edited(w).limits)
    /\ Edited(w).org \in orgs /\ NameFree(w.id, Edited(w).org, Edited(w).name)

\* save_model of an edit.  The row may be gone, or break a constraint by now:
\* a server error that changes nothing.
SaveEdit(a) ==
    LET w == admin[a] IN
    /\ w.op = "edit"
    /\ \/ Saves(w) /\ account' = [account EXCEPT ![w.id] = Edited(w)]
       \/ ~Saves(w) /\ UNCHANGED account
    /\ Close(a)
    /\ UNCHANGED <<orgs, logins, made, tokenVars, jobs, request, orphans>>

OpenIssue(a) ==
    /\ \E i \in accounts, t \in TokenNames :
          Open(a, [op |-> "issue", id |-> i, token |-> t])
    /\ UNCHANGED <<accountVars, tokenVars, jobs, request>>

\* Mutant: the knox token outlives the insert that fails after it.
IssueLeaksKey(w) ==
    /\ minted < MaxKeys
    /\ minted' = minted + 1
    /\ knox' = knox \cup {[key |-> minted + 1, id |-> w.id]}
    /\ named' = named \cup IF TokenNameTaken(w.id, w.token) THEN {}
                           ELSE {[key |-> minted + 1, id |-> w.id, name |-> w.token]}

\* issue_token: the knox token and its name, both or, on an IntegrityError
\* (the name is taken, or the account gone), neither.
IssueToken(w) ==
    \/ /\ w.id \in accounts /\ ~TokenNameTaken(w.id, w.token)
       /\ minted < MaxKeys
       /\ minted' = minted + 1
       /\ knox' = knox \cup {[key |-> minted + 1, id |-> w.id]}
       /\ named' = named \cup {[key |-> minted + 1, id |-> w.id, name |-> w.token]}
    \/ /\ w.id \notin accounts \/ TokenNameTaken(w.id, w.token)
       /\ UNCHANGED tokenVars

SaveIssue(a) ==
    /\ admin[a].op = "issue"
    /\ IssueToken(admin[a])
    /\ Close(a)
    /\ UNCHANGED <<accountVars, jobs, request>>

\* revoke_tokens: deleting a knox token cascades to its name; all or none.
RevokeTokens(a) ==
    /\ admin[a] = Idle
    /\ \E gone \in SUBSET named \ {{}} :
          /\ knox' = {k \in knox : \A t \in gone : t.key # k.key}
          /\ named' = named \ gone
    /\ UNCHANGED <<accountVars, minted, jobs, admin, request>>

OpenOther(a) ==
    /\ \E i \in accounts, op \in {"regenerate", "delete"} :
          Open(a, [op |-> op, id |-> i])
    /\ UNCHANGED <<accountVars, tokenVars, jobs, request>>

\* regenerate_webhook_secret: saves the secret alone; the row may be gone.
SaveRegenerate(a) ==
    LET i == admin[a].id IN
    /\ admin[a].op = "regenerate"
    /\ \/ /\ i \in accounts /\ minted < MaxKeys
          /\ account' = [account EXCEPT ![i].secret = minted + 1]
          /\ minted' = minted + 1
       \/ i \notin accounts /\ UNCHANGED <<account, minted>>
    /\ Close(a)
    /\ UNCHANGED <<orgs, logins, made, knox, named, jobs, request, orphans>>

\* Mutant: the account is deleted, its login is not.
DeleteAccountOnly(i) ==
    /\ account' = Restrict(account, accounts \ {i})
    /\ named' = {t \in named : t.id # i}
    /\ UNCHANGED <<logins, knox>>

\* ServiceAccountService.delete: deleting the login cascades to the account,
\* the knox tokens and their names.
DeleteLogin(i) ==
    /\ account' = Restrict(account, accounts \ {i})
    /\ logins' = logins \ {i}
    /\ knox' = {k \in knox : k.id # i}
    /\ named' = {t \in named : t.id # i}

\* Mutant: the jobs go unprotected.
DeleteUnprotected(a) ==
    LET i == admin[a].id IN
    /\ admin[a].op = "delete"
    /\ i \in logins /\ DeleteLogin(i)
    /\ Close(a)
    /\ UNCHANGED <<orgs, made, minted, jobs, request, orphans>>

\* delete_model: the login of the account on the page is deleted, also when the
\* account itself went with its organization since.  An account with jobs is
\* PROTECTed; a login that is gone is a server error.
SaveDelete(a) ==
    LET i == admin[a].id IN
    /\ admin[a].op = "delete"
    /\ \/ i \in logins \ jobs /\ DeleteLogin(i)
       \/ i \notin logins \ jobs /\ UNCHANGED <<account, logins, knox, named>>
    /\ Close(a)
    /\ UNCHANGED <<orgs, made, minted, jobs, request, orphans>>

\* OrganizationAdmin is Django's own: the cascade reaches the accounts and the
\* token names, not the logins and the knox tokens.
DeleteOrganization(o) ==
    LET gone == {i \in accounts : account[i].org = o} IN
    /\ o \in orgs /\ gone \cap jobs = {}
    /\ orgs' = orgs \ {o}
    /\ account' = Restrict(account, accounts \ gone)
    /\ named' = {t \in named : t.id \notin gone}
    /\ orphans' = orphans \cup gone
    /\ UNCHANGED <<logins, knox, jobs, made, minted, admin, request>>

-----------------------------------------------------------------------------
\* A request is authenticated and initial() looks its account up: a login
\* without one fails the assertion of ServiceAccountRequiredMixin, one with
\* half-filled limits is denied.
Enter(r) ==
    /\ request[r].pc = "idle"
    /\ \E k \in knox :
          \/ /\ k.id \in accounts /\ LimitsSet(account[k.id].limits)
             /\ request' = [request EXCEPT ![r] = [pc |-> "in", id |-> k.id]]
          \/ /\ ~(k.id \in accounts /\ LimitsSet(account[k.id].limits))
             /\ request' = [request EXCEPT ![r].pc = "error"]
    /\ UNCHANGED <<accountVars, tokenVars, jobs, admin>>

\* The view makes a job for the account it looked up, which may be gone.
Submit(r) ==
    LET i == request[r].id IN
    /\ request[r].pc = "in"
    /\ \/ /\ i \in accounts /\ jobs' = jobs \cup {i}
          /\ request' = [request EXCEPT ![r] = [pc |-> "served", id |-> 0]]
       \/ /\ i \notin accounts /\ UNCHANGED jobs
          /\ request' = [request EXCEPT ![r] = [pc |-> "error", id |-> 0]]
    /\ UNCHANGED <<accountVars, tokenVars, admin>>

Init ==
    /\ orgs = {} /\ account = <<>> /\ logins = {}
    /\ knox = {} /\ named = {} /\ jobs = {}
    /\ made = 0 /\ minted = 0
    /\ admin = [a \in Admins |-> Idle]
    /\ request = [r \in Requests |-> [pc |-> "idle", id |-> 0]]
    /\ orphans = {}

Next ==
    \/ \E o \in Orgs : AddOrganization(o) \/ DeleteOrganization(o)
    \/ \E a \in Admins :
          \/ OpenAdd(a) \/ SaveAdd(a)
          \/ OpenEdit(a) \/ SaveEdit(a)
          \/ OpenIssue(a) \/ SaveIssue(a)
          \/ OpenOther(a) \/ SaveRegenerate(a) \/ SaveDelete(a)
          \/ RevokeTokens(a)
    \/ \E r \in Requests : Enter(r) \/ Submit(r)

Spec == Init /\ [][Next]_vars

-----------------------------------------------------------------------------
\* No interleaving of edits that each save only their own fields leaves limits
\* half-filled, a state in which every submission is denied (ServiceAccount.save:
\* "an account with half-filled limits can never be saved").
NeverHalfFilled == \A i \in accounts : LimitsSet(account[i].limits)

\* Whoever can log in has an account, so that deleting an account, a refused Add
\* or a lost race never leaves a working login behind; only the deletion of an
\* organization does (services.py: "Deleting only the account would leave the
\* login and its knox tokens working").
LoginHasAccount == logins \subseteq accounts \cup orphans

\* Every key that opens an account is listed under a name in the admin, where
\* it can be revoked, and every name listed stands for a key that works.
KeysAreListed ==
    {[key |-> t.key, id |-> t.id] : t \in named} = {k \in knox : k.id \in accounts}

\* Whatever opens the API is listed where it can be revoked, between any two
\* steps of any admins (services.py create, issue_token, revoke_token, delete).
AccessIsListed == TypeOK /\ LoginHasAccount /\ KeysAreListed

\* A job is never left without its account, however deletions race with the
\* submissions of requests already let in.
JobsKeepTheirAccount == jobs \subseteq accounts

\* A webhook secret that was replaced never comes back, whatever edit forms of
\* the account were under way (save_model: "a stale form can't overwrite a
\* webhook secret").
SecretNeverReverts ==
    [][\A i \in accounts \cap accounts' : account'[i].secret >= account[i].secret]_vars
=============================================================================
