--------------------------- MODULE AccountsProofs ---------------------------
(***************************************************************************)
(* Theorems about Accounts, for any organizations, names, admins, requests *)
(* and bounds.                                                             *)
(***************************************************************************)
EXTENDS Accounts, TLAPS

\* A key is minted once: it opens one account and is listed once.
KeysUnique ==
    /\ \A k, l \in knox : k.key = l.key => k = l
    /\ \A s, t \in named : s.key = t.key => s = t

\* A secret is one that was made.
SecretsMade == \A i \in accounts : account[i].secret <= minted

\* An Add form on its way to the table is valid by itself.
AddsValid == \A a \in Admins : admin[a].op = "add" => LimitsSet(admin[a].limits)

AccountsInv ==
    /\ TypeOK /\ KeysUnique /\ SecretsMade /\ AddsValid
    /\ LoginHasAccount /\ KeysAreListed /\ NeverHalfFilled /\ JobsKeepTheirAccount

-----------------------------------------------------------------------------
LEMMA AccountsInit == Init => AccountsInv
<1> SUFFICES ASSUME Init PROVE AccountsInv
  OBVIOUS
<1>1. accounts = {} /\ account \in [accounts -> Account]
  BY DEF Init, accounts
<1>2. TypeOK
  BY <1>1, AccountsAssumption DEF Init, TypeOK, Work, Ids, Idle
<1>3. KeysUnique /\ SecretsMade /\ AddsValid
  BY <1>1 DEF Init, KeysUnique, SecretsMade, AddsValid, Idle
<1>4. LoginHasAccount /\ KeysAreListed /\ NeverHalfFilled /\ JobsKeepTheirAccount
  BY <1>1 DEF Init, LoginHasAccount, KeysAreListed, NeverHalfFilled, JobsKeepTheirAccount
<1> QED BY <1>2, <1>3, <1>4 DEF AccountsInv

\* What an admin has read.
LEMMA WorkFields ==
    ASSUME TypeOK, NEW a \in Admins
    PROVE  /\ admin[a].op = "add" => /\ admin[a].org \in Orgs /\ admin[a].name \in Names
                                     /\ admin[a].limits \in Limits /\ admin[a].token \in TokenNames
           /\ admin[a].op = "edit" => /\ admin[a].id \in Ids /\ admin[a].loaded \in Account
                                      /\ admin[a].form \in Account
           /\ admin[a].op = "issue" => admin[a].id \in Ids /\ admin[a].token \in TokenNames
           /\ admin[a].op \in {"regenerate", "delete"} => admin[a].id \in Ids
<1>1. admin[a] \in Work
  BY DEF TypeOK
<1> QED BY <1>1 DEF Work, Idle

\* An admin's form is opened: nothing is written.
LEMMA OpenKeeps ==
    ASSUME AccountsInv, NEW a \in Admins, NEW w \in Work, admin' = [admin EXCEPT ![a] = w],
           w.op = "add" => LimitsSet(w.limits),
           UNCHANGED <<accountVars, tokenVars, jobs, request>>
    PROVE  AccountsInv'
<1>1. UNCHANGED <<orgs, account, logins, made, orphans, knox, named, minted>>
  BY DEF accountVars, tokenVars
<1>2. TypeOK'
  BY <1>1 DEF AccountsInv, TypeOK, accounts
<1>3. KeysUnique' /\ SecretsMade'
  BY <1>1 DEF AccountsInv, KeysUnique, SecretsMade, accounts
<1>4. AddsValid'
  BY DEF AccountsInv, TypeOK, AddsValid
<1>5. LoginHasAccount' /\ KeysAreListed' /\ NeverHalfFilled' /\ JobsKeepTheirAccount'
  BY <1>1 DEF AccountsInv, LoginHasAccount, KeysAreListed, NeverHalfFilled,
              JobsKeepTheirAccount, accounts
<1> QED BY <1>2, <1>3, <1>4, <1>5 DEF AccountsInv

LEMMA CloseKeeps ==
    ASSUME TypeOK, AddsValid, NEW a \in Admins, Close(a)
    PROVE  admin' \in [Admins -> Work] /\ AddsValid'
BY DEF TypeOK, AddsValid, Close, Work, Idle

\* The loaded row and the fields of the form give a row.
LEMMA EditedRow ==
    ASSUME NEW w, w.id \in accounts, account[w.id] \in Account, w.form \in Account
    PROVE  Edited(w) \in Account /\ Edited(w).secret = account[w.id].secret
BY DEF Edited, Account, Limits, Merged

LEMMA CreateKeeps ==
    ASSUME AccountsInv, NEW a \in Admins, SaveAdd(a)
    PROVE  AccountsInv'
<1>0. /\ TypeOK /\ KeysUnique /\ SecretsMade /\ AddsValid /\ LoginHasAccount /\ KeysAreListed
      /\ NeverHalfFilled /\ JobsKeepTheirAccount
  BY DEF AccountsInv
<1>1. admin' \in [Admins -> Work] /\ AddsValid'
  BY <1>0, CloseKeeps DEF SaveAdd
<1>2. UNCHANGED <<orgs, jobs, request, orphans>>
  BY DEF SaveAdd
<1> DEFINE w == admin[a]
           i == made + 1
           row == [org |-> w.org, name |-> w.name, secret |-> minted + 1, limits |-> w.limits]
           key == [key |-> minted + 2, id |-> i]
           name == [key |-> minted + 2, id |-> i, name |-> w.token]
<1>3. CASE UNCHANGED <<account, logins, knox, named, made, minted>>
  <2>1. TypeOK'
    BY <1>0, <1>1, <1>2, <1>3 DEF TypeOK, accounts
  <2>2. /\ KeysUnique' /\ SecretsMade' /\ LoginHasAccount' /\ KeysAreListed'
        /\ NeverHalfFilled' /\ JobsKeepTheirAccount'
    BY <1>0, <1>2, <1>3 DEF KeysUnique, SecretsMade, LoginHasAccount, KeysAreListed,
                            NeverHalfFilled, JobsKeepTheirAccount, accounts
  <2> QED BY <1>1, <2>1, <2>2 DEF AccountsInv
<1>4. CASE /\ made < MaxAccounts /\ minted + 2 <= MaxKeys
           /\ account' = [j \in accounts \cup {i} |-> IF j = i THEN row ELSE account[j]]
           /\ logins' = logins \cup {i} /\ knox' = knox \cup {key} /\ named' = named \cup {name}
           /\ made' = i /\ minted' = minted + 2
  <2>1. /\ made \in Nat /\ minted \in Nat /\ i \in 1..made' /\ 1..made \subseteq 1..made'
        /\ 1..minted \subseteq 1..minted' /\ minted + 2 \in 1..minted' /\ i \notin 1..made
        /\ minted + 2 \notin 1..minted /\ minted + 1 \in Keys
        /\ made' \in 0..MaxAccounts /\ minted' \in 0..MaxKeys
    BY <1>0, <1>4, AccountsAssumption DEF TypeOK, Keys
  <2>2. /\ w.org \in Orgs /\ w.name \in Names /\ w.limits \in Limits /\ w.token \in TokenNames
        /\ LimitsSet(w.limits)
    BY <1>0, WorkFields DEF SaveAdd, AddsValid
  <2>3. row \in Account /\ row.secret = minted + 1 /\ row.limits = w.limits
    BY <2>1, <2>2 DEF Account
  <2>4. i \notin accounts /\ accounts' = accounts \cup {i}
    BY <1>0, <1>4, <2>1 DEF TypeOK, accounts
  <2>5. account'[i] = row /\ \A j \in accounts : account'[j] = account[j]
    BY <1>4, <2>4
  <2> HIDE DEF row, i, w
  <2>6. account' \in [accounts' -> Account]
    BY <1>0, <1>4, <2>3, <2>4 DEF TypeOK
  <2>7. /\ knox' \subseteq [key: 1..minted', id: 1..made']
        /\ named' \subseteq [key: 1..minted', id: 1..made', name: TokenNames]
    <3>1. key \in [key: 1..minted', id: 1..made']
      BY <2>1
    <3>2. name \in [key: 1..minted', id: 1..made', name: TokenNames]
      BY <2>1, <2>2
    <3> HIDE DEF key, name
    <3>3. [key: 1..minted, id: 1..made] \subseteq [key: 1..minted', id: 1..made']
      BY <2>1
    <3>4. [key: 1..minted, id: 1..made, name: TokenNames]
            \subseteq [key: 1..minted', id: 1..made', name: TokenNames]
      BY <2>1
    <3> QED BY <1>0, <1>4, <3>1, <3>2, <3>3, <3>4 DEF TypeOK
  <2>8. TypeOK'
    BY <1>0, <1>1, <1>2, <1>4, <2>1, <2>4, <2>6, <2>7 DEF TypeOK
  <2>9. KeysUnique'
    <3>1. /\ \A k \in knox : k.key # minted + 2
          /\ \A t \in named : t.key # minted + 2
      BY <1>0, <2>1 DEF TypeOK
    <3>2. key.key = minted + 2 /\ name.key = minted + 2
      OBVIOUS
    <3> HIDE DEF key, name
    <3> QED BY <1>0, <1>4, <3>1, <3>2 DEF KeysUnique
  <2>10. SecretsMade'
    <3>1. \A j \in accounts : account[j].secret <= minted /\ account[j].secret \in Nat
      BY <1>0 DEF SecretsMade, TypeOK, Account, Keys
    <3>2. \A x \in Nat : x <= minted => x <= minted + 2
      BY <2>1
    <3>3. minted + 1 <= minted + 2
      BY <2>1
    <3> QED BY <1>4, <2>3, <2>4, <2>5, <3>1, <3>2, <3>3 DEF SecretsMade
  <2>11. LoginHasAccount' /\ JobsKeepTheirAccount' /\ NeverHalfFilled'
    BY <1>0, <1>2, <1>4, <2>2, <2>3, <2>4, <2>5
       DEF LoginHasAccount, JobsKeepTheirAccount, NeverHalfFilled
  <2>12. KeysAreListed'
    <3>1. \A k \in knox : k.id # i
      BY <1>0, <2>1 DEF TypeOK
    <3>2. key.id = i /\ [key |-> name.key, id |-> name.id] = key
      OBVIOUS
    <3> HIDE DEF key, name
    <3>3. {k \in knox' : k.id \in accounts'} = {k \in knox : k.id \in accounts} \cup {key}
      BY <1>4, <2>4, <3>1, <3>2
    <3>4. {[key |-> t.key, id |-> t.id] : t \in named'}
            = {[key |-> t.key, id |-> t.id] : t \in named} \cup {key}
      BY <1>4, <3>2
    <3> QED BY <1>0, <3>3, <3>4 DEF KeysAreListed
  <2> QED BY <1>1, <2>8, <2>9, <2>10, <2>11, <2>12 DEF AccountsInv
<1> QED BY <1>3, <1>4 DEF SaveAdd, Create

LEMMA EditKeeps ==
    ASSUME AccountsInv, NEW a \in Admins, SaveEdit(a)
    PROVE  AccountsInv'
<1>0. /\ TypeOK /\ KeysUnique /\ SecretsMade /\ AddsValid /\ LoginHasAccount /\ KeysAreListed
      /\ NeverHalfFilled /\ JobsKeepTheirAccount
  BY DEF AccountsInv
<1>1. admin' \in [Admins -> Work] /\ AddsValid'
  BY <1>0, CloseKeeps DEF SaveEdit
<1>2. UNCHANGED <<orgs, logins, made, knox, named, minted, jobs, request, orphans>>
  BY DEF SaveEdit, tokenVars
<1> DEFINE w == admin[a]
           row == Edited(w)
<1>3. /\ accounts' = accounts /\ account' \in [accounts -> Account]
      /\ \A i \in accounts : /\ account'[i].secret = account[i].secret
                             /\ LimitsSet(account'[i].limits)
  <2>1. CASE account' = account
    BY <1>0, <2>1 DEF accounts, TypeOK, NeverHalfFilled
  <2>2. CASE Saves(w) /\ account' = [account EXCEPT ![w.id] = Edited(w)]
    <3>1. w.id \in accounts /\ LimitsSet(row.limits) /\ w.form \in Account
      BY <1>0, <2>2, WorkFields DEF Saves, SaveEdit
    <3>2. row \in Account /\ row.secret = account[w.id].secret
      BY <1>0, <3>1, EditedRow DEF TypeOK
    <3> HIDE DEF row
    <3>3. account' = [account EXCEPT ![w.id] = row]
      BY <2>2 DEF row
    <3> QED BY <1>0, <3>1, <3>2, <3>3 DEF accounts, TypeOK, NeverHalfFilled
  <2> QED BY <2>1, <2>2 DEF SaveEdit
<1>4. TypeOK'
  BY <1>0, <1>1, <1>2, <1>3 DEF TypeOK
<1>5. KeysUnique' /\ SecretsMade' /\ NeverHalfFilled'
  BY <1>0, <1>2, <1>3 DEF KeysUnique, SecretsMade, NeverHalfFilled
<1>6. LoginHasAccount' /\ KeysAreListed' /\ JobsKeepTheirAccount'
  BY <1>0, <1>2, <1>3 DEF LoginHasAccount, KeysAreListed, JobsKeepTheirAccount
<1> QED BY <1>1, <1>4, <1>5, <1>6 DEF AccountsInv

LEMMA IssueKeeps ==
    ASSUME AccountsInv, NEW a \in Admins, SaveIssue(a)
    PROVE  AccountsInv'
<1>0. /\ TypeOK /\ KeysUnique /\ SecretsMade /\ AddsValid /\ LoginHasAccount /\ KeysAreListed
      /\ NeverHalfFilled /\ JobsKeepTheirAccount
  BY DEF AccountsInv
<1>1. admin' \in [Admins -> Work] /\ AddsValid'
  BY <1>0, CloseKeeps DEF SaveIssue
<1>2. UNCHANGED <<orgs, account, logins, made, orphans, jobs, request>> /\ accounts' = accounts
  BY DEF SaveIssue, accountVars, accounts
<1>3. LoginHasAccount' /\ NeverHalfFilled' /\ JobsKeepTheirAccount'
  BY <1>0, <1>2 DEF LoginHasAccount, NeverHalfFilled, JobsKeepTheirAccount
<1> DEFINE w == admin[a]
           key == [key |-> minted + 1, id |-> w.id]
           name == [key |-> minted + 1, id |-> w.id, name |-> w.token]
<1>4. CASE UNCHANGED tokenVars
  <2>1. TypeOK'
    BY <1>0, <1>1, <1>2, <1>4 DEF TypeOK, tokenVars
  <2>2. KeysUnique' /\ SecretsMade' /\ KeysAreListed'
    BY <1>0, <1>2, <1>4 DEF KeysUnique, SecretsMade, KeysAreListed, tokenVars
  <2> QED BY <1>1, <1>3, <2>1, <2>2 DEF AccountsInv
<1>5. CASE /\ w.id \in accounts /\ minted < MaxKeys /\ minted' = minted + 1
           /\ knox' = knox \cup {key} /\ named' = named \cup {name}
  <2>1. /\ minted \in Nat /\ 1..minted \subseteq 1..minted' /\ minted + 1 \in 1..minted'
        /\ minted + 1 \notin 1..minted /\ minted' \in 0..MaxKeys
        /\ w.id \in 1..made /\ w.token \in TokenNames
    <3>1. minted \in 0..MaxKeys /\ accounts \subseteq 1..made
      BY <1>0 DEF TypeOK
    <3>2. w.token \in TokenNames
      BY <1>0, WorkFields DEF SaveIssue
    <3>3. w.id \in 1..made
      BY <1>5, <3>1
    <3>4. minted' = minted + 1 /\ minted < MaxKeys
      BY <1>5
    <3> HIDE DEF w, key, name
    <3>5. /\ minted \in Nat /\ 1..minted \subseteq 1..minted' /\ minted + 1 \in 1..minted'
          /\ minted + 1 \notin 1..minted /\ minted' \in 0..MaxKeys
      BY ONLY <3>1, <3>4, AccountsAssumption
    <3> QED BY <3>2, <3>3, <3>5
  <2>2. /\ knox' \subseteq [key: 1..minted', id: 1..made]
        /\ named' \subseteq [key: 1..minted', id: 1..made, name: TokenNames]
    <3>1. key \in [key: 1..minted', id: 1..made]
      BY <2>1
    <3>2. name \in [key: 1..minted', id: 1..made, name: TokenNames]
      BY <2>1
    <3> HIDE DEF key, name
    <3>3. [key: 1..minted, id: 1..made] \subseteq [key: 1..minted', id: 1..made]
      BY <2>1
    <3>4. [key: 1..minted, id: 1..made, name: TokenNames]
            \subseteq [key: 1..minted', id: 1..made, name: TokenNames]
      BY <2>1
    <3> QED BY <1>0, <1>5, <3>1, <3>2, <3>3, <3>4 DEF TypeOK
  <2>3. TypeOK'
    BY <1>0, <1>1, <1>2, <2>1, <2>2 DEF TypeOK
  <2>4. KeysUnique'
    <3>1. /\ \A k \in knox : k.key # minted + 1
          /\ \A t \in named : t.key # minted + 1
      BY <1>0, <2>1 DEF TypeOK
    <3>2. key.key = minted + 1 /\ name.key = minted + 1
      OBVIOUS
    <3> HIDE DEF key, name
    <3> QED BY <1>0, <1>5, <3>1, <3>2 DEF KeysUnique
  <2>5. SecretsMade'
    <3>1. \A j \in accounts : account[j].secret <= minted /\ account[j].secret \in Nat
      BY <1>0 DEF SecretsMade, TypeOK, Account, Keys
    <3>2. \A x \in Nat : x <= minted => x <= minted + 1
      BY <2>1
    <3> QED BY <1>2, <1>5, <3>1, <3>2 DEF SecretsMade
  <2>6. KeysAreListed'
    <3>1. key.id = w.id /\ [key |-> name.key, id |-> name.id] = key
      OBVIOUS
    <3> HIDE DEF key, name
    <3>2. {k \in knox' : k.id \in accounts} = {k \in knox : k.id \in accounts} \cup {key}
      BY <1>5, <3>1
    <3>3. {[key |-> t.key, id |-> t.id] : t \in named'}
            = {[key |-> t.key, id |-> t.id] : t \in named} \cup {key}
      BY <1>5, <3>1
    <3> QED BY <1>0, <1>2, <3>2, <3>3 DEF KeysAreListed
  <2> QED BY <1>1, <1>3, <2>3, <2>4, <2>5, <2>6 DEF AccountsInv
<1> QED BY <1>4, <1>5 DEF SaveIssue, IssueToken

LEMMA RevokeKeeps ==
    ASSUME AccountsInv, NEW a \in Admins, RevokeTokens(a)
    PROVE  AccountsInv'
<1>0. /\ TypeOK /\ KeysUnique /\ SecretsMade /\ AddsValid /\ LoginHasAccount /\ KeysAreListed
      /\ NeverHalfFilled /\ JobsKeepTheirAccount
  BY DEF AccountsInv
<1>1. PICK gone \in SUBSET named \ {{}} :
         /\ knox' = {k \in knox : \A t \in gone : t.key # k.key}
         /\ named' = named \ gone
  BY DEF RevokeTokens
<1>2. /\ UNCHANGED <<orgs, account, logins, made, orphans, minted, jobs, admin, request>>
      /\ accounts' = accounts
  BY DEF RevokeTokens, accountVars, accounts
<1>3. TypeOK' /\ SecretsMade' /\ AddsValid'
  BY <1>0, <1>1, <1>2 DEF TypeOK, SecretsMade, AddsValid
<1>4. LoginHasAccount' /\ NeverHalfFilled' /\ JobsKeepTheirAccount'
  BY <1>0, <1>2 DEF LoginHasAccount, NeverHalfFilled, JobsKeepTheirAccount
<1>5. KeysUnique'
  BY <1>0, <1>1 DEF KeysUnique
<1>6. KeysAreListed'
  <2> DEFINE Entry(t) == [key |-> t.key, id |-> t.id]
  <2>1. \A t \in named : Entry(t) \in knox /\ Entry(t).id \in accounts
    BY <1>0 DEF KeysAreListed
  <2>2. \A k \in knox : k.id \in accounts => \E t \in named : k = Entry(t)
    BY <1>0 DEF KeysAreListed
  <2>3. ASSUME NEW t \in named' PROVE Entry(t) \in {k \in knox' : k.id \in accounts'}
    <3>1. t \in named /\ t \notin gone /\ Entry(t).key = t.key
      BY <1>1, <2>3
    <3>2. \A s \in gone : s.key # t.key
      BY <1>0, <1>1, <3>1 DEF KeysUnique
    <3> HIDE DEF Entry
    <3> QED BY <1>1, <1>2, <2>1, <3>1, <3>2
  <2>4. ASSUME NEW k \in knox', k.id \in accounts' PROVE \E t \in named' : k = Entry(t)
    <3>1. PICK t \in named : k = Entry(t)
      BY <1>1, <1>2, <2>2, <2>4
    <3>2. k.key = t.key
      BY <3>1
    <3>3. t \notin gone
      BY <1>1, <3>2
    <3> HIDE DEF Entry
    <3> QED BY <1>1, <3>1, <3>3
  <2>5. {Entry(t) : t \in named'} = {k \in knox' : k.id \in accounts'}
    <3> HIDE DEF Entry
    <3> QED BY <2>3, <2>4
  <2> QED BY <2>5 DEF KeysAreListed
<1> QED BY <1>3, <1>4, <1>5, <1>6 DEF AccountsInv

LEMMA RegenerateKeeps ==
    ASSUME AccountsInv, NEW a \in Admins, SaveRegenerate(a)
    PROVE  AccountsInv'
<1>0. /\ TypeOK /\ KeysUnique /\ SecretsMade /\ AddsValid /\ LoginHasAccount /\ KeysAreListed
      /\ NeverHalfFilled /\ JobsKeepTheirAccount
  BY DEF AccountsInv
<1>1. admin' \in [Admins -> Work] /\ AddsValid'
  BY <1>0, CloseKeeps DEF SaveRegenerate
<1>2. UNCHANGED <<orgs, logins, made, knox, named, jobs, request, orphans>>
  BY DEF SaveRegenerate
<1>3. minted' \in 0..MaxKeys /\ minted <= minted' /\ minted \in Nat /\ 1..minted \subseteq 1..minted'
      /\ minted' \in Nat
  <2>1. (minted < MaxKeys /\ minted' = minted + 1) \/ minted' = minted
    BY DEF SaveRegenerate
  <2>2. minted \in 0..MaxKeys
    BY <1>0 DEF TypeOK
  <2> QED BY <2>1, <2>2, AccountsAssumption
<1>4. /\ accounts' = accounts /\ account' \in [accounts -> Account]
      /\ \A i \in accounts : /\ account'[i].limits = account[i].limits
                             /\ account'[i].secret <= minted'
  <2>1. CASE UNCHANGED <<account, minted>>
    BY <1>0, <2>1 DEF accounts, TypeOK, SecretsMade
  <2>2. CASE /\ admin[a].id \in accounts /\ minted < MaxKeys /\ minted' = minted + 1
             /\ account' = [account EXCEPT ![admin[a].id].secret = minted + 1]
    <3>1. minted + 1 \in Keys
      BY <1>3, <2>2, AccountsAssumption DEF Keys
    <3>2. \A i \in accounts : account[i].secret <= minted + 1
      <4>1. \A j \in accounts : account[j].secret <= minted /\ account[j].secret \in Nat
        BY <1>0 DEF SecretsMade, TypeOK, Account, Keys
      <4>2. \A x \in Nat : x <= minted => x <= minted + 1
        BY <1>3
      <4> QED BY <4>1, <4>2
    <3>3. PICK i \in accounts : i = admin[a].id
      BY <2>2
    <3> DEFINE row == [account[i] EXCEPT !.secret = minted + 1]
    <3>4. row \in Account /\ row.limits = account[i].limits /\ row.secret = minted + 1
      BY <1>0, <3>1, <3>3 DEF TypeOK, Account
    <3>5. account' = [account EXCEPT ![i] = row]
      BY <2>2, <3>3
    <3>6. minted + 1 <= minted + 1
      BY <1>3
    <3> HIDE DEF row
    <3> QED BY <1>0, <2>2, <3>2, <3>3, <3>4, <3>5, <3>6 DEF TypeOK, accounts
  <2> QED BY <2>1, <2>2 DEF SaveRegenerate
<1>5. /\ knox \subseteq [key: 1..minted', id: 1..made]
      /\ named \subseteq [key: 1..minted', id: 1..made, name: TokenNames]
  BY <1>0, <1>3 DEF TypeOK
<1>6. TypeOK'
  BY <1>0, <1>1, <1>2, <1>3, <1>4, <1>5 DEF TypeOK
<1>7. KeysUnique' /\ SecretsMade' /\ NeverHalfFilled'
  BY <1>0, <1>2, <1>4 DEF KeysUnique, SecretsMade, NeverHalfFilled
<1>8. LoginHasAccount' /\ KeysAreListed' /\ JobsKeepTheirAccount'
  BY <1>0, <1>2, <1>4 DEF LoginHasAccount, KeysAreListed, JobsKeepTheirAccount
<1> QED BY <1>1, <1>6, <1>7, <1>8 DEF AccountsInv

\* Rows go: what stays is as it was.
LEMMA RowsGo ==
    ASSUME AccountsInv, NEW gone \in SUBSET accounts, gone \cap jobs = {},
           account' = Restrict(account, accounts \ gone),
           UNCHANGED <<jobs, made, minted, request>>
    PROVE  /\ accounts' = accounts \ gone /\ account' \in [accounts' -> Account]
           /\ SecretsMade' /\ NeverHalfFilled' /\ JobsKeepTheirAccount'
           /\ \A i \in accounts' : account'[i] = account[i]
<1>0. /\ TypeOK /\ SecretsMade /\ NeverHalfFilled /\ JobsKeepTheirAccount
  BY DEF AccountsInv
<1>1. accounts' = accounts \ gone /\ account' = [i \in accounts \ gone |-> account[i]]
  BY DEF Restrict, accounts
<1>2. account' \in [accounts' -> Account] /\ \A i \in accounts' : account'[i] = account[i]
  BY <1>0, <1>1 DEF TypeOK
<1>3. SecretsMade' /\ NeverHalfFilled' /\ JobsKeepTheirAccount'
  BY <1>0, <1>1, <1>2 DEF SecretsMade, NeverHalfFilled, JobsKeepTheirAccount
<1> QED BY <1>1, <1>2, <1>3

LEMMA DeleteKeeps ==
    ASSUME AccountsInv, NEW a \in Admins, SaveDelete(a)
    PROVE  AccountsInv'
<1>0. /\ TypeOK /\ KeysUnique /\ SecretsMade /\ AddsValid /\ LoginHasAccount /\ KeysAreListed
      /\ NeverHalfFilled /\ JobsKeepTheirAccount
  BY DEF AccountsInv
<1>1. admin' \in [Admins -> Work] /\ AddsValid'
  BY <1>0, CloseKeeps DEF SaveDelete
<1>2. UNCHANGED <<orgs, made, minted, jobs, request, orphans>>
  BY DEF SaveDelete
<1>3. CASE UNCHANGED <<account, logins, knox, named>>
  <2>1. TypeOK'
    BY <1>0, <1>1, <1>2, <1>3 DEF TypeOK, accounts
  <2>2. /\ KeysUnique' /\ SecretsMade' /\ LoginHasAccount' /\ KeysAreListed'
        /\ NeverHalfFilled' /\ JobsKeepTheirAccount'
    BY <1>0, <1>2, <1>3 DEF KeysUnique, SecretsMade, LoginHasAccount, KeysAreListed,
                            NeverHalfFilled, JobsKeepTheirAccount, accounts
  <2> QED BY <1>1, <2>1, <2>2 DEF AccountsInv
<1>4. CASE admin[a].id \in logins \ jobs /\ DeleteLogin(admin[a].id)
  <2>1. PICK i \in logins \ jobs : i = admin[a].id
    BY <1>4
  <2>2. /\ account' = Restrict(account, accounts \ {i}) /\ logins' = logins \ {i}
        /\ knox' = {k \in knox : k.id # i} /\ named' = {t \in named : t.id # i}
    BY <1>4, <2>1 DEF DeleteLogin
  <2>3. /\ accounts' = accounts \ {i} /\ account' \in [accounts' -> Account]
        /\ SecretsMade' /\ NeverHalfFilled' /\ JobsKeepTheirAccount'
    <3> DEFINE gone == {i} \cap accounts
    <3>1. gone \in SUBSET accounts /\ gone \cap jobs = {} /\ accounts \ {i} = accounts \ gone
      BY <2>1
    <3> HIDE DEF gone
    <3> QED BY <1>2, <2>2, <3>1, RowsGo
  <2>4. TypeOK'
    BY <1>0, <1>1, <1>2, <2>2, <2>3 DEF TypeOK
  <2>5. KeysUnique' /\ LoginHasAccount'
    BY <1>0, <1>2, <2>2, <2>3 DEF KeysUnique, LoginHasAccount
  <2>6. KeysAreListed'
    <3> DEFINE Entry(t) == [key |-> t.key, id |-> t.id]
    <3>1. {Entry(t) : t \in named} = {k \in knox : k.id \in accounts}
      BY <1>0 DEF KeysAreListed
    <3>2. \A t \in named : Entry(t).id = t.id
      OBVIOUS
    <3> HIDE DEF Entry
    <3>3. {Entry(t) : t \in named'} = {k \in knox' : k.id \in accounts'}
      BY <2>2, <2>3, <3>1, <3>2
    <3> QED BY <3>3 DEF KeysAreListed, Entry
  <2> QED BY <1>1, <2>3, <2>4, <2>5, <2>6 DEF AccountsInv
<1> QED BY <1>3, <1>4 DEF SaveDelete

LEMMA OrganizationKeeps ==
    ASSUME AccountsInv, NEW o \in Orgs, DeleteOrganization(o)
    PROVE  AccountsInv'
<1>0. /\ TypeOK /\ KeysUnique /\ SecretsMade /\ AddsValid /\ LoginHasAccount /\ KeysAreListed
      /\ NeverHalfFilled /\ JobsKeepTheirAccount
  BY DEF AccountsInv
<1> DEFINE G == {i \in accounts : account[i].org = o}
<1>1. PICK gone \in SUBSET accounts : gone = G
  OBVIOUS
<1>2. /\ gone \cap jobs = {} /\ orgs' = orgs \ {o}
      /\ account' = Restrict(account, accounts \ gone)
      /\ named' = {t \in named : t.id \notin gone}
      /\ orphans' = orphans \cup gone
      /\ UNCHANGED <<logins, knox, jobs, made, minted, admin, request>>
  BY <1>1 DEF DeleteOrganization
<1>3. /\ accounts' = accounts \ gone /\ account' \in [accounts' -> Account]
      /\ SecretsMade' /\ NeverHalfFilled' /\ JobsKeepTheirAccount'
  BY <1>2, RowsGo
<1>4. orphans' \subseteq Ids
  <2>1. 1..made \subseteq Ids
    BY <1>0, AccountsAssumption DEF TypeOK, Ids
  <2> QED BY <1>0, <1>2, <2>1 DEF TypeOK
<1>5. TypeOK' /\ AddsValid'
  BY <1>0, <1>2, <1>3, <1>4 DEF TypeOK, AddsValid
<1>6. KeysUnique' /\ LoginHasAccount'
  BY <1>0, <1>2, <1>3 DEF KeysUnique, LoginHasAccount
<1>7. KeysAreListed'
  <2> DEFINE Entry(t) == [key |-> t.key, id |-> t.id]
  <2>1. {Entry(t) : t \in named} = {k \in knox : k.id \in accounts}
    BY <1>0 DEF KeysAreListed
  <2>2. \A t \in named : Entry(t).id = t.id
    OBVIOUS
  <2> HIDE DEF Entry
  <2>3. {Entry(t) : t \in named'} = {k \in knox' : k.id \in accounts'}
    BY <1>2, <1>3, <2>1, <2>2
  <2> QED BY <2>3 DEF KeysAreListed, Entry
<1> QED BY <1>3, <1>5, <1>6, <1>7 DEF AccountsInv

LEMMA RequestKeeps ==
    ASSUME AccountsInv, NEW r \in Requests, Enter(r) \/ Submit(r)
    PROVE  AccountsInv'
<1>0. /\ TypeOK /\ KeysUnique /\ SecretsMade /\ AddsValid /\ LoginHasAccount /\ KeysAreListed
      /\ NeverHalfFilled /\ JobsKeepTheirAccount
  BY DEF AccountsInv
<1>1. /\ UNCHANGED <<orgs, account, logins, made, orphans, knox, named, minted, admin>>
      /\ accounts' = accounts
  BY DEF Enter, Submit, accountVars, tokenVars, accounts
<1>2. 1..made \subseteq Ids
  BY <1>0, AccountsAssumption DEF TypeOK, Ids
<1>3. jobs' \subseteq accounts /\ jobs' \subseteq Ids
  BY <1>0, <1>2 DEF Enter, Submit, JobsKeepTheirAccount, TypeOK
<1>4. request' \in [Requests -> [pc: {"idle", "in", "served", "error"}, id: Ids \cup {0}]]
  <2>1. CASE Enter(r)
    <3>1. PICK k \in knox :
             \/ request' = [request EXCEPT ![r] = [pc |-> "in", id |-> k.id]]
             \/ request' = [request EXCEPT ![r].pc = "error"]
      BY <2>1 DEF Enter
    <3>2. k.id \in Ids
      BY <1>0, <1>2 DEF TypeOK
    <3> QED BY <1>0, <3>1, <3>2 DEF TypeOK
  <2>2. CASE Submit(r)
    BY <1>0, <2>2 DEF Submit, TypeOK
  <2> QED BY <2>1, <2>2
<1>5. TypeOK' /\ SecretsMade' /\ AddsValid' /\ KeysUnique'
  BY <1>0, <1>1, <1>3, <1>4 DEF TypeOK, SecretsMade, AddsValid, KeysUnique
<1>6. LoginHasAccount' /\ KeysAreListed' /\ NeverHalfFilled' /\ JobsKeepTheirAccount'
  BY <1>0, <1>1, <1>3 DEF LoginHasAccount, KeysAreListed, NeverHalfFilled, JobsKeepTheirAccount
<1> QED BY <1>5, <1>6 DEF AccountsInv

LEMMA OrganizationAdded ==
    ASSUME AccountsInv, NEW o \in Orgs, AddOrganization(o)
    PROVE  AccountsInv'
<1>1. /\ orgs' = orgs \cup {o} /\ accounts' = accounts
      /\ UNCHANGED <<account, logins, made, knox, named, minted, jobs, admin, request, orphans>>
  BY DEF AddOrganization, tokenVars, accounts
<1>2. TypeOK' /\ KeysUnique' /\ SecretsMade' /\ AddsValid'
  BY <1>1 DEF AccountsInv, TypeOK, KeysUnique, SecretsMade, AddsValid
<1>3. LoginHasAccount' /\ KeysAreListed' /\ NeverHalfFilled' /\ JobsKeepTheirAccount'
  BY <1>1 DEF AccountsInv, LoginHasAccount, KeysAreListed, NeverHalfFilled, JobsKeepTheirAccount
<1> QED BY <1>2, <1>3 DEF AccountsInv

\* A page that only reads leaves a valid piece of work behind.
LEMMA FormKeeps ==
    ASSUME AccountsInv, NEW a \in Admins,
           OpenAdd(a) \/ OpenEdit(a) \/ OpenIssue(a) \/ OpenOther(a)
    PROVE  AccountsInv'
<1>0. TypeOK /\ accounts \subseteq Ids /\ orgs \subseteq Orgs
  <2>1. 1..made \subseteq Ids /\ TypeOK
    BY AccountsAssumption DEF AccountsInv, TypeOK, Ids
  <2> QED BY <2>1 DEF TypeOK
<1>1. UNCHANGED <<accountVars, tokenVars, jobs, request>>
  BY DEF OpenAdd, OpenEdit, OpenIssue, OpenOther
<1>2. CASE OpenAdd(a)
  <2>1. PICK o \in orgs, n \in Names, l \in Limits, t \in TokenNames :
           LimitsSet(l)
           /\ Open(a, [op |-> "add", org |-> o, name |-> n, limits |-> l, token |-> t])
    BY <1>2 DEF OpenAdd
  <2> DEFINE w == [op |-> "add", org |-> o, name |-> n, limits |-> l, token |-> t]
  <2>2. w \in Work /\ w.limits = l
    BY <1>0 DEF Work
  <2>3. admin' = [admin EXCEPT ![a] = w]
    BY <2>1 DEF Open
  <2> HIDE DEF w
  <2> QED BY <1>1, <2>1, <2>2, <2>3, OpenKeeps
<1>3. CASE OpenEdit(a)
  <2>1. PICK i \in accounts, o \in orgs, n \in Names, l \in Limits :
           Open(a, [op |-> "edit", id |-> i, loaded |-> account[i],
                    form |-> [account[i] EXCEPT !.org = o, !.name = n, !.limits = l]])
    BY <1>3 DEF OpenEdit
  <2> DEFINE form == [account[i] EXCEPT !.org = o, !.name = n, !.limits = l]
             w == [op |-> "edit", id |-> i, loaded |-> account[i], form |-> form]
  <2>2. account[i] \in Account
    BY <1>0 DEF TypeOK
  <2>3. form \in Account
    BY <1>0, <2>2 DEF Account
  <2>4. admin' = [admin EXCEPT ![a] = w]
    BY <2>1 DEF Open
  <2> HIDE DEF form
  <2>5. w \in Work /\ w.op = "edit"
    BY <1>0, <2>2, <2>3 DEF Work
  <2> HIDE DEF w
  <2> QED BY <1>1, <2>4, <2>5, OpenKeeps
<1>4. CASE OpenIssue(a)
  <2>1. PICK i \in accounts, t \in TokenNames : Open(a, [op |-> "issue", id |-> i, token |-> t])
    BY <1>4 DEF OpenIssue
  <2> DEFINE w == [op |-> "issue", id |-> i, token |-> t]
  <2>2. w \in Work /\ w.op = "issue"
    BY <1>0 DEF Work
  <2>3. admin' = [admin EXCEPT ![a] = w]
    BY <2>1 DEF Open
  <2> HIDE DEF w
  <2> QED BY <1>1, <2>2, <2>3, OpenKeeps
<1>5. CASE OpenOther(a)
  <2>1. PICK i \in accounts, op \in {"regenerate", "delete"} : Open(a, [op |-> op, id |-> i])
    BY <1>5 DEF OpenOther
  <2> DEFINE w == [op |-> op, id |-> i]
  <2>2. w \in Work /\ w.op # "add"
    BY <1>0 DEF Work
  <2>3. admin' = [admin EXCEPT ![a] = w]
    BY <2>1 DEF Open
  <2> HIDE DEF w
  <2> QED BY <1>1, <2>2, <2>3, OpenKeeps
<1> QED BY <1>2, <1>3, <1>4, <1>5

LEMMA AccountsStep == AccountsInv /\ [Next]_vars => AccountsInv'
<1> SUFFICES ASSUME AccountsInv, [Next]_vars PROVE AccountsInv'
  OBVIOUS
<1>1. ASSUME NEW o \in Orgs, AddOrganization(o) \/ DeleteOrganization(o) PROVE AccountsInv'
  BY <1>1, OrganizationAdded, OrganizationKeeps
<1>2. ASSUME NEW a \in Admins,
             OpenAdd(a) \/ OpenEdit(a) \/ OpenIssue(a) \/ OpenOther(a)
      PROVE  AccountsInv'
  BY <1>2, FormKeeps
<1>3. ASSUME NEW a \in Admins, SaveAdd(a) PROVE AccountsInv'
  BY <1>3, CreateKeeps
<1>4. ASSUME NEW a \in Admins, SaveEdit(a) PROVE AccountsInv'
  BY <1>4, EditKeeps
<1>5. ASSUME NEW a \in Admins, SaveIssue(a) PROVE AccountsInv'
  BY <1>5, IssueKeeps
<1>6. ASSUME NEW a \in Admins, SaveRegenerate(a) PROVE AccountsInv'
  BY <1>6, RegenerateKeeps
<1>7. ASSUME NEW a \in Admins, SaveDelete(a) PROVE AccountsInv'
  BY <1>7, DeleteKeeps
<1>8. ASSUME NEW a \in Admins, RevokeTokens(a) PROVE AccountsInv'
  BY <1>8, RevokeKeeps
<1>9. ASSUME NEW r \in Requests, Enter(r) \/ Submit(r) PROVE AccountsInv'
  BY <1>9, RequestKeeps
<1>10. CASE UNCHANGED vars
  <2>1. /\ UNCHANGED <<orgs, account, logins, knox, named, jobs, made, minted, admin, request,
                       orphans>>
        /\ accounts' = accounts
    BY <1>10 DEF vars, accounts
  <2> QED BY <2>1 DEF AccountsInv, TypeOK, KeysUnique, SecretsMade, AddsValid, LoginHasAccount,
                      KeysAreListed, NeverHalfFilled, JobsKeepTheirAccount
<1> QED BY <1>1, <1>2, <1>3, <1>4, <1>5, <1>6, <1>7, <1>8, <1>9, <1>10 DEF Next

LEMMA AccountsInvariant == Spec => []AccountsInv
BY AccountsInit, AccountsStep, PTL DEF Spec

-----------------------------------------------------------------------------
\* A row that a step keeps has the secret it had, or one minted later.
LEMMA SecretsOnlyGrow ==
    ASSUME AccountsInv, [Next]_vars
    PROVE  \A i \in accounts \cap accounts' : account'[i].secret >= account[i].secret
<1>0. /\ minted \in Nat /\ account \in [accounts -> Account]
      /\ \A i \in accounts : account[i].secret \in Nat /\ account[i].secret <= minted
      /\ accounts \subseteq 1..made /\ made \in Nat
  BY AccountsAssumption DEF AccountsInv, TypeOK, SecretsMade, Account, Keys
<1>1. \A i \in accounts : account[i].secret >= account[i].secret
  BY <1>0
<1>2. CASE UNCHANGED account
  BY <1>1, <1>2
<1>3. ASSUME NEW o \in Orgs, DeleteOrganization(o)
      PROVE  \A i \in accounts \cap accounts' : account'[i].secret >= account[i].secret
  <2>1. PICK gone \in SUBSET accounts : account' = [i \in accounts \ gone |-> account[i]]
    BY <1>3 DEF DeleteOrganization, Restrict
  <2> QED BY <1>1, <2>1 DEF accounts
<1>4. ASSUME NEW a \in Admins, SaveAdd(a)
      PROVE  \A i \in accounts \cap accounts' : account'[i].secret >= account[i].secret
  <2>1. made + 1 \notin accounts
    BY <1>0
  <2>2. PICK row : \/ UNCHANGED account
                   \/ account' = [j \in accounts \cup {made + 1} |->
                                    IF j = made + 1 THEN row ELSE account[j]]
    BY <1>4 DEF SaveAdd, Create
  <2>3. \A i \in accounts : account'[i] = account[i]
    BY <2>1, <2>2
  <2> QED BY <1>1, <2>3
<1>5. ASSUME NEW a \in Admins, SaveEdit(a)
      PROVE  \A i \in accounts \cap accounts' : account'[i].secret >= account[i].secret
  <2> DEFINE w == admin[a]
             row == Edited(w)
  <2>1. CASE UNCHANGED account
    BY <1>1, <2>1
  <2>2. CASE Saves(w) /\ account' = [account EXCEPT ![w.id] = row]
    <3>1. w.id \in accounts /\ w.form \in Account
      BY <1>5, <2>2, WorkFields DEF Saves, SaveEdit, AccountsInv
    <3>2. row.secret = account[w.id].secret
      BY <1>0, <3>1, EditedRow
    <3> HIDE DEF row
    <3> QED BY <1>0, <1>1, <2>2, <3>1, <3>2
  <2> QED BY <1>5, <2>1, <2>2 DEF SaveEdit
<1>6. ASSUME NEW a \in Admins, SaveRegenerate(a)
      PROVE  \A i \in accounts \cap accounts' : account'[i].secret >= account[i].secret
  <2>1. CASE UNCHANGED account
    BY <1>1, <2>1
  <2>2. CASE admin[a].id \in accounts /\ account' = [account EXCEPT ![admin[a].id].secret = minted + 1]
    <3>1. PICK i \in accounts : i = admin[a].id
      BY <2>2
    <3>2. account'[i].secret = minted + 1 /\ \A j \in accounts \ {i} : account'[j] = account[j]
      BY <1>0, <2>2, <3>1 DEF Account
    <3>3. \A x \in Nat : x <= minted => minted + 1 >= x
      BY <1>0
    <3> QED BY <1>0, <1>1, <3>2, <3>3
  <2> QED BY <1>6, <2>1, <2>2 DEF SaveRegenerate
<1>7. ASSUME NEW a \in Admins, SaveDelete(a)
      PROVE  \A i \in accounts \cap accounts' : account'[i].secret >= account[i].secret
  <2>1. PICK gone : account' = account \/ account' = [i \in accounts \ gone |-> account[i]]
    BY <1>7 DEF SaveDelete, DeleteLogin, Restrict
  <2> QED BY <1>1, <2>1 DEF accounts
<1>8. \/ UNCHANGED account
      \/ \E o \in Orgs : DeleteOrganization(o)
      \/ \E a \in Admins : SaveAdd(a) \/ SaveEdit(a) \/ SaveRegenerate(a) \/ SaveDelete(a)
  BY DEF Next, vars, accountVars, AddOrganization, OpenAdd, OpenEdit, OpenIssue, SaveIssue, OpenOther,
         RevokeTokens, Enter, Submit
<1> QED BY <1>2, <1>3, <1>4, <1>5, <1>6, <1>7, <1>8

-----------------------------------------------------------------------------
\* Whatever opens the API is listed where it can be revoked, however the admins'
\* requests interleave (ServiceAccountService.create, issue_token, revoke_tokens
\* and delete, and the cascades behind them).
THEOREM AccessStaysListed == Spec => []AccessIsListed
<1>1. AccountsInv => AccessIsListed
  BY DEF AccountsInv, AccessIsListed
<1> QED BY <1>1, AccountsInvariant, PTL

\* Edits that each write only their own changed fields never leave an account
\* with half-filled limits (ServiceAccountAdmin.save_model and the constraint
\* limits_set_unless_unlimited).
THEOREM LimitsStayFilled == Spec => []NeverHalfFilled
<1>1. AccountsInv => NeverHalfFilled
  BY DEF AccountsInv
<1> QED BY <1>1, AccountsInvariant, PTL

\* A job's account is there as long as the job, whatever deletions race with the
\* submissions (Remediation.service_account is PROTECTed).
THEOREM JobsAccountsStay == Spec => []JobsKeepTheirAccount
<1>1. AccountsInv => JobsKeepTheirAccount
  BY DEF AccountsInv
<1> QED BY <1>1, AccountsInvariant, PTL

\* No edit form under way brings back a webhook secret that was replaced
\* (save_model writes form.changed_data alone).
THEOREM ReplacedSecretsStayReplaced == Spec => SecretNeverReverts
<1>1. AccountsInv /\ [Next]_vars =>
        [\A i \in accounts \cap accounts' : account'[i].secret >= account[i].secret]_vars
  BY SecretsOnlyGrow
<1> QED BY <1>1, AccountsInvariant, PTL DEF Spec, SecretNeverReverts
=============================================================================
