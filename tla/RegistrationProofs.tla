-------------------------- MODULE RegistrationProofs --------------------------
(***************************************************************************)
(* For any number of tools, registrations and runs, and any addresses and  *)
(* passwords: what Registration promises of confirmed and of verified      *)
(* accounts.  The invariant adds what a run in the middle of the second    *)
(* step knows: past the challenge, state and link are of one registration, *)
(* and past the confirmation its account has an address no other has, so   *)
(* that the relogin finds that account.                                    *)
(***************************************************************************)
EXTENDS Registration, TLAPS

\* The runs of megareg, as TypeOK has them.
ToolRecords == [pc : Pcs, reg : Regs \cup {None}, link : Regs \cup {None},
                run : 1 .. MaxRuns \cup {None}, sid : Regs \cup {None}]

\* What a run knows by the call it is at.
RunSound(t) ==
    LET r == tool[t]
    IN /\ r.pc \in {"us", "name", "uc"} => r.reg \in Regs /\ reg[r.reg] # None
       /\ r.pc \in {"name", "uc"} => r.sid = r.reg
       /\ r.pc \in {"ud", "upc", "relogin", "uprsa"} =>
            r.reg \in mailed /\ r.link \in mailed /\ r.run \in 1 .. MaxRuns
       /\ r.pc \in {"ud", "upc"} => r.sid \in {r.reg, None}
       /\ r.pc \in {"upc", "relogin", "uprsa"} => r.link = r.reg
       /\ r.pc \in {"relogin", "uprsa"} => account[r.reg].email # None
       /\ r.pc = "uprsa" => r.sid \in {r.reg, None}

MailedBegun == \A n \in mailed : reg[n] # None

AddressUnique ==
    \A m, n \in Regs : account[m].email # None /\ account[m].email = account[n].email => m = n

AddressAndHash == \A n \in Regs : account[n].uh # None => account[n].email # None

KeyUnderOwn == \A n \in Regs : account[n].rsa # None => account[n].privk = n

VerifiedComplete == \A n \in verified : account[n].email # None /\ account[n].rsa # None

\* The inductive invariant.
Inv ==
    /\ TypeOK /\ MailedBegun /\ ConfirmedIsOwn
    /\ AddressUnique /\ AddressAndHash /\ KeyUnderOwn /\ VerifiedComplete
    /\ \A t \in Tools : RunSound(t)

LEMMA InvInit == Init => Inv
BY RegistrationAssumption
   DEF Init, Inv, TypeOK, Accounts, Pcs, MailedBegun, ConfirmedIsOwn, AddressUnique, AddressAndHash,
       KeyUnderOwn, VerifiedComplete, RunSound, NoAccount, Idle, Regs

\* A step that leaves the accounts, the registrations and what was printed and
\* mailed alone preserves the invariant if the run that takes it stays sound.
LEMMA OnlyTool ==
    ASSUME Inv, NEW t \in Tools, NEW r,
           r \in ToolRecords,
           tool' = [tool EXCEPT ![t] = r],
           RunSound(t)',
           runs' \in 0 .. MaxRuns,
           UNCHANGED <<reg, account, mailed, printed, verified>>
    PROVE  Inv'
<1>1. TypeOK'
  BY DEF Inv, TypeOK, ToolRecords
<1>2. ASSUME NEW u \in Tools PROVE RunSound(u)'
  <2>1. CASE u = t
    BY <2>1
  <2>2. CASE u # t
    BY <2>2 DEF Inv, TypeOK, RunSound
  <2> QED BY <2>1, <2>2
<1>3. (MailedBegun /\ ConfirmedIsOwn /\ AddressUnique /\ AddressAndHash /\ KeyUnderOwn /\ VerifiedComplete)'
  BY DEF Inv, MailedBegun, ConfirmedIsOwn, AddressUnique, AddressAndHash, KeyUnderOwn, VerifiedComplete
<1> QED BY <1>1, <1>2, <1>3 DEF Inv

\* A run that is over knows nothing.
LEMMA IdleSound ==
    ASSUME NEW t \in Tools, tool \in [Tools -> ToolRecords],
           tool' = [tool EXCEPT ![t] = Idle]
    PROVE  RunSound(t)' /\ Idle \in ToolRecords
BY DEF RunSound, Idle, Pcs, ToolRecords

\* What a run knows stays true while another run's step only adds to what
\* the server has.
LEMMA OtherSound ==
    ASSUME NEW u \in Tools, RunSound(u), tool'[u] = tool[u],
           mailed \subseteq Regs, mailed \subseteq mailed',
           \A m \in Regs : reg[m] # None => reg'[m] # None,
           \A m \in Regs : account[m].email # None => account'[m].email # None
    PROVE  RunSound(u)'
<1> DEFINE r == tool[u]
<1>1. r.pc \in {"us", "name", "uc"} => r.reg \in Regs /\ reg'[r.reg] # None
  BY DEF RunSound
<1>2. r.pc \in {"ud", "upc", "relogin", "uprsa"} =>
        r.reg \in Regs /\ r.reg \in mailed' /\ r.link \in mailed' /\ r.run \in 1 .. MaxRuns
  BY DEF RunSound
<1>3. r.pc \in {"relogin", "uprsa"} => account'[r.reg].email # None
  <2>1. r.pc \in {"relogin", "uprsa"} => account[r.reg].email # None
    BY DEF RunSound
  <2> QED BY <1>2, <2>1
<1>4. /\ r.pc \in {"name", "uc"} => r.sid = r.reg
      /\ r.pc \in {"ud", "upc", "uprsa"} => r.sid \in {r.reg, None}
      /\ r.pc \in {"upc", "relogin", "uprsa"} => r.link = r.reg
  BY DEF RunSound
<1> HIDE DEF r
<1> QED BY <1>1, <1>2, <1>3, <1>4 DEF RunSound, r

LEMMA FailsKeeps == ASSUME Inv, NEW t \in Tools, Fails(t) PROVE Inv'
BY IdleSound, OnlyTool DEF Inv, TypeOK, ToolRecords, Fails, Set

LEMMA SignInKeeps == ASSUME Inv, NEW t \in Tools, SignIn(t) PROVE Inv'
<1> DEFINE r == [tool[t] EXCEPT !.pc = "name", !.sid = tool[t].reg]
<1>1. tool[t].reg \in Regs /\ reg[tool[t].reg] # None
  BY DEF Inv, RunSound, SignIn
<1>2. CASE Set(t, r)
  <2>1. RunSound(t)'
    BY <1>1, <1>2 DEF Inv, TypeOK, RunSound, SignIn, Set
  <2>2. r \in ToolRecords
    BY <1>1 DEF Inv, TypeOK, Pcs, ToolRecords
  <2> HIDE DEF r
  <2> QED BY <1>2, <2>1, <2>2, OnlyTool DEF Inv, TypeOK, ToolRecords, SignIn, Set
<1>3. CASE Set(t, Idle)
  BY <1>3, IdleSound, OnlyTool DEF Inv, TypeOK, ToolRecords, SignIn, Set
<1> QED BY <1>2, <1>3 DEF SignIn, Answered

LEMMA VerifyKeeps == ASSUME Inv, NEW t \in Tools, Verify(t) PROVE Inv'
<1>1. PICK n \in printed, l \in mailed, sid \in Regs \cup {None} :
        /\ sid = n \/ (sid = None /\ account[n].rsa # None)
        /\ Set(t, [pc |-> "ud", reg |-> n, link |-> l, run |-> runs + 1, sid |-> sid])
  BY DEF Verify
<1> DEFINE r == [pc |-> "ud", reg |-> n, link |-> l, run |-> runs + 1, sid |-> sid]
<1>2. n \in mailed /\ n \in Regs /\ l \in Regs /\ runs + 1 \in 1 .. MaxRuns
  BY RegistrationAssumption DEF Inv, TypeOK, Verify
<1>3. r \in ToolRecords
  BY <1>2 DEF Pcs, ToolRecords
<1>4. RunSound(t)'
  BY <1>1, <1>2 DEF Inv, TypeOK, RunSound, Verify, Set
<1>5. runs' \in 0 .. MaxRuns
  BY RegistrationAssumption DEF Inv, TypeOK, Verify
<1> HIDE DEF r
<1> QED BY <1>1, <1>3, <1>4, <1>5, OnlyTool DEF r, Verify, Set

LEMMA UnsealKeeps == ASSUME Inv, NEW t \in Tools, Unseal(t) PROVE Inv'
<1> DEFINE r == [tool[t] EXCEPT !.pc = "upc"]
<1>1. CASE Set(t, r) /\ ChallengeMet(tool[t])
  <2>1. RunSound(t)'
    BY <1>1 DEF Inv, TypeOK, RunSound, Unseal, Set, ChallengeMet
  <2>2. r \in ToolRecords
    BY DEF Inv, TypeOK, Pcs, ToolRecords
  <2> HIDE DEF r
  <2> QED BY <1>1, <2>1, <2>2, OnlyTool DEF Inv, TypeOK, ToolRecords, Unseal, Set
<1>2. CASE Set(t, Idle)
  BY <1>2, IdleSound, OnlyTool DEF Inv, TypeOK, ToolRecords, Unseal, Set
<1> QED BY <1>1, <1>2 DEF Unseal, Answered

\* The relogin finds the account of the run's registration: its address is
\* the registration's, and no other account has it.
LEMMA ReloginFinds ==
    ASSUME Inv, NEW t \in Tools, tool[t].pc = "relogin", NEW n \in Regs,
           account[n].uh = <<reg[tool[t].link].email, reg[tool[t].reg].password>>
    PROVE  n = tool[t].reg
<1> DEFINE k == tool[t].reg
<1>1. k \in mailed /\ tool[t].link = k /\ account[k].email # None /\ k \in Regs
  BY DEF Inv, RunSound, TypeOK
<1>2. account[k].email = reg[k].email
  BY <1>1 DEF Inv, ConfirmedIsOwn
<1>3. account[n].uh # None
  <2>1. reg[k] \in [email : Emails, password : Passwords]
    BY <1>1 DEF Inv, TypeOK, MailedBegun
  <2> QED BY <1>1, <2>1, RegistrationAssumption
<1>4. account[n].email # None
  BY <1>3 DEF Inv, AddressAndHash
<1>5. account[n].email = reg[n].email /\ account[n].uh = <<reg[n].email, reg[n].password>>
  BY <1>4 DEF Inv, ConfirmedIsOwn
<1>6. account[n].email = account[k].email
  BY <1>1, <1>2, <1>5
<1> QED BY <1>1, <1>4, <1>6 DEF Inv, AddressUnique

LEMMA SignInAgainKeeps == ASSUME Inv, NEW t \in Tools, SignInAgain(t) PROVE Inv'
<1>1. PICK n \in Regs :
        /\ account[n].uh = <<reg[tool[t].link].email, reg[tool[t].reg].password>>
        /\ Answered(t, [tool[t] EXCEPT !.pc = "uprsa", !.sid = Session(tool[t], n)])
  BY DEF SignInAgain
<1> DEFINE r == [tool[t] EXCEPT !.pc = "uprsa", !.sid = Session(tool[t], n)]
<1>2. n = tool[t].reg
  BY <1>1, ReloginFinds DEF SignInAgain
<1>3. CASE Set(t, r)
  <2>1. RunSound(t)'
    BY <1>2, <1>3 DEF Inv, TypeOK, RunSound, SignInAgain, Set, Session
  <2>2. r \in ToolRecords
    BY DEF Inv, TypeOK, Pcs, Session, ToolRecords
  <2> HIDE DEF r
  <2> QED BY <1>3, <2>1, <2>2, OnlyTool DEF Inv, TypeOK, ToolRecords, SignInAgain, Set
<1>4. CASE Set(t, Idle)
  BY <1>4, IdleSound, OnlyTool DEF Inv, TypeOK, ToolRecords, SignInAgain, Set
<1> QED BY <1>1, <1>3, <1>4 DEF Answered

\* The registration is new, so no account with an address and no run is about it.
LEMMA RegisterKeeps == ASSUME Inv, NEW t \in Tools, Register(t) PROVE Inv'
<1>1. PICK e \in Emails, p \in Passwords, n \in Regs :
        /\ reg[n] = None
        /\ reg' = [reg EXCEPT ![n] = [email |-> e, password |-> p]]
        /\ \/ /\ account' = [account EXCEPT ![n].made = TRUE, ![n].k = p]
              /\ Answered(t, [pc |-> "us", reg |-> n, link |-> None, run |-> None, sid |-> None])
           \/ account' = account /\ Set(t, Idle)
  BY DEF Register
<1> UNCHANGED <<mailed, printed, runs, verified>>
  BY DEF Register
<1>2. n \notin mailed /\ account[n].email = None
  BY <1>1 DEF Inv, MailedBegun, ConfirmedIsOwn
<1>3. /\ reg'[n] = [email |-> e, password |-> p]
      /\ \A m \in Regs \ {n} : reg'[m] = reg[m] /\ account'[m] = account[m]
      /\ account' \in [Regs -> Accounts]
      /\ \A m \in Regs : /\ account'[m].email = account[m].email /\ account'[m].uh = account[m].uh
                         /\ account'[m].rsa = account[m].rsa /\ account'[m].privk = account[m].privk
  <2>1. /\ reg'[n] = [email |-> e, password |-> p]
        /\ \A m \in Regs \ {n} : reg'[m] = reg[m]
    BY <1>1 DEF Inv, TypeOK
  <2>2. CASE account' = account
    BY <2>1, <2>2 DEF Inv, TypeOK
  <2>3. CASE account' = [account EXCEPT ![n].made = TRUE, ![n].k = p]
    <3> DEFINE a == [account[n] EXCEPT !.made = TRUE, !.k = p]
    <3>1. account[n] \in Accounts
      BY DEF Inv, TypeOK
    <3>2. account' = [account EXCEPT ![n] = a]
      BY <2>3, <3>1 DEF Inv, TypeOK, Accounts
    <3>3. /\ a \in Accounts
          /\ a.email = account[n].email /\ a.uh = account[n].uh
          /\ a.rsa = account[n].rsa /\ a.privk = account[n].privk
      BY <3>1 DEF Accounts
    <3> HIDE DEF a
    <3> QED BY <2>1, <3>2, <3>3 DEF Inv, TypeOK
  <2> QED BY <1>1, <2>2, <2>3
<1>4. \/ tool' = [tool EXCEPT ![t] = [pc |-> "us", reg |-> n, link |-> None, run |-> None, sid |-> None]]
      \/ tool' = [tool EXCEPT ![t] = Idle]
  BY <1>1 DEF Answered, Set
<1>5. reg'[n] # None
  <2>1. reg'[n] \in [email : Emails, password : Passwords]
    BY <1>3
  <2> QED BY <2>1, RegistrationAssumption
<1>6. TypeOK'
  <2>1. tool' \in [Tools -> ToolRecords]
    BY <1>4 DEF Inv, TypeOK, Idle, Pcs, ToolRecords
  <2>2. reg' \in [Regs -> [email : Emails, password : Passwords] \cup {None}]
    BY <1>1 DEF Inv, TypeOK
  <2> QED BY <1>3, <2>1, <2>2 DEF Inv, TypeOK, ToolRecords
<1>7. ASSUME NEW u \in Tools PROVE RunSound(u)'
  <2>1. CASE u = t
    BY <1>4, <1>5, <2>1 DEF Inv, TypeOK, RunSound, Idle
  <2>2. CASE u # t
    BY <1>3, <1>4, <1>5, <2>2 DEF Inv, TypeOK, RunSound
  <2> QED BY <2>1, <2>2
<1>8. ConfirmedIsOwn'
  BY <1>2, <1>3 DEF Inv, ConfirmedIsOwn
<1>9. MailedBegun'
  <2>1. mailed \subseteq Regs
    BY DEF Inv, TypeOK
  <2> QED BY <1>2, <1>3, <2>1 DEF Inv, MailedBegun
<1>10. (AddressUnique /\ AddressAndHash)'
  BY <1>3 DEF Inv, AddressUnique, AddressAndHash
<1>11. (KeyUnderOwn /\ VerifiedComplete)'
  <2>1. verified \subseteq Regs
    BY DEF Inv, TypeOK
  <2> QED BY <1>3, <2>1 DEF Inv, KeyUnderOwn, VerifiedComplete
<1> QED BY <1>6, <1>7, <1>8, <1>9, <1>10, <1>11 DEF Inv

LEMMA SetNameKeeps == ASSUME Inv, NEW t \in Tools, SetName(t) PROVE Inv'
<1>1. tool[t].sid \in Regs /\ tool[t].sid = tool[t].reg /\ reg[tool[t].reg] # None
  BY DEF Inv, RunSound, SetName
<1>2. /\ account' \in [Regs -> Accounts]
      /\ \A m \in Regs : /\ account'[m].email = account[m].email /\ account'[m].uh = account[m].uh
                         /\ account'[m].rsa = account[m].rsa /\ account'[m].privk = account[m].privk
                         /\ account'[m].k = account[m].k
  <2> DEFINE n == tool[t].sid
             a == [account[n] EXCEPT !.named = TRUE]
  <2>1. account[n] \in Accounts
    BY <1>1 DEF Inv, TypeOK
  <2>2. account' = [account EXCEPT ![n] = a]
    BY <1>1, <2>1 DEF Inv, TypeOK, Accounts, SetName
  <2>3. /\ a \in Accounts
        /\ a.email = account[n].email /\ a.uh = account[n].uh /\ a.k = account[n].k
        /\ a.rsa = account[n].rsa /\ a.privk = account[n].privk
    BY <2>1 DEF Accounts
  <2> HIDE DEF a
  <2> QED BY <1>1, <2>2, <2>3 DEF Inv, TypeOK
<1>3. \/ tool' = [tool EXCEPT ![t] = [tool[t] EXCEPT !.pc = "uc"]]
      \/ tool' = [tool EXCEPT ![t] = Idle]
  BY DEF SetName, Answered, Set
<1> UNCHANGED <<reg, mailed, printed, runs, verified>>
  BY DEF SetName
<1>4. TypeOK'
  <2>1. tool' \in [Tools -> ToolRecords]
    BY <1>3 DEF Inv, TypeOK, Idle, Pcs, ToolRecords
  <2> QED BY <1>2, <2>1 DEF Inv, TypeOK, ToolRecords
<1>5. ASSUME NEW u \in Tools PROVE RunSound(u)'
  <2>1. CASE u = t
    BY <1>1, <1>3, <2>1 DEF Inv, TypeOK, RunSound, Idle
  <2>2. CASE u # t
    BY <1>2, <1>3, <2>2 DEF Inv, TypeOK, RunSound
  <2> QED BY <2>1, <2>2
<1>6. MailedBegun'
  BY DEF Inv, MailedBegun
<1>7. ConfirmedIsOwn'
  BY <1>2 DEF Inv, ConfirmedIsOwn
<1>8. (AddressUnique /\ AddressAndHash)'
  BY <1>2 DEF Inv, AddressUnique, AddressAndHash
<1>9. (KeyUnderOwn /\ VerifiedComplete)'
  <2>1. verified \subseteq Regs
    BY DEF Inv, TypeOK
  <2> QED BY <1>2, <2>1 DEF Inv, KeyUnderOwn, VerifiedComplete
<1> QED BY <1>4, <1>5, <1>6, <1>7, <1>8, <1>9 DEF Inv

LEMMA RequestLinkKeeps == ASSUME Inv, NEW t \in Tools, RequestLink(t) PROVE Inv'
<1>1. tool[t].reg \in Regs /\ reg[tool[t].reg] # None
  BY DEF Inv, RunSound, RequestLink
<1>2. /\ mailed' = mailed \cup {tool[t].reg}
      /\ printed' \in {printed, printed \cup {tool[t].reg}}
      /\ tool' = [tool EXCEPT ![t] = Idle]
      /\ UNCHANGED <<reg, account, runs, verified>>
  BY DEF RequestLink, Set
<1>3. TypeOK'
  <2>1. tool' \in [Tools -> ToolRecords]
    BY <1>2 DEF Inv, TypeOK, Idle, Pcs, ToolRecords
  <2> QED BY <1>1, <1>2, <2>1 DEF Inv, TypeOK, ToolRecords
<1>4. ASSUME NEW u \in Tools PROVE RunSound(u)'
  <2>1. CASE u = t
    BY <1>2, <2>1 DEF Inv, TypeOK, RunSound, Idle
  <2>2. CASE u # t
    BY <1>2, <2>2 DEF Inv, TypeOK, RunSound
  <2> QED BY <2>1, <2>2
<1>5. (MailedBegun /\ ConfirmedIsOwn)'
  BY <1>1, <1>2 DEF Inv, MailedBegun, ConfirmedIsOwn
<1>6. (AddressUnique /\ AddressAndHash /\ KeyUnderOwn /\ VerifiedComplete)'
  BY <1>2 DEF Inv, AddressUnique, AddressAndHash, KeyUnderOwn, VerifiedComplete
<1> QED BY <1>3, <1>4, <1>5, <1>6 DEF Inv

\* The account that is confirmed is the link's own, and its address is free.
LEMMA ConfirmKeeps == ASSUME Inv, NEW t \in Tools, Confirm(t) PROVE Inv'
<1> DEFINE n == tool[t].reg
<1>1. n \in mailed /\ n \in Regs /\ tool[t].link = n /\ tool[t].sid = n
  BY DEF Inv, RunSound, Confirm, TypeOK
<1>2. reg[n] \in [email : Emails, password : Passwords]
  BY <1>1 DEF Inv, TypeOK, MailedBegun
<1>3. /\ ~Taken(reg[n].email, n)
      /\ account' = [account EXCEPT ![n].email = reg[n].email,
                                    ![n].uh = <<reg[n].email, reg[n].password>>,
                                    ![n].k = reg[n].password]
      /\ UNCHANGED <<reg, mailed, printed, runs, verified>>
  BY <1>1 DEF Confirm
<1>4. /\ account' \in [Regs -> Accounts]
      /\ account'[n].email = reg[n].email
      /\ account'[n].uh = <<reg[n].email, reg[n].password>>
      /\ account'[n].k = reg[n].password
      /\ \A m \in Regs \ {n} : account'[m] = account[m]
      /\ \A m \in Regs : account'[m].rsa = account[m].rsa /\ account'[m].privk = account[m].privk
  <2> DEFINE a == [account[n] EXCEPT !.email = reg[n].email, !.uh = <<reg[n].email, reg[n].password>>,
                                     !.k = reg[n].password]
  <2>1. account \in [Regs -> Accounts] /\ account[n] \in Accounts
    BY <1>1 DEF Inv, TypeOK
  <2>2. account' = [account EXCEPT ![n] = a]
    BY <1>1, <1>3, <2>1 DEF Accounts
  <2>3. /\ a.email = reg[n].email /\ a.uh = <<reg[n].email, reg[n].password>>
        /\ a.k = reg[n].password
        /\ a.rsa = account[n].rsa /\ a.privk = account[n].privk
    BY <2>1 DEF Accounts
  <2>4. a \in Accounts
    BY <1>2, <2>1 DEF Accounts
  <2> HIDE DEF a, n
  <2> QED BY <1>1, <2>1, <2>2, <2>3, <2>4
<1>5. reg[n].email # None
  BY <1>2, RegistrationAssumption
<1>6. \/ tool' = [tool EXCEPT ![t] = [tool[t] EXCEPT !.pc = "relogin"]]
      \/ tool' = [tool EXCEPT ![t] = Idle]
  BY DEF Confirm, Answered, Set
<1> HIDE DEF n
<1>7. TypeOK'
  <2>1. tool' \in [Tools -> ToolRecords]
    BY <1>6 DEF Inv, TypeOK, Idle, Pcs, ToolRecords
  <2> QED BY <1>3, <1>4, <2>1 DEF Inv, TypeOK, ToolRecords
<1>8. ASSUME NEW u \in Tools PROVE RunSound(u)'
  <2>1. CASE u = t
    <3>1. n \in mailed' /\ n \in Regs /\ tool[t].reg = n /\ tool[t].link = n
          /\ tool[t].run \in 1 .. MaxRuns /\ account'[n].email # None
      BY <1>1, <1>3, <1>4, <1>5 DEF Inv, RunSound, Confirm, n
    <3>2. CASE tool' = [tool EXCEPT ![t] = Idle]
      BY <2>1, <3>2 DEF Inv, TypeOK, RunSound, Idle
    <3>3. CASE tool' = [tool EXCEPT ![t] = [tool[t] EXCEPT !.pc = "relogin"]]
      <4>1. tool'[u].pc = "relogin" /\ tool'[u].reg = n /\ tool'[u].link = n /\ tool'[u].run = tool[t].run
        BY <2>1, <3>1, <3>3 DEF Inv, TypeOK
      <4> QED BY <3>1, <4>1 DEF RunSound
    <3> QED BY <1>6, <3>2, <3>3
  <2>2. CASE u # t
    <3>1. tool'[u] = tool[u]
      BY <1>6, <2>2 DEF Inv, TypeOK
    <3>2. \A m \in Regs : account[m].email # None => account'[m].email # None
      BY <1>4, <1>5
    <3>3. mailed \subseteq Regs /\ RunSound(u)
      BY DEF Inv, TypeOK
    <3>4. mailed' = mailed /\ reg' = reg
      BY <1>3
    <3> QED BY <3>1, <3>2, <3>3, <3>4, OtherSound
  <2> QED BY <2>1, <2>2
<1>9. ConfirmedIsOwn'
  BY <1>1, <1>3, <1>4 DEF Inv, ConfirmedIsOwn
<1>10. AddressUnique'
  <2>1. \A m \in Regs \ {n} : account[m].email # reg[n].email
    BY <1>3 DEF Taken
  <2>2. AddressUnique
    BY DEF Inv
  <2> QED BY <1>1, <1>4, <2>1, <2>2 DEF AddressUnique
<1>11. MailedBegun'
  BY <1>3 DEF Inv, MailedBegun
<1>12. AddressAndHash'
  BY <1>4, <1>5 DEF Inv, AddressAndHash
<1>13. KeyUnderOwn'
  BY <1>4 DEF Inv, KeyUnderOwn
<1>14. VerifiedComplete'
  <2>1. verified \subseteq Regs /\ VerifiedComplete
    BY DEF Inv, TypeOK
  <2> QED BY <1>3, <1>4, <1>5, <2>1, SMTT(30) DEF VerifiedComplete
<1> QED BY <1>7, <1>8, <1>9, <1>10, <1>11, <1>12, <1>13, <1>14 DEF Inv

LEMMA SetKeysKeeps == ASSUME Inv, NEW t \in Tools, SetKeys(t) PROVE Inv'
<1> DEFINE n == tool[t].reg
<1>1. n \in Regs /\ tool[t].link = n /\ tool[t].sid = n /\ account[n].email # None
      /\ tool[t].run \in 1 .. MaxRuns
  BY DEF Inv, RunSound, SetKeys, TypeOK
<1>2. /\ account' = [account EXCEPT ![n].rsa = tool[t].run, ![n].privk = n]
      /\ verified' \in {verified, verified \cup {n}}
      /\ tool' = [tool EXCEPT ![t] = Idle]
      /\ UNCHANGED <<reg, mailed, printed, runs>>
  BY <1>1 DEF SetKeys, Set
<1>3. tool[t].run # None
  BY <1>1, RegistrationAssumption
<1>4. /\ account' \in [Regs -> Accounts]
      /\ account'[n].rsa # None /\ account'[n].privk = n
      /\ \A m \in Regs \ {n} : account'[m] = account[m]
      /\ \A m \in Regs : /\ account'[m].email = account[m].email /\ account'[m].uh = account[m].uh
                         /\ account'[m].k = account[m].k
  <2> DEFINE a == [account[n] EXCEPT !.rsa = tool[t].run, !.privk = n]
  <2>1. account \in [Regs -> Accounts] /\ account[n] \in Accounts
    BY <1>1 DEF Inv, TypeOK
  <2>2. account' = [account EXCEPT ![n] = a]
    BY <1>1, <1>2, <2>1 DEF Accounts
  <2>3. /\ a.email = account[n].email /\ a.uh = account[n].uh /\ a.k = account[n].k
        /\ a.rsa = tool[t].run /\ a.privk = n
    BY <2>1 DEF Accounts
  <2>4. a \in Accounts
    BY <1>1, <2>1 DEF Accounts
  <2> HIDE DEF a, n
  <2> QED BY <1>1, <1>3, <2>1, <2>2, <2>3, <2>4
<1> HIDE DEF n
<1>5. TypeOK'
  <2>1. tool' \in [Tools -> ToolRecords]
    BY <1>2 DEF Inv, TypeOK, Idle, Pcs, ToolRecords
  <2> QED BY <1>1, <1>2, <1>4, <2>1 DEF Inv, TypeOK, ToolRecords
<1>6. ASSUME NEW u \in Tools PROVE RunSound(u)'
  <2>1. CASE u = t
    BY <1>2, <2>1 DEF Inv, TypeOK, RunSound, Idle
  <2>2. CASE u # t
    <3>1. tool'[u] = tool[u]
      BY <1>2, <2>2 DEF Inv, TypeOK
    <3>2. \A m \in Regs : account[m].email # None => account'[m].email # None
      BY <1>4
    <3>3. mailed \subseteq Regs /\ RunSound(u)
      BY DEF Inv, TypeOK
    <3>4. mailed' = mailed /\ reg' = reg
      BY <1>2
    <3> QED BY <3>1, <3>2, <3>3, <3>4, OtherSound
  <2> QED BY <2>1, <2>2
<1>7. (MailedBegun /\ ConfirmedIsOwn)'
  BY <1>2, <1>4 DEF Inv, MailedBegun, ConfirmedIsOwn
<1>8. (AddressUnique /\ AddressAndHash)'
  BY <1>4 DEF Inv, AddressUnique, AddressAndHash
<1>9. KeyUnderOwn'
  BY <1>4 DEF Inv, KeyUnderOwn
<1>10. VerifiedComplete'
  <2>1. verified \subseteq Regs /\ VerifiedComplete
    BY DEF Inv, TypeOK
  <2> QED BY <1>1, <1>2, <1>4, <2>1 DEF VerifiedComplete
<1> QED BY <1>5, <1>6, <1>7, <1>8, <1>9, <1>10 DEF Inv

LEMMA InvNext == Inv /\ [Next]_vars => Inv'
<1> SUFFICES ASSUME Inv, [Next]_vars PROVE Inv'
  OBVIOUS
<1>1. CASE UNCHANGED vars
  BY <1>1 DEF vars, Inv, TypeOK, MailedBegun, ConfirmedIsOwn, AddressUnique, AddressAndHash,
              KeyUnderOwn, VerifiedComplete, RunSound
<1>2. CASE Next
  <2>1. PICK t \in Tools :
          \/ Fails(t)
          \/ Register(t) \/ SignIn(t) \/ SetName(t) \/ RequestLink(t)
          \/ Verify(t) \/ Unseal(t) \/ Confirm(t) \/ SignInAgain(t) \/ SetKeys(t)
    BY <1>2 DEF Next
  <2> QED BY <2>1, FailsKeeps, RegisterKeeps, SignInKeeps, SetNameKeeps, RequestLinkKeeps,
             VerifyKeeps, UnsealKeeps, ConfirmKeeps, SignInAgainKeeps, SetKeysKeeps
<1> QED BY <1>1, <1>2

\* The invariant holds in every state any tools reach.
THEOREM Invariance == Spec => []Inv
BY InvInit, InvNext, PTL DEF Spec

\* The types are kept, and no state is printed whose link was not mailed.
THEOREM TypeCorrect == Spec => []TypeOK
<1>1. Inv => TypeOK
  BY DEF Inv
<1> QED BY <1>1, Invariance, PTL

\* A confirmed account is its own registration's, for any number of runs of
\* both steps in any order, mixed up or killed.
THEOREM ConfirmedOwn == Spec => []ConfirmedIsOwn
<1>1. Inv => ConfirmedIsOwn
  BY DEF Inv
<1> QED BY <1>1, Invariance, PTL

\* After "Account registered successfully!" the registration's address and
\* password sign in, for ever.
THEOREM VerifiedSigns == Spec => []VerifiedSignsIn
<1>1. Inv => VerifiedSignsIn
  <2> SUFFICES ASSUME Inv, NEW n \in verified PROVE SignsIn(n, reg[n].email, reg[n].password)
    BY DEF VerifiedSignsIn
  <2>1. n \in Regs /\ account[n].email # None /\ account[n].rsa # None
    BY DEF Inv, TypeOK, VerifiedComplete
  <2> QED BY <2>1 DEF Inv, ConfirmedIsOwn, KeyUnderOwn, SignsIn
<1> QED BY <1>1, Invariance, PTL

-----------------------------------------------------------------------------
\* A run that is about to send its key has a session for an account without one.
Unkeyed ==
    \A t \in Tools : tool[t].pc = "uprsa" /\ tool[t].sid # None => account[tool[t].sid].rsa = None

\* While no two tools run at one time, no RSA key is replaced: between a relogin
\* and the key it leads to there is no other run to send one.  Two at one time
\* may both have a session without a key.
THEOREM KeysOnce == ASSUME \A t, u \in Tools : t = u PROVE Spec => KeysSetOnce
<1> DEFINE Kept == \A n \in Regs : account[n].rsa # None => account'[n].rsa = account[n].rsa
<1>1. Init => Unkeyed
  BY DEF Init, Unkeyed, Idle
<1>2. ASSUME Inv, Unkeyed, [Next]_vars PROVE Unkeyed' /\ Kept
  <2>1. CASE UNCHANGED vars
    BY <1>2, <2>1 DEF vars, Unkeyed
  <2>2. ASSUME NEW t \in Tools,
               \/ Fails(t)
               \/ Register(t) \/ SignIn(t) \/ SetName(t) \/ RequestLink(t)
               \/ Verify(t) \/ Unseal(t) \/ Confirm(t)
        PROVE  Unkeyed' /\ Kept
    <3>1. tool[t] \in ToolRecords /\ tool \in [Tools -> ToolRecords]
      BY <1>2 DEF Inv, TypeOK, ToolRecords
    <3>2. tool'[t].pc # "uprsa"
      <4>1. CASE Set(t, Idle)
        BY <3>1, <4>1 DEF Set, Idle
      <4>2. CASE ~Set(t, Idle) /\ Register(t)
        BY <3>1, <4>2 DEF Register, Answered, Set
      <4>3. CASE ~Set(t, Idle) /\ Verify(t)
        BY <3>1, <4>3 DEF Verify, Set
      <4>4. CASE ~Set(t, Idle) /\ SignIn(t)
        <5> DEFINE r == [tool[t] EXCEPT !.pc = "name", !.sid = tool[t].reg]
        <5>1. tool' = [tool EXCEPT ![t] = r]
          BY <4>4 DEF SignIn, Answered, Set
        <5>2. r.pc = "name"
          BY <3>1 DEF ToolRecords
        <5> HIDE DEF r
        <5> QED BY <3>1, <5>1, <5>2
      <4>5. CASE ~Set(t, Idle) /\ (SetName(t) \/ Unseal(t) \/ Confirm(t))
        <5>1. PICK pc \in {"uc", "upc", "relogin"} : Set(t, [tool[t] EXCEPT !.pc = pc])
          BY <4>5 DEF SetName, Unseal, Confirm, Answered
        <5> QED BY <3>1, <5>1 DEF Set, ToolRecords
      <4> QED BY <2>2, <4>1, <4>2, <4>3, <4>4, <4>5 DEF Fails, RequestLink
    <3>3. Unkeyed'
      BY <3>2 DEF Unkeyed
    <3>4. Kept
      <4>1. account \in [Regs -> Accounts]
        BY <1>2 DEF Inv, TypeOK
      <4>2. CASE account' = account
        BY <4>2
      <4>3. CASE Register(t) /\ account' # account
        BY <4>1, <4>3 DEF Register, Accounts
      <4>4. CASE SetName(t)
        BY <4>1, <4>4 DEF SetName, Accounts
      <4>5. CASE Confirm(t)
        BY <4>1, <4>5 DEF Confirm, Accounts
      <4> QED BY <2>2, <4>2, <4>3, <4>4, <4>5 DEF Fails, SignIn, RequestLink, Verify, Unseal
    <3> QED BY <3>3, <3>4
  <2>3. ASSUME NEW t \in Tools, SignInAgain(t) PROVE Unkeyed' /\ Kept
    <3>1. PICK n \in Regs : Answered(t, [tool[t] EXCEPT !.pc = "uprsa", !.sid = Session(tool[t], n)])
      BY <2>3 DEF SignInAgain
    <3>2. tool[t] \in ToolRecords /\ tool \in [Tools -> ToolRecords] /\ account' = account
      BY <1>2, <2>3 DEF Inv, TypeOK, ToolRecords, SignInAgain
    <3>3. tool'[t].pc = "idle" \/ tool'[t].sid = Session(tool[t], n)
      <4> DEFINE r == [tool[t] EXCEPT !.pc = "uprsa", !.sid = Session(tool[t], n)]
      <4>1. r.sid = Session(tool[t], n)
        BY <3>2 DEF ToolRecords
      <4>2. tool' = [tool EXCEPT ![t] = r] \/ tool' = [tool EXCEPT ![t] = Idle]
        BY <3>1 DEF Answered, Set
      <4> HIDE DEF r
      <4> QED BY <3>2, <4>1, <4>2 DEF Idle
    <3> QED BY <3>2, <3>3 DEF Unkeyed, Session
  <2>4. ASSUME NEW t \in Tools, SetKeys(t) PROVE Unkeyed' /\ Kept
    <3>1. tool \in [Tools -> ToolRecords] /\ tool' = [tool EXCEPT ![t] = Idle]
      BY <1>2, <2>4 DEF Inv, TypeOK, ToolRecords, SetKeys, Set
    <3>2. Unkeyed'
      BY <3>1 DEF Unkeyed, Idle
    <3>3. account[tool[t].sid].rsa = None
      BY <1>2, <2>4 DEF Unkeyed, SetKeys
    <3>4. Kept
      BY <1>2, <2>4, <3>3 DEF SetKeys, Inv, TypeOK, Accounts
    <3> QED BY <3>2, <3>4
  <2> QED BY <1>2, <2>1, <2>2, <2>3, <2>4 DEF Next
<1>3. Inv /\ Unkeyed /\ [Next]_vars => Unkeyed'
  BY <1>2
<1>4. Inv /\ Unkeyed /\ [Next]_vars => [Kept]_account
  BY <1>2
<1> QED BY <1>1, <1>3, <1>4, Invariance, PTL DEF Spec, KeysSetOnce
=============================================================================
