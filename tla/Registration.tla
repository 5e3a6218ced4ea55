---------------------------- MODULE Registration -----------------------------
(***************************************************************************)
(* megareg (tools/reg.c) and the two steps of a registration               *)
(* (libtools/oldmega.c: mega_session_register,                             *)
(* mega_session_register_verify).  The first makes an account without a    *)
(* name to sign in with, has a link mailed, and prints a state; the second *)
(* takes a state and a link, confirms the account and gives it its RSA     *)
(* key.  Any call may fail, executed or not, any run may be killed; the    *)
(* user runs the steps as often as they like, with any state and link they *)
(* were given, perhaps at the same time.                                   *)
(*                                                                         *)
(* Registrations are numbered; a master key, a challenge, a state, a link  *)
(* and an account are named by the number of the registration they come    *)
(* from, an RSA key by the run that made it.                               *)
(***************************************************************************)
EXTENDS Integers

CONSTANTS
    Tools,          \* runs of megareg at one time
    Emails, Passwords,
    None,           \* NULL
    MaxRegs,        \* bound: registrations begun
    MaxRuns         \* bound: runs of the second step

ASSUME RegistrationAssumption ==
    /\ MaxRegs \in Nat /\ MaxRuns \in Nat
    /\ None \notin Emails \cup Passwords \cup Nat \cup (Emails \X Passwords)
    /\ None \notin [email : Emails, password : Passwords]

Regs == 1 .. MaxRegs

VARIABLES
    reg,        \* the registrations begun: email and password
    account,    \* the server's accounts
    mailed,     \* links that were mailed
    printed,    \* states that were printed
    runs,       \* runs of the second step begun
    tool,       \* the runs of megareg
    verified    \* registrations whose second step ended well

vars == <<reg, account, mailed, printed, runs, tool, verified>>

\* An account: what it is signed in with, the password its master key is
\* encrypted with, and its RSA key with the master key that encrypts it.
NoAccount == [made |-> FALSE, named |-> FALSE, email |-> None, uh |-> None, k |-> None,
              rsa |-> None, privk |-> None]

\* pc names the next call.
Idle == [pc |-> "idle", reg |-> None, link |-> None, run |-> None, sid |-> None]

Pcs == {"idle", "us", "name", "uc", "ud", "upc", "relogin", "uprsa"}

Accounts == [made : BOOLEAN, named : BOOLEAN, email : Emails \cup {None},
             uh : (Emails \X Passwords) \cup {None}, k : Passwords \cup {None},
             rsa : 1 .. MaxRuns \cup {None}, privk : Regs \cup {None}]

TypeOK ==
    /\ reg \in [Regs -> [email : Emails, password : Passwords] \cup {None}]
    /\ account \in [Regs -> Accounts]
    /\ mailed \in SUBSET Regs /\ printed \in SUBSET mailed /\ verified \in SUBSET Regs
    /\ runs \in 0 .. MaxRuns
    /\ tool \in [Tools -> [pc : Pcs, reg : Regs \cup {None}, link : Regs \cup {None},
                            run : 1 .. MaxRuns \cup {None}, sid : Regs \cup {None}]]

Set(t, r) == tool' = [tool EXCEPT ![t] = r]

\* The call at hand is answered, or its answer is lost and the run ends.
Answered(t, r) == Set(t, r) \/ Set(t, Idle)

\* A call fails before it is executed, or the tool is killed.
Fails(t) ==
    /\ tool[t].pc # "idle"
    /\ Set(t, Idle)
    /\ UNCHANGED <<reg, account, mailed, printed, runs, verified>>

-----------------------------------------------------------------------------
(* mega_session_register.                                                   *)

\* A master key and a challenge are drawn; 'up' makes the account.
Register(t) ==
    /\ tool[t].pc = "idle"
    /\ \E e \in Emails, p \in Passwords, n \in Regs :
          /\ reg[n] = None /\ \A m \in 1 .. n - 1 : reg[m] # None
          /\ reg' = [reg EXCEPT ![n] = [email |-> e, password |-> p]]
          /\ \/ /\ account' = [account EXCEPT ![n].made = TRUE, ![n].k = p]
                /\ Answered(t, [pc |-> "us", reg |-> n, link |-> None, run |-> None, sid |-> None])
             \/ account' = account /\ Set(t, Idle)
    /\ UNCHANGED <<mailed, printed, runs, verified>>

\* 'us' with the account's handle, then 'ug'.
SignIn(t) ==
    /\ tool[t].pc = "us"
    /\ Answered(t, [tool[t] EXCEPT !.pc = "name", !.sid = tool[t].reg])
    /\ UNCHANGED <<reg, account, mailed, printed, runs, verified>>

\* 'up' with the name.
SetName(t) ==
    /\ tool[t].pc = "name"
    /\ account' = [account EXCEPT ![tool[t].sid].named = TRUE]
    /\ Answered(t, [tool[t] EXCEPT !.pc = "uc"])
    /\ UNCHANGED <<reg, mailed, printed, runs, verified>>

\* 'uc': the link is mailed, and the state printed once the answer is there.
RequestLink(t) ==
    /\ tool[t].pc = "uc"
    /\ mailed' = mailed \cup {tool[t].reg}
    /\ \/ printed' = printed \cup {tool[t].reg}
       \/ printed' = printed
    /\ Set(t, Idle)
    /\ UNCHANGED <<reg, account, runs, verified>>

-----------------------------------------------------------------------------
(* mega_session_register_verify.                                            *)

\* An RSA key is made, and 'us' signs in to the state's account.  The server's
\* answer for an account that is complete may have no tsid.
Verify(t) ==
    /\ tool[t].pc = "idle" /\ runs < MaxRuns
    /\ \E n \in printed, l \in mailed, sid \in Regs \cup {None} :
          /\ sid = n \/ (sid = None /\ account[n].rsa # None)
          /\ Set(t, [pc |-> "ud", reg |-> n, link |-> l, run |-> runs + 1, sid |-> sid])
    /\ runs' = runs + 1
    /\ UNCHANGED <<reg, account, mailed, printed, verified>>

\* Mutant of ChallengeMet: the challenge is not compared.
ChallengeUnchecked(r) == TRUE

\* What the link holds, decrypted with the state's password key, has the
\* state's challenge.
ChallengeMet(r) == r.link = r.reg /\ reg[r.link].password = reg[r.reg].password

\* 'ud'.
Unseal(t) ==
    /\ tool[t].pc = "ud"
    /\ IF ChallengeMet(tool[t]) THEN Answered(t, [tool[t] EXCEPT !.pc = "upc"]) ELSE Set(t, Idle)
    /\ UNCHANGED <<reg, account, mailed, printed, runs, verified>>

\* The server lets no two accounts sign in with one address.
Taken(email, n) == \E m \in Regs \ {n} : account[m].email = email

\* 'up' with c and uh, for the account of the session: its address and master
\* key are the link's from now on.
Confirm(t) ==
    /\ tool[t].pc = "upc" /\ tool[t].sid # None
    /\ LET r == tool[t]
           email == reg[r.link].email
       IN /\ ~Taken(email, r.sid)
          /\ account' = [account EXCEPT ![r.sid].email = email,
                                        ![r.sid].uh = <<email, reg[r.reg].password>>,
                                        ![r.sid].k = reg[r.link].password]
          /\ Answered(t, [r EXCEPT !.pc = "relogin"])
    /\ UNCHANGED <<reg, mailed, printed, runs, verified>>

\* Mutant of Session: a session ID that is not in the answer leaves the old one.
SessionKept(r, n) == IF account[n].rsa = None THEN n ELSE r.reg

\* The session ID in the answer: an account with an RSA key gets a csid, which
\* is not looked for here.
Session(r, n) == IF account[n].rsa = None THEN n ELSE None

\* 'us' with address and uh.
SignInAgain(t) ==
    /\ tool[t].pc = "relogin"
    /\ \E n \in Regs :
          /\ account[n].uh = <<reg[tool[t].link].email, reg[tool[t].reg].password>>
          /\ Answered(t, [tool[t] EXCEPT !.pc = "uprsa", !.sid = Session(tool[t], n)])
    /\ UNCHANGED <<reg, account, mailed, printed, runs, verified>>

\* Mutant of SetKeys: success is reported whether or not the keys were taken.
SetKeysUnchecked(t) ==
    /\ tool[t].pc = "uprsa" /\ tool[t].sid # None
    /\ \/ account' = [account EXCEPT ![tool[t].sid].rsa = tool[t].run,
                                     ![tool[t].sid].privk = tool[t].link]
       \/ account' = account
    /\ verified' = verified \cup {tool[t].reg}
    /\ Set(t, Idle)
    /\ UNCHANGED <<reg, mailed, printed, runs>>

\* 'up' with the RSA key, the private half under the link's master key.
SetKeys(t) ==
    /\ tool[t].pc = "uprsa" /\ tool[t].sid # None
    /\ account' = [account EXCEPT ![tool[t].sid].rsa = tool[t].run,
                                  ![tool[t].sid].privk = tool[t].link]
    /\ \/ verified' = verified \cup {tool[t].reg}
       \/ verified' = verified
    /\ Set(t, Idle)
    /\ UNCHANGED <<reg, mailed, printed, runs>>

Init ==
    /\ reg = [n \in Regs |-> None] /\ account = [n \in Regs |-> NoAccount]
    /\ mailed = {} /\ printed = {} /\ runs = 0 /\ verified = {}
    /\ tool = [t \in Tools |-> Idle]

Next ==
    \E t \in Tools :
        \/ Fails(t)
        \/ Register(t) \/ SignIn(t) \/ SetName(t) \/ RequestLink(t)
        \/ Verify(t) \/ Unseal(t) \/ Confirm(t) \/ SignInAgain(t) \/ SetKeys(t)

Spec == Init /\ [][Next]_vars

-----------------------------------------------------------------------------
\* What mega_session_open does with an address and a password (oldmega.c:2070-2120):
\* the server knows them, the password gives the master key, and that the RSA key.
SignsIn(n, email, password) ==
    /\ account[n].uh = <<email, password>>
    /\ account[n].k = password
    /\ account[n].rsa # None /\ account[n].privk = n

\* "Account registered successfully!" (reg.c:197): the user can sign in with the
\* address and the password of the registration, from then on, whatever else is
\* run with whatever states and links.
VerifiedSignsIn == \A n \in verified : SignsIn(n, reg[n].email, reg[n].password)

\* A confirmed account has the address its link was mailed to, and a master key
\* its own password opens, even if the run that confirmed it went no further
\* (oldmega.c:4095-4115: the challenge is met before anything is changed).
ConfirmedIsOwn ==
    \A n \in Regs : account[n].email # None =>
        /\ n \in mailed /\ account[n].email = reg[n].email
        /\ account[n].uh = <<reg[n].email, reg[n].password>>
        /\ account[n].k = reg[n].password

\* The RSA key of an account is never replaced by one run after another: shares
\* encrypted for the first would be lost.  The second run has no session after
\* its relogin (oldmega.c:4127-4128).
KeysSetOnce ==
    [][\A n \in Regs : account[n].rsa # None => account'[n].rsa = account[n].rsa]_account
=============================================================================
