------------------------------- MODULE SignIn -------------------------------
(***************************************************************************)
(* From the login to the access token. RedirectToCaller (idauth.go) turns  *)
(* the answer of a login into a code, and the token endpoint               *)
(* (authorizationCode in routes.go) exchanges the code for whoever         *)
(* presents the redirect URI it was made for: it asks for no client. An    *)
(* /authorize request names its client and its redirect URI separately,    *)
(* and several clients may use one URI. The login is taken at its word:    *)
(* LoginPromise, which LoginFlow implements. The tokens are those of       *)
(* OneTimeTokens.                                                          *)
(*                                                                         *)
(* Which sessions are open does not matter here: the token endpoint does   *)
(* not look.                                                               *)
(***************************************************************************)
EXTENDS OneTimeTokens

CONSTANTS
    Flows, Clients, SessionIds, NoId,
    RedirectURIs,
    ClientOf,     \* the client of each /authorize request
    RedirectURI   \* and its redirect URI

ASSUME SignInAssumption ==
    /\ ClientOf \in [Flows -> Clients]
    /\ RedirectURI \in [Flows -> RedirectURIs]

VARIABLES
    begun, identified, loginOf, answered,  \* the logins
    codeFor,   \* the session and redirect URI of each code
    access     \* the access tokens answered: the URI presented, the session

loginVars == <<begun, identified, loginOf, answered>>
linkVars == <<codeFor, access>>
signInVars == <<vars, loginVars, linkVars>>

Login == INSTANCE LoginPromise WITH live <- {}, givenUp <- {}

OneTimeToken == [id : SessionIds, uri : RedirectURIs]

SignInInit ==
    /\ Init
    /\ Login!Init
    /\ codeFor \in [Codes -> OneTimeToken]
    /\ access = {}

LogIn ==
    /\ \/ \E f \in Flows : Login!Begin(f)
       \/ \E s \in SessionIds, f \in Flows : Login!Identify(s, f)
    /\ UNCHANGED <<vars, linkVars>>

(* A code is generated for the session a flow is answered, with the flow's *)
(* redirect URI; if it cannot be stored the caller is answered nothing.    *)
RedirectToCaller(f, s, c) ==
    /\ GenerateToken(c)
    /\ codeFor' = [codeFor EXCEPT ![c] = [id |-> s, uri |-> RedirectURI[f]]]
    /\ IF c \in store' THEN Login!Answer(f, s) ELSE UNCHANGED loginVars
    /\ UNCHANGED access

RedeemToken(r, c) ==
    /\ GetToken(r, c)
    /\ UNCHANGED <<linkVars, loginVars>>

(* Mutant of ValidRedirect: the URI presented is not compared. *)
AnyRedirect(r, u) == TRUE

ValidRedirect(r, u) == u = codeFor[code[r]].uri

(* The redirect URI a request presents is chosen here: it is read before   *)
(* the code is redeemed, but nothing looks at it earlier.                  *)
AuthorizationCode(r, u) ==
    /\ \/ /\ ValidRedirect(r, u)
          /\ Deliver(r)
          /\ access' = access \cup {[uri |-> u, id |-> codeFor[code[r]].id]}
       \/ /\ ~found[r] \/ ~ValidRedirect(r, u)
          /\ Refuse(r)
          /\ UNCHANGED access
    /\ UNCHANGED <<codeFor, loginVars>>

(* What the tokens do without anyone's noticing. *)
Unnoticed ==
    /\ \/ \E c \in Codes : Expire(c)
       \/ \E r \in Redeemers : DeleteToken(r)
       \/ \E R \in SUBSET InFlight : Crash(R)
    /\ UNCHANGED <<loginVars, linkVars>>

SignInNext ==
    \/ LogIn
    \/ \E f \in Flows, s \in SessionIds, c \in Codes : RedirectToCaller(f, s, c)
    \/ \E r \in Redeemers, c \in Codes : RedeemToken(r, c)
    \/ \E r \in Redeemers, u \in RedirectURIs : AuthorizationCode(r, u)
    \/ Unnoticed

SignInSpec == SignInInit /\ [][SignInNext]_signInVars

-----------------------------------------------------------------------------
(* An access token is answered only to a request with the redirect URI of  *)
(* a flow that was answered its session, and that flow is of the client    *)
(* the session was begun for: whoever presents the code, however often and *)
(* with whatever redirect URI, and whichever clients share the URI.        *)
AccessFollowsAnswer ==
    \A a \in access : \E f \in Flows :
        /\ RedirectURI[f] = a.uri
        /\ [flow |-> f, id |-> a.id, error |-> FALSE] \in answered
        /\ ClientOf[f] = ClientOf[loginOf[a.id]]
=============================================================================
