------------------------------- MODULE FPServer -------------------------------
(***************************************************************************)
(* The two units with any client: it has a program of requests, puts the   *)
(* next one when its unit accepts it, now or some cycles later, and takes  *)
(* each unit's answers when it likes.                                      *)
(***************************************************************************)
EXTENDS FPUnits, Sequences

CONSTANT Programs       \* sequences of [unit, req]

VARIABLES
    todo,       \* the requests not yet put
    asked,      \* per unit, the requests put
    answers     \* per unit, the answers taken
client == <<todo, asked, answers>>
serverVars == <<madd, div, core, todo, asked, answers>>

Units == {"madd", "div"}

ServerInit ==
    /\ UnitsInit
    /\ todo \in Programs
    /\ asked = [u \in Units |-> <<>>]
    /\ answers = [u \in Units |-> <<>>]

Taken(u, get) == get /\ (IF u = "madd" THEN madd[MaddLast] ELSE div[DivLast]) # Empty
Puts(u, get, put) ==
    /\ put /\ todo # <<>> /\ Head(todo).unit = u
    /\ IF u = "madd" THEN MaddAccepts(Taken(u, get)) ELSE DivAccepts(Taken(u, get))

\* One clock cycle, in which the client may put and may take.
ServerCycle(get, put) ==
    LET in(u) == IF Puts(u, get, put) THEN Head(todo).req ELSE Empty
        out(u) == IF u = "madd" THEN madd[MaddLast] ELSE div[DivLast]
    IN  /\ MaddCycle(in("madd"), Taken("madd", get))
        /\ DivCycle(in("div"), Taken("div", get))
        /\ todo' = IF \E u \in Units : Puts(u, get, put) THEN Tail(todo) ELSE todo
        /\ asked' = [u \in Units |->
                        IF Puts(u, get, put) THEN Append(asked[u], Head(todo).req)
                        ELSE asked[u]]
        /\ answers' = [u \in Units |->
                        IF Taken(u, get) THEN Append(answers[u], out(u))
                        ELSE answers[u]]

ServerNext == \E get, put \in BOOLEAN : ServerCycle(get, put)
ServerSpec == ServerInit /\ [][ServerNext]_serverVars
                /\ WF_serverVars(ServerCycle(TRUE, TRUE))

-----------------------------------------------------------------------------
(* What the proofs take for granted: programs call the units, and what     *)
(* stages make of their requests is something.                             *)

Calls == UNION {{p[k] : k \in DOMAIN p} : p \in Programs}
Callable == Programs \subseteq Seq(Calls) /\ \A c \in Calls : c.unit \in Units
Something ==
    \A c \in Calls :
        IF c.unit = "madd" THEN \A i \in 0 .. MaddLast : MaddItems(c.req)[i] # Empty
        ELSE /\ \A i \in 0 .. DivLast : DivItems(c.req)[i] # Empty
             /\ \A i \in 0 .. CoreLast :
                    CoreItems(Operands(DivItems(c.req)[1]))[i] # Empty

\* Of any request a client makes, the stages compute the right answer.
StagesRound ==
    \A c \in Calls :
        IF c.unit = "madd" THEN MaddAnswers(c.req, MaddItems(c.req)[MaddLast])
        ELSE DivAnswers(c.req, DivItems(c.req)[DivLast])
-----------------------------------------------------------------------------
(***************************************************************************)
(* The i-th answer of the multiply-add unit is that of its i-th request:   *)
(* the exact sum rounded once, or, where that needs digits of the product  *)
(* the unit does not carry, the sum of a neighbour of the product; with    *)
(* all five exceptions, whatever is in the pipeline around it.             *)
(***************************************************************************)
MaddRounds ==
    \A i \in DOMAIN answers["madd"] :
        MaddAnswers(asked["madd"][i], answers["madd"][i])

(***************************************************************************)
(* As main.tex:1738-1741 has it, a * b + c is performed with only a single *)
(* rounding step: every answer is the exact sum, rounded.                  *)
(***************************************************************************)
SingleRounding ==
    \A i \in DOMAIN answers["madd"] :
        RoundedOnce(asked["madd"][i], answers["madd"][i])

(***************************************************************************)
(* The i-th answer of the divider is that of its i-th request, correctly   *)
(* rounded, although answers known at once do not pass through the integer *)
(* divider.                                                                *)
(***************************************************************************)
DivRounds ==
    \A i \in DOMAIN answers["div"] :
        DivAnswers(asked["div"][i], answers["div"][i])

(***************************************************************************)
(* A client that goes on putting and taking gets every answer.             *)
(***************************************************************************)
AllAnswered ==
    <>(todo = <<>> /\ \A u \in Units : Len(answers[u]) = Len(asked[u]))
=============================================================================
