--------------------------- MODULE MCClientRegistry ---------------------------
(* Three clients and two edits of each source. The portal is in the file   *)
(* throughout, and in the API by mistake; the feed is a service the API    *)
(* adds and removes; the robot moves from the file to the API and is       *)
(* allowed another grant there.                                            *)
EXTENDS ClientRegistry

CONSTANTS portal, feed, robot

Web == [web |-> TRUE, grants |-> {"basic"}]
Service(grants) == [web |-> FALSE, grants |-> grants]

MCFileAt ==
    [v \in Versions |->
        [id \in ClientIds |->
            CASE id = portal -> Web
              [] id = feed -> NoClient
              [] id = robot -> IF v = 0 THEN Service({"basic"}) ELSE NoClient]]

MCApiAt ==
    [v \in Versions |->
        [id \in ClientIds |->
            CASE id = portal -> IF v = 0 THEN NoClient ELSE Service({"iam"})
              [] id = feed -> IF v = 1 THEN Service({"client_credentials"})
                              ELSE NoClient
              [] id = robot -> Service({"iam"})]]
=============================================================================
