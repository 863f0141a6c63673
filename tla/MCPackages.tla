------------------------------ MODULE MCPackages ------------------------------
(***************************************************************************)
(* The two users of the package reader, for TLC: pairing with the app on a *)
(* phone and the session with the server.  They share no state of the      *)
(* device (each has a reader of its own) and each is explored on its own:  *)
(* the scene is chosen at the start.                                       *)
(***************************************************************************)
EXTENDS Pairing, ServerSession

VARIABLE scene

\* The app asks for the identity, or hands over its parameters: an access
\* point and a server in SmartConfig's mode, a whole set in either.
AppRequests == {<<"get", "end">>,
                <<"post", "length2", "end", "{host", "}">>,
                <<"post", "length2", "end", "{all", "}">>}

\* A frame with a two byte length and one that sets the heartbeat.
ServerFrames == {<<"81", "7e", "00", "01", "m">>, <<"81", "01", "hb">>}

Init == PairingInit /\ SessionInit /\ scene \in {"phone", "server"}

Next == \/ scene = "phone" /\ PairingNext /\ UNCHANGED <<sessionVars, scene>>
        \/ scene = "server" /\ SessionNext /\ UNCHANGED <<pairingVars, scene>>

Spec == /\ Init /\ [][Next]_<<pairingVars, sessionVars, scene>>
        /\ scene = "phone" => PairingFairness
        /\ scene = "server" => SessionFairness

===============================================================================
