--------------------------- MODULE MCConnections ---------------------------
(***************************************************************************)
(* Model checking of what makes up an IETF QUIC connection: the mini       *)
(* connection of the server's handshake, the client's handshake, packet    *)
(* numbers and keys, and the IDs and paths of the full connection.  One    *)
(* run explores each by itself: focus, chosen in the initial state, is the *)
(* part that moves.                                                        *)
(***************************************************************************)
EXTENDS Integers, FiniteSets

CONSTANTS MAX_PACKETS, MAX_STASHED, MIN_BUFFERED, ChloLen, HskLen, CliNos, MaxIn,
          MiniEvents,                                              \* MiniConn
          BASE, MAX_BITS, N_IN_FLIGHT, REORDER_THRESH, NEXT_LIMIT, FIRST_PACKNO,
          MaxUnretx, MaxPackets, MaxRtos, MaxGen,                  \* PacketProtection
          N_CCES, N_DCES, N_PATHS, N_CHALS, PeerLimit, Addrs, Modes, MaxSeq,
          MaxScid, MaxChals,                                       \* ConnIds
          CliVers, SrvVers                                         \* ClientHandshake

VARIABLES imc, wire, got, snd, flight, esi, rcvd, ifc, remote, c, pk, down, srv, focus

M == INSTANCE MiniConn
P == INSTANCE PacketProtection WITH wire <- flight
C == INSTANCE ConnIds
H == INSTANCE ClientHandshake

ASSUME P!PacketProtectionAssumption /\ C!ConnIdsAssumption /\ H!ClientHandshakeAssumption

minivars == <<imc, wire, got>>
protvars == <<snd, flight, esi, rcvd>>
idvars == <<ifc, remote>>
clientvars == <<c, pk, down, srv>>
allvars == <<minivars, protvars, idvars, clientvars, focus>>

MCInit ==
    /\ focus \in {"mini_conn", "protection", "ids", "client"}
    /\ M!MiniInit
    /\ P!Init
    /\ IF focus = "ids" THEN C!CidsInit ELSE ifc = <<>> /\ remote = <<>>
    /\ IF focus = "client" THEN H!ClientInit ELSE c = 0 /\ pk = 0 /\ down = {} /\ srv = 0

MCNext ==
    /\ UNCHANGED focus
    /\ \/ focus = "mini_conn" /\ M!MiniNext
       \/ focus # "mini_conn" /\ UNCHANGED minivars
    /\ \/ focus = "protection" /\ P!Next
       \/ focus # "protection" /\ UNCHANGED protvars
    /\ \/ focus = "ids" /\ C!CidsNext
       \/ focus # "ids" /\ UNCHANGED idvars
    /\ \/ focus = "client" /\ H!ClientNext
       \/ focus # "client" /\ UNCHANGED clientvars

MCSpec == MCInit /\ [][MCNext]_allvars

-----------------------------------------------------------------------------
\* MiniConn: whatever is lost, reordered or repeated, handshake data is never
\* dropped or handed over out of order, and promotion hands over a sound state;
\* until the client's address is validated, the server sends it no more than the
\* allowed multiple of what it received from it.  ClientHandshake: through
\* version negotiation, Retry, refused early data and abandoned packet number
\* spaces the client keeps what it has to say, and the keys, IDs and TLS object
\* it says it with.
HandshakeIsSound ==
    /\ focus = "mini_conn" => M!HandshakeIsSound /\ M!AmplificationLimited
    /\ focus = "client" => H!ClientIsSound
\* PacketProtection: every packet that arrives, however late, is opened with
\* its own number and its own keys.
PacketsOpen == focus = "protection" => P!PacketsOpen
\* ConnIds: IDs are issued within the peer's limit, none is lost, and packets
\* go to a proven address under an ID in use.
IdsAndPathsSound == focus = "ids" => C!IdsAndPathsSound
=============================================================================
