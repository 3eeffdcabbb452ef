---------------------------- MODULE MCAgentServer ---------------------------
(***************************************************************************)
(* TLC instances of AgentServer: an agent_server and a light_agent_server  *)
(* on one host, with files after the samples in examples/ and README.md,   *)
(* and files that leave something out or have it wrong.  Ports have one    *)
(* digit; scalars have two bytes of three values.                          *)
(***************************************************************************)
EXTENDS AgentServer, TLC

MCCoefficients == <<4, 1>>

Printed(a) == Compact(Share(MCCoefficients, a))
Short     == [base58 |-> TRUE, bytes |-> <<1>>]
Long      == [base58 |-> TRUE, bytes |-> Printed(1).bytes \o <<2>>]
NotBelow  == [base58 |-> TRUE, bytes |-> <<2, 2>>]
NotBase58 == [base58 |-> FALSE]

On(e, host, port) == <<e, "host">> :> host @@ <<e, "port">> :> port

MCReference ==
  On("grpc", "[::]", 0) @@ On("agent-grpc", "[::]", 1) @@ On("management-grpc", "[::]", 9)
    @@ TypeKey :> "Cooperative" @@ ShardKey :> Compact(2)
MCLightReference ==
  On("grpc", "[::]", 1) @@ On("management-grpc", "[::]", 9) @@ ShardKey :> Compact(2)

\* The file of the README: it names an address of the service.
Documented ==
  <<"grpc", "address">> :> "localhost" @@ <<"grpc", "port">> :> 0
    @@ On("agent-grpc", "[::]", 1) @@ TypeKey :> "Cooperative" @@ ShardKey :> Printed(1)

ServerFiles ==
  {Documented, <<>>,
   ShardKey :> Long @@ On("agent-grpc", "127.0.0.1", 1) @@ On("management-grpc", "127.0.0.1", 8),
   ShardKey :> Short,
   ShardKey :> Printed(1) @@ On("agent-grpc", "localhost", 1),
   TypeKey :> "Naive" @@ SecretKey :> Compact(3),
   TypeKey :> "Naive",
   TypeKey :> "Unknown"}

LightFiles ==
  {On("grpc", "[::]", 2) @@ ShardKey :> Printed(2),
   On("grpc", "127.0.0.1", 2) @@ On("management-grpc", "127.0.0.1", 7) @@ ShardKey :> Printed(2),
   On("grpc", "[::]", 2) @@ On("management-grpc", "[::]", 8),
   ShardKey :> NotBelow,
   On("grpc", "localhost", 2) @@ ShardKey :> NotBase58}

MCFiles == [p \in {"server", "light"} |-> IF p = "light" THEN LightFiles ELSE ServerFiles]
MCAgentOf == [p \in {"server", "light"} |-> IF p = "light" THEN 2 ELSE 1]
MCAgentPort == <<1, 2>>
=============================================================================
