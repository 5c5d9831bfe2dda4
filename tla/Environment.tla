------------------------------ MODULE Environment ------------------------------
(***************************************************************************)
(* The environment variables, as Environment::validate reads them.  A port *)
(* text is modelled by what std::stoi makes of it, a number (whatever      *)
(* follows the number) or an exception; a list of addresses by its entries *)
(* between the commas, without white space.                                *)
(***************************************************************************)
EXTENDS Integers, SequencesExt

CONSTANTS Unset,        \* getenv returns nullptr
          NotANumber,   \* std::stoi throws
          Blank         \* an entry of white space only

Services == {"users", "balance", "payments"}
Ports    == 1 .. 65535

\* An entry: the part before the first colon is not empty, there is a colon,
\* and what std::stoi makes of the rest.
Entry(name, host, colon, port) ==
  [name |-> name, host |-> host, colon |-> colon, port |-> port]

\* Mutant: the upper bound is forgotten.
ValidPortUnbounded(text) == text # NotANumber /\ text \in Nat \ {0}

ValidPort(text) == text # NotANumber /\ text \in Ports

\* validatePort, and the port in validateRedisConfig.
PortAccepted(text) == text = Unset \/ ValidPort(text)

Malformed(entry) == ~entry.colon \/ ~entry.host \/ ~ValidPort(entry.port)

\* validateServiceAddresses takes the lists one by one; Redis comes next.
Following == [users |-> "balance", balance |-> "payments", payments |-> "redis"]

=============================================================================
