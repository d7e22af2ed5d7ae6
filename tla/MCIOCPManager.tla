---------------------------- MODULE MCIOCPManager ----------------------------
EXTENDS IOCPManager, TLC

\* Connections, socket values and threads of a kind are interchangeable.
Symmetry == Permutations(Conn) \cup Permutations(Handle)
            \cup Permutations(Worker) \cup Permutations(Acceptor)
=============================================================================
