------------------------------ MODULE MCSessions ------------------------------
EXTENDS Sessions, TLC

CONSTANTS alice, app, other, plain

MCAgentOf == [c \in {alice} |-> <<65>>]
MCAddressOf == [c \in {alice} |-> <<49>>]

\* Another agent has a separator in it.
MCAgents == {<<65>>, <<65, Sep>>, NoText}
MCAddresses == {<<49>>, <<50>>}

\* Two expiries, and a payload with a separator.
MCPayloads == {Payload(2), Payload(3), <<258, Sep>>}

\* Interchangeable names; not used with liveness.
Symmetry == Permutations(Nodes)

Directive(keyring, ip, ua, secure, session) ==
    [keyring |-> keyring, bind_ip |-> ip, bind_ua |-> ua, host_prefix |-> TRUE,
     secure |-> secure, challenge_timeout |-> 1, session_timeout |-> session]

\* The defaults; another keyring without binding; the first keyring over plain
\* HTTP, whose cookie loses its prefix.
MCConf ==
    [l \in {app, other, plain} |->
        CASE l = app -> Directive(<<75>>, TRUE, TRUE, TRUE, 1)
          [] l = other -> Directive(<<75, 76>>, FALSE, FALSE, TRUE, 2)
          [] l = plain -> Directive(<<75>>, FALSE, TRUE, FALSE, 0)]
=============================================================================
