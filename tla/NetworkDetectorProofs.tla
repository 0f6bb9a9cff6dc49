------------------------ MODULE NetworkDetectorProofs ------------------------
(* The safety of the detector, the gate and the TUN mode, for any number   *)
(* of requests, outages, exits and failing calls.                          *)
EXTENDS NetworkDetector, SequenceTheorems, TLAPS

First == Head(line).todo

-----------------------------------------------------------------------------
(* Short sequences. *)

LEMMA Tails ==
    /\ \A a, b : Tail(<<a, b>>) = <<b>>
    /\ \A a, b, c : Tail(<<a, b, c>>) = <<b, c>>
  <1>1. \A a, b : Tail(<<a, b>>) = <<b>>
    OBVIOUS
  <1>2. \A a, b, c : Tail(<<a, b, c>>) = <<b, c>>
    OBVIOUS
  <1> QED
    BY <1>1, <1>2

LEMMA ShortSeqs ==
    ASSUME NEW S
    PROVE  /\ \A a \in S : <<a>> \in Seq(S) \ {<<>>}
           /\ \A a, b \in S : <<a, b>> \in Seq(S) \ {<<>>}
           /\ \A a, b, c \in S : <<a, b, c>> \in Seq(S) \ {<<>>}
           /\ \A a, b, c, d \in S : <<a, b, c, d>> \in Seq(S) \ {<<>>}
  <1>1. \A a \in S : <<a>> \in Seq(S) \ {<<>>}
    OBVIOUS
  <1>2. \A a, b \in S : <<a, b>> \in Seq(S) \ {<<>>}
    OBVIOUS
  <1>3. \A a, b, c \in S : <<a, b, c>> \in Seq(S) \ {<<>>}
    OBVIOUS
  <1>4. \A a, b, c, d \in S : <<a, b, c, d>> \in Seq(S) \ {<<>>}
    OBVIOUS
  <1> QED
    BY <1>1, <1>2, <1>3, <1>4

LEMMA Singleton == \A a, r : Len(r) > 1 => r # <<a>>
  <1> SUFFICES ASSUME NEW a, NEW r, r = <<a>> PROVE ~(Len(r) > 1)
    OBVIOUS
  <1>1. Len(<<a>>) = 1
    OBVIOUS
  <1> QED
    BY <1>1

LEMMA HeadOfTwo ==
    ASSUME NEW S, NEW s \in Seq(S), Len(s) <= 2
    PROVE  /\ DOMAIN s = 1..Len(s) /\ Len(s) \in Nat
           /\ s # <<>> => Head(s) = s[1] /\ s[1] \in S /\ Len(s) \in 1..2
           /\ Len(s) <= 1 => Len(s) # 2
           /\ Len(s) # 2 => Len(s) <= 1
  <1>1. DOMAIN s = 1..Len(s) /\ Len(s) \in Nat
    OBVIOUS
  <1>2. s # <<>> => Head(s) = s[1] /\ s[1] \in S /\ Len(s) \in 1..2
    <2>1. s # <<>> => Len(s) # 0
      OBVIOUS
    <2>2. Len(s) # 0 => Len(s) \in 1..2 /\ 1 \in DOMAIN s
      BY <1>1
    <2>3. Head(s) = s[1] /\ (1 \in DOMAIN s => s[1] \in S)
      OBVIOUS
    <2> QED
      BY <2>1, <2>2, <2>3
  <1> QED
    BY <1>1, <1>2

LEMMA AppendToOne ==
    ASSUME NEW S, NEW s \in Seq(S), NEW q \in S, Len(s) <= 1
    PROVE  /\ Append(s, q) \in Seq(S) /\ Len(Append(s, q)) <= 2 /\ Append(s, q) # <<>>
           /\ \A i \in DOMAIN Append(s, q) : i \in DOMAIN s \/ Append(s, q)[i] = q
           /\ \A i \in DOMAIN s : Append(s, q)[i] = s[i]
           /\ s = <<>> => Head(Append(s, q)) = q /\ Len(Append(s, q)) = 1
           /\ s # <<>> => /\ 1 \in DOMAIN s /\ Head(Append(s, q)) = Head(s)
                          /\ Append(s, q)[1] = s[1] /\ Append(s, q)[2] = q
  <1>1. /\ Append(s, q) \in Seq(S) /\ Len(Append(s, q)) = Len(s) + 1 /\ Len(s) \in Nat
        /\ DOMAIN Append(s, q) = 1..(Len(s) + 1) /\ DOMAIN s = 1..Len(s)
        /\ \A i \in 1..Len(s) : Append(s, q)[i] = s[i]
        /\ Append(s, q)[Len(s) + 1] = q
    OBVIOUS
  <1>2. Append(s, q) # <<>> /\ Head(Append(s, q)) = Append(s, q)[1]
    OBVIOUS
  <1>3. s = <<>> => Len(s) = 0
    OBVIOUS
  <1>4. s # <<>> => Len(s) = 1 /\ Head(s) = s[1]
    <2>1. s # <<>> => Len(s) # 0
      OBVIOUS
    <2>2. Head(s) = s[1]
      OBVIOUS
    <2> QED
      BY <1>1, <2>1, <2>2
  <1> QED
    BY <1>1, <1>2, <1>3, <1>4

LEMMA TailOfTwo ==
    ASSUME NEW S, NEW s \in Seq(S), s # <<>>, Len(s) <= 2
    PROVE  /\ Tail(s) \in Seq(S) /\ Len(Tail(s)) <= 1
           /\ \A i \in DOMAIN Tail(s) : Len(s) = 2 /\ Tail(s)[i] = s[2]
           /\ Tail(s) # <<>> => Len(s) = 2 /\ Head(Tail(s)) = s[2]
  <1>1. Len(s) \in Nat /\ Len(s) # 0
    OBVIOUS
  <1>2. Tail(s) \in Seq(S) /\ Len(Tail(s)) = Len(s) - 1 /\ \A i \in 1..Len(Tail(s)) : Tail(s)[i] = s[i + 1]
    BY HeadTailProperties
  <1>3. Len(Tail(s)) <= 1 /\ DOMAIN Tail(s) = 1..Len(Tail(s))
    BY <1>1, <1>2
  <1>4. ASSUME Tail(s) # <<>> PROVE Len(s) = 2 /\ Head(Tail(s)) = s[2]
    <2>1. Len(Tail(s)) = 1
      BY <1>1, <1>2, <1>4
    <2>2. Tail(s)[1] = s[2]
      BY <2>1, <1>2
    <2> QED
      BY <1>1, <1>2, <2>1, <2>2, <1>4
  <1>5. ASSUME NEW i \in DOMAIN Tail(s) PROVE Len(s) = 2 /\ Tail(s)[i] = s[2]
    BY <1>1, <1>2, <1>3
  <1> QED
    BY <1>2, <1>3, <1>4, <1>5

-----------------------------------------------------------------------------
(* What is left of a request. *)

LEMMA RestsListed ==
    ASSUME NEW r \in Rests
    PROVE  \/ r \in {<<"start">>, <<"start", "want", "tun_up">>, <<"start", "proxy_on">>, <<"start", "tun_up">>}
           \/ r \in {<<"restore", "tun_down", "stop", "tun_reset">>, <<"tun_down", "stop", "tun_reset">>,
                     <<"stop", "tun_reset">>, <<"tun_reset">>}
           \/ r \in {<<"tun_wait">>, <<"tun_wait", "stop", "tun_reset">>, <<"want", "tun_up">>, <<"tun_up">>,
                     <<"unwant", "tun_off">>, <<"tun_off">>}
           \/ r \in {<<"proxy_on">>, <<"proxy_off">>, <<"net_down">>, <<"net_up">>}
  BY Zenon DEF Rests, Jobs, UserJobs, StopJob, StopRest

LEMMA RestsType == Rests \subseteq Seq(Steps) \ {<<>>}
  <1> DEFINE T == Seq(Steps) \ {<<>>}
  <1>0. /\ "start" \in Steps /\ "restore" \in Steps /\ "tun_down" \in Steps /\ "stop" \in Steps
        /\ "tun_reset" \in Steps /\ "want" \in Steps /\ "tun_up" \in Steps /\ "unwant" \in Steps
        /\ "tun_off" \in Steps /\ "tun_wait" \in Steps /\ "proxy_on" \in Steps /\ "proxy_off" \in Steps
        /\ "net_down" \in Steps /\ "net_up" \in Steps
    BY DEF Steps
  <1>1. /\ <<"start">> \in T /\ <<"start", "want", "tun_up">> \in T
        /\ <<"start", "proxy_on">> \in T /\ <<"start", "tun_up">> \in T
    BY <1>0, ShortSeqs, Zenon
  <1>2. /\ <<"restore", "tun_down", "stop", "tun_reset">> \in T /\ <<"tun_down", "stop", "tun_reset">> \in T
        /\ <<"stop", "tun_reset">> \in T /\ <<"tun_reset">> \in T
    BY <1>0, ShortSeqs, Zenon
  <1>3. /\ <<"tun_wait">> \in T /\ <<"tun_wait", "stop", "tun_reset">> \in T /\ <<"want", "tun_up">> \in T
        /\ <<"tun_up">> \in T /\ <<"unwant", "tun_off">> \in T /\ <<"tun_off">> \in T
    BY <1>0, ShortSeqs, Zenon
  <1>4. /\ <<"proxy_on">> \in T /\ <<"proxy_off">> \in T
        /\ <<"net_down">> \in T /\ <<"net_up">> \in T
    BY <1>0, ShortSeqs, Zenon
  <1> QED
    BY <1>1, <1>2, <1>3, <1>4, RestsListed, Zenon

LEMMA RestHeads ==
    ASSUME NEW r \in Rests
    PROVE  /\ Head(r) = "restore"   => r = StopJob
           /\ Head(r) = "tun_down"  => r = <<"tun_down", "stop", "tun_reset">>
           /\ Head(r) = "stop"      => r = <<"stop", "tun_reset">>
           /\ Head(r) = "tun_reset" => r = <<"tun_reset">>
           /\ Head(r) = "want"      => r = <<"want", "tun_up">>
           /\ Head(r) = "tun_up"    => r = <<"tun_up">>
           /\ Head(r) = "tun_off"   => r = <<"tun_off">>
           /\ Head(r) = "tun_wait"  => r \in {<<"tun_wait">>, <<"tun_wait", "stop", "tun_reset">>}
           /\ Head(r) \in {"proxy_on", "proxy_off", "net_down", "net_up"} => Len(r) = 1
           /\ Head(r) = "start"     => r \in {<<"start">>, <<"start", "want", "tun_up">>,
                                              <<"start", "proxy_on">>, <<"start", "tun_up">>}
           /\ Head(r) = "unwant"    => r = <<"unwant", "tun_off">>
  <1>1. CASE r \in {<<"start">>, <<"start", "want", "tun_up">>, <<"start", "proxy_on">>, <<"start", "tun_up">>}
    BY <1>1
  <1>2. CASE r \in {<<"restore", "tun_down", "stop", "tun_reset">>, <<"tun_down", "stop", "tun_reset">>,
                    <<"stop", "tun_reset">>, <<"tun_reset">>}
    BY <1>2 DEF StopJob
  <1>3. CASE r \in {<<"tun_wait">>, <<"tun_wait", "stop", "tun_reset">>, <<"want", "tun_up">>, <<"tun_up">>,
                    <<"unwant", "tun_off">>, <<"tun_off">>}
    BY <1>3
  <1>4. CASE r \in {<<"proxy_on">>, <<"proxy_off">>, <<"net_down">>, <<"net_up">>}
    BY <1>4
  <1> QED
    BY <1>1, <1>2, <1>3, <1>4, RestsListed, Zenon

LEMMA RestTails == ASSUME NEW r \in Rests, Len(r) > 1 PROVE Tail(r) \in Rests
  <1>0. {<<"want", "tun_up">>, <<"tun_up">>, <<"proxy_on">>, <<"tun_off">>, <<"tun_reset">>} \cup StopRest \subseteq Rests
    BY Zenon DEF Rests, Jobs, UserJobs
  <1>2. CASE r \in {<<"start", "want", "tun_up">>, <<"start", "proxy_on">>, <<"start", "tun_up">>}
    <2>1. Tail(r) \in {<<"want", "tun_up">>, <<"proxy_on">>, <<"tun_up">>}
      <3>1. /\ Tail(<<"start", "want", "tun_up">>) = <<"want", "tun_up">>
            /\ Tail(<<"start", "proxy_on">>) = <<"proxy_on">>
            /\ Tail(<<"start", "tun_up">>) = <<"tun_up">>
        BY Tails, Zenon
      <3> QED
        BY <1>2, <3>1, Zenon
    <2> QED
      BY <2>1, <1>0, Zenon
  <1>3. CASE r \in {<<"restore", "tun_down", "stop", "tun_reset">>, <<"tun_down", "stop", "tun_reset">>,
                    <<"stop", "tun_reset">>, <<"tun_wait", "stop", "tun_reset">>}
    <2>1. Tail(r) \in {<<"tun_down", "stop", "tun_reset">>, <<"stop", "tun_reset">>, <<"tun_reset">>}
      <3>1. Tail(<<"restore", "tun_down", "stop", "tun_reset">>) = <<"tun_down", "stop", "tun_reset">>
        OBVIOUS
      <3>2. /\ Tail(<<"tun_down", "stop", "tun_reset">>) = <<"stop", "tun_reset">>
            /\ Tail(<<"tun_wait", "stop", "tun_reset">>) = <<"stop", "tun_reset">>
            /\ Tail(<<"stop", "tun_reset">>) = <<"tun_reset">>
        BY Tails, Zenon
      <3> QED
        BY <1>3, <3>1, <3>2, Zenon
    <2> QED
      BY <2>1, <1>0, Zenon DEF StopRest
  <1>4. CASE r \in {<<"want", "tun_up">>, <<"unwant", "tun_off">>}
    <2>1. Tail(r) \in {<<"tun_up">>, <<"tun_off">>}
      BY <1>4, Tails, Zenon
    <2> QED
      BY <2>1, <1>0, Zenon
  <1>5. CASE r \in {<<"start">>, <<"tun_reset">>, <<"tun_wait">>, <<"tun_up">>, <<"tun_off">>,
                    <<"proxy_on">>, <<"proxy_off">>, <<"net_down">>, <<"net_up">>}
    BY <1>5
  <1> QED
    BY <1>2, <1>3, <1>4, <1>5, RestsListed, Zenon

LEMMA JobHeads ==
    ASSUME NEW r \in Jobs
    PROVE  r \in Rests /\ r \notin StopRest
           /\ Head(r) \notin {"tun_down", "tun_reset", "want", "tun_up", "tun_wait"}
  BY DEF Rests, Jobs, UserJobs, StopJob, StopRest

LEMMA Follows ==
    ASSUME NEW r \in Rests, Len(r) > 1
    PROVE  /\ Head(r) = "start" => Tail(r) \in {<<"want", "tun_up">>, <<"proxy_on">>, <<"tun_up">>}
           /\ Head(r) = "restore" => Tail(r) = <<"tun_down", "stop", "tun_reset">>
           /\ Head(r) \in {"tun_down", "tun_wait"} => Tail(r) = <<"stop", "tun_reset">>
           /\ Head(r) = "stop" => Tail(r) = <<"tun_reset">>
           /\ Head(r) = "want" => Tail(r) = <<"tun_up">>
           /\ Head(r) = "unwant" => Tail(r) = <<"tun_off">>
           /\ Head(r) \notin {"tun_reset", "tun_up", "tun_off", "proxy_on", "proxy_off", "net_down", "net_up"}
  <1>1. /\ Tail(<<"start", "want", "tun_up">>) = <<"want", "tun_up">>
        /\ Tail(<<"start", "proxy_on">>) = <<"proxy_on">>
        /\ Tail(<<"start", "tun_up">>) = <<"tun_up">>
    BY Tails, Zenon
  <1>2. Tail(<<"restore", "tun_down", "stop", "tun_reset">>) = <<"tun_down", "stop", "tun_reset">>
    OBVIOUS
  <1>3. /\ Tail(<<"tun_down", "stop", "tun_reset">>) = <<"stop", "tun_reset">>
        /\ Tail(<<"tun_wait", "stop", "tun_reset">>) = <<"stop", "tun_reset">>
        /\ Tail(<<"stop", "tun_reset">>) = <<"tun_reset">>
    BY Tails, Zenon
  <1>4. /\ Tail(<<"want", "tun_up">>) = <<"tun_up">>
        /\ Tail(<<"unwant", "tun_off">>) = <<"tun_off">>
    BY Tails, Zenon
  <1>6. Head(r) = "start" => Tail(r) \in {<<"want", "tun_up">>, <<"proxy_on">>, <<"tun_up">>}
    <2> SUFFICES ASSUME Head(r) = "start" PROVE Tail(r) \in {<<"want", "tun_up">>, <<"proxy_on">>, <<"tun_up">>}
      OBVIOUS
    <2>1. r \in {<<"start">>, <<"start", "want", "tun_up">>, <<"start", "proxy_on">>, <<"start", "tun_up">>}
      BY RestHeads, Zenon
    <2>2. r # <<"start">>
      BY Singleton, Zenon
    <2> QED
      BY <1>1, <2>1, <2>2, Zenon
  <1>7. Head(r) = "restore" => Tail(r) = <<"tun_down", "stop", "tun_reset">>
    BY <1>2, RestHeads, Zenon DEF StopJob
  <1>8. Head(r) \in {"tun_down", "tun_wait"} => Tail(r) = <<"stop", "tun_reset">>
    <2>1. Head(r) = "tun_wait" => r \in {<<"tun_wait">>, <<"tun_wait", "stop", "tun_reset">>}
      BY RestHeads, Zenon
    <2>2. r # <<"tun_wait">>
      BY Singleton, Zenon
    <2>3. Head(r) = "tun_down" => r = <<"tun_down", "stop", "tun_reset">>
      BY RestHeads, Zenon
    <2> QED
      BY <1>3, <2>1, <2>2, <2>3, Zenon
  <1>9. /\ Head(r) = "stop" => Tail(r) = <<"tun_reset">>
        /\ Head(r) = "want" => Tail(r) = <<"tun_up">>
        /\ Head(r) = "unwant" => Tail(r) = <<"tun_off">>
    BY <1>3, <1>4, RestHeads, Zenon
  <1>10. Head(r) \notin {"tun_reset", "tun_up", "tun_off", "proxy_on", "proxy_off", "net_down", "net_up"}
    <2>1. Len(<<"tun_reset">>) = 1 /\ Len(<<"tun_up">>) = 1 /\ Len(<<"tun_off">>) = 1
      OBVIOUS
    <2> QED
      BY <2>1, RestHeads
  <1> QED
    BY <1>6, <1>7, <1>8, <1>9, <1>10

-----------------------------------------------------------------------------
(* The line of the gate. *)

Requests == [by : {"user", "detector"}, todo : Rests]

LEMMA LineTyped ==
    ASSUME NEW l \in Seq(Requests)
    PROVE  l \in Seq([by : {"user", "detector"}, todo : Seq(Steps) \ {<<>>}])
  <1> DEFINE T == [by : {"user", "detector"}, todo : Seq(Steps) \ {<<>>}]
  <1>1. \A q \in Requests : q \in T
    BY RestsType DEF Requests
  <1> HIDE DEF T
  <1>2. l \in Seq(T)
    BY <1>1
  <1> QED
    BY <1>2 DEF T

LEMMA Holding ==
    ASSUME LineShape, line # <<>>
    PROVE  /\ First \in Rests /\ Head(line) = line[1] /\ line[1] \in Requests
           /\ line \in Seq(Requests) /\ Len(line) \in 1..2
  <1>1. line \in Seq(Requests) /\ Len(line) <= 2
    BY DEF LineShape, Requests
  <1>2. Head(line) = line[1] /\ line[1] \in Requests /\ Len(line) \in 1..2
    BY <1>1, HeadOfTwo, Zenon
  <1> QED
    BY <1>1, <1>2 DEF First, Requests

LEMMA Popped ==
    ASSUME LineShape, line # <<>>, line' = Tail(line), at' = at
    PROVE  LineShape' /\ (line' # <<>> => First' \in Jobs)
  <1>1. /\ line' \in Seq(Requests) /\ Len(line') <= 1
        /\ \A i \in DOMAIN line' : Len(line) = 2 /\ line'[i] = line[2]
        /\ line' # <<>> => Len(line) = 2 /\ Head(line') = line[2]
    BY Holding, TailOfTwo
  <1>2. line' # <<>> => First' \in Jobs
    BY <1>1 DEF LineShape, First
  <1>3. Answered => Answered'
    <2>1. Len(line) = 2 => 2 \in DOMAIN line
      BY Holding
    <2> QED
      BY <1>1, <2>1 DEF Answered
  <1>4. Len(line') <= 2 /\ Len(line') # 2
    <2>1. \A n \in Nat : n <= 1 => n <= 2 /\ n # 2
      OBVIOUS
    <2>2. Len(line') \in Nat
      <3>1. \A l \in Seq(Requests) : Len(l) \in Nat
        OBVIOUS
      <3> QED
        BY <1>1, <3>1, Zenon
    <2> QED
      BY <1>1, <2>1, <2>2, Zenon
  <1>5. ~Answered' => at' \in {"starting", "upping", "downing", "stopping"}
    BY <1>3 DEF LineShape
  <1> QED
    BY <1>1, <1>2, <1>4, <1>5, Zenon DEF LineShape, Requests

LEMMA Replaced ==
    ASSUME LineShape, line # <<>>, NEW r \in Rests, line' = [line EXCEPT ![1].todo = r], at' = at
    PROVE  LineShape' /\ line' # <<>> /\ First' = r
  <1> DEFINE q == [line[1] EXCEPT !.todo = r]
  <1>1. line' = [line EXCEPT ![1] = q]
    BY Zenon
  <1>2. q \in Requests /\ q.todo = r /\ q.by = line[1].by
    BY Holding DEF Requests
  <1> HIDE DEF q
  <1>3. /\ line' \in Seq(Requests) /\ Len(line') = Len(line) /\ line' # <<>> /\ Head(line') = q
        /\ line'[1] = q /\ DOMAIN line' = DOMAIN line /\ \A i \in DOMAIN line : i # 1 => line'[i] = line[i]
    BY <1>1, <1>2, Holding
  <1>4. 1 \in DOMAIN line /\ (Len(line) = 2 => 2 \in DOMAIN line)
    BY Holding
  <1>5. Answered => Answered'
    BY <1>2, <1>3, <1>4 DEF Answered
  <1>6. Len(line') = 2 => line'[1].by # line'[2].by /\ line'[2].todo \in Jobs
    BY <1>2, <1>3, <1>4 DEF LineShape
  <1> QED
    BY <1>2, <1>3, <1>5, <1>6, Holding DEF LineShape, Requests, First

\* A step behind the gate either ends its request or leaves the rest of it.
LEMMA Stepped ==
    ASSUME LineShape, line # <<>>, Done \/ Failed, at' = at
    PROVE  /\ LineShape'
           /\ line' # <<>> => First' \in Jobs \/ (Done /\ Len(First) > 1 /\ First' = Tail(First))
  <1>1. CASE line' = Tail(line)
    BY <1>1, Popped
  <1>2. CASE Done /\ Len(First) > 1
    <2>1. line' = [line EXCEPT ![1].todo = Tail(First)]
      BY <1>2, Holding DEF Done, First
    <2>2. Tail(First) \in Rests
      BY <1>2, Holding, RestTails
    <2> QED
      BY <1>2, <2>1, <2>2, Replaced
  <1> QED
    BY <1>1, <1>2 DEF Done, Failed, Answers, First

LEMMA Joined ==
    ASSUME LineShape, NEW who \in {"user", "detector"}, NEW job \in Jobs, Joins(who, job),
           \A i \in DOMAIN line : line[i].by # who,
           IF who = "user" THEN at' = at ELSE at' \in {"starting", "upping", "downing", "stopping"}
    PROVE  /\ LineShape' /\ line' # <<>>
           /\ line = <<>> => First' \in Jobs
           /\ line # <<>> => Head(line') = Head(line)
  <1> DEFINE q == [by |-> who, todo |-> job]
  <1>1. q \in Requests /\ q.by = who /\ q.todo = job
    BY JobHeads DEF Requests
  <1>2. line' = Append(line, q) /\ line \in Seq(Requests) /\ Len(line) \in Nat /\ Len(line) <= 2
    BY DEF Joins, LineShape, Requests
  <1> HIDE DEF q
  <1>3. Len(line) <= 1
    <2>1. ASSUME Len(line) = 2 PROVE FALSE
      <3>1. line[1] \in Requests /\ line[2] \in Requests /\ line[1].by # who /\ line[2].by # who
        BY <1>2, <2>1
      <3> QED
        BY <3>1, <2>1 DEF LineShape, Requests
    <2> QED
      BY <1>2, <2>1, HeadOfTwo, Zenon
  <1>4. /\ line' \in Seq(Requests) /\ Len(line') <= 2 /\ line' # <<>>
        /\ \A i \in DOMAIN line : line'[i] = line[i]
        /\ \A i \in DOMAIN line' : i \in DOMAIN line \/ line'[i] = q
    BY <1>1, <1>2, <1>3, AppendToOne
  <1>5. line = <<>> => Head(line') = q /\ Len(line') = 1
    BY <1>1, <1>2, <1>3, AppendToOne
  <1>6. line # <<>> => /\ 1 \in DOMAIN line /\ Head(line') = Head(line)
                       /\ line'[1] = line[1] /\ line'[2] = q
    BY <1>1, <1>2, <1>3, AppendToOne
  <1>7. ASSUME Len(line') = 2 PROVE line'[1].by # line'[2].by /\ line'[2].todo \in Jobs
    <2>1. line # <<>>
      BY <1>5, <1>7
    <2>2. line[1].by # who
      BY <1>6, <2>1
    <2> QED
      BY <1>1, <1>6, <2>1, <2>2, Zenon
  <1>8. ASSUME ~Answered' PROVE at' \in {"starting", "upping", "downing", "stopping"}
    <2>1. CASE who = "detector"
      BY <2>1
    <2>2. CASE who = "user"
      <3>1. PICK i \in DOMAIN line' : line'[i].by = "detector"
        BY <1>8 DEF Answered
      <3>2. i \in DOMAIN line /\ line[i].by = "detector"
        BY <1>1, <1>4, <2>2, <3>1
      <3> QED
        BY <2>2, <3>2 DEF Answered, LineShape
    <2> QED
      BY <2>1, <2>2
  <1>9. LineShape'
    BY <1>4, <1>7, <1>8, Zenon DEF LineShape, Requests
  <1> QED
    BY <1>1, <1>4, <1>5, <1>6, <1>9, Zenon DEF First

LEMMA PrimedLine ==
    ASSUME LineShape'
    PROVE  line' \in Seq([by : {"user", "detector"}, todo : Seq(Steps) \ {<<>>}]) /\ Len(line') <= 2
  BY LineTyped DEF LineShape, Requests

\* What each kind of rest has to rely on.
LEMMA GateAfter ==
    ASSUME line' # <<>> =>
               \/ First' \in Jobs
               \/ First' \in {<<"want", "tun_up">>, <<"tun_up">>} /\ (swept' \/ (core' => kernel' = "running"))
               \/ First' \in {<<"proxy_on">>, <<"tun_off">>, <<"tun_wait">>}
               \/ First' = <<"tun_down", "stop", "tun_reset">> /\ ~ours'
               \/ First' \in {<<"tun_wait", "stop", "tun_reset">>, <<"stop", "tun_reset">>}
                  /\ ~ours' /\ tun' # "active" /\ op' # "enable"
               \/ First' = <<"tun_reset">> /\ ~ours' /\ (device' => stray')
    PROVE  GateFacts'
  <1> SUFFICES ASSUME line' # <<>> PROVE GateFacts'
    BY DEF GateFacts
  <1> DEFINE r == First'
  <1>0. GateFacts' <=> /\ r \in StopRest => ~ours'
                       /\ r \in StopRest /\ Head(r) # "tun_down" => tun' # "active" /\ op' # "enable"
                       /\ Head(r) = "tun_reset" => ~ours' /\ (device' => stray')
                       /\ Head(r) = "want" \/ Head(r) = "tun_up" => swept' \/ (core' => kernel' = "running")
    BY DEF GateFacts, Holds, First
  <1> HIDE DEF r
  <1>1. CASE r \in Jobs
    <2>1. r \notin StopRest /\ Head(r) \notin {"tun_down", "tun_reset", "want", "tun_up", "tun_wait"}
      BY <1>1, JobHeads, Zenon
    <2> QED
      BY <1>0, <2>1
  <1>2. CASE r \in {<<"want", "tun_up">>, <<"tun_up">>} /\ (swept' \/ (core' => kernel' = "running"))
    <2>1. r \notin StopRest /\ Head(r) \in {"want", "tun_up"}
      BY <1>2 DEF StopRest
    <2> QED
      BY <1>0, <1>2, <2>1
  <1>3. CASE r \in {<<"proxy_on">>, <<"tun_off">>, <<"tun_wait">>}
    <2>1. r \notin StopRest /\ Head(r) \in {"proxy_on", "tun_off", "tun_wait"}
      BY <1>3 DEF StopRest
    <2> QED
      BY <1>0, <2>1
  <1>4. CASE r = <<"tun_down", "stop", "tun_reset">> /\ ~ours'
    <2>1. Head(r) = "tun_down"
      BY <1>4
    <2> QED
      BY <1>0, <1>4, <2>1
  <1>5. CASE r \in {<<"tun_wait", "stop", "tun_reset">>, <<"stop", "tun_reset">>}
             /\ ~ours' /\ tun' # "active" /\ op' # "enable"
    <2>1. Head(r) \in {"tun_wait", "stop"}
      BY <1>5
    <2> QED
      BY <1>0, <1>5, <2>1
  <1>6. CASE r = <<"tun_reset">> /\ ~ours' /\ (device' => stray')
    <2>1. r \notin StopRest /\ Head(r) = "tun_reset"
      BY <1>6 DEF StopRest
    <2> QED
      BY <1>0, <1>6, <2>1
  <1> QED
    BY <1>1, <1>2, <1>3, <1>4, <1>5, <1>6, Zenon DEF r

-----------------------------------------------------------------------------
(* The coordinator. *)

LEMMA MovesFine ==
    ASSUME TunTypeOK, ProbesFenced, NEW phase \in Phases, NEW bump \in BOOLEAN, Moves(phase, bump),
           bump \/ tun # "active"
    PROVE  ProbesFenced' /\ tun' = phase /\ unconfirmed' \in BOOLEAN /\ probes' \in SUBSET Probe
  <1>1. tun' = phase /\ unconfirmed' \in BOOLEAN
    BY DEF Moves
  <1>2. ASSUME NEW q \in probes' PROVE q \in Probe /\ (q.over => q.fenced) /\ q.at # "late"
    <2>1. PICK p \in probes : q = [p EXCEPT !.over = @ \/ tun = "active", !.fenced = @ \/ bump]
      BY <1>2, Zenon DEF Moves
    <2>2. p \in Probe /\ (p.over => p.fenced) /\ p.at # "late"
      BY DEF TunTypeOK, ProbesFenced
    <2>3. /\ q.over = (p.over \/ tun = "active") /\ q.fenced = (p.fenced \/ bump) /\ q.at = p.at
          /\ q \in Probe
      BY <2>1, <2>2 DEF Probe
    <2> QED
      BY <2>2, <2>3
  <1> QED
    BY <1>1, <1>2 DEF ProbesFenced

Facts == QueueFacts /\ DeviceFacts /\ HostFacts /\ ProbesFenced

LEMMA Finish ==
    ASSUME Inv, Done \/ Failed
    PROVE  answer' \in BOOLEAN /\ (Failed => line' = Tail(line))
  BY DEF Inv, NetworkTypeOK, Done, Failed, Answers

LEMMA Troubled ==
    ASSUME TunTypeOK, Mishap \/ CallFails \/ UNCHANGED troubles
    PROVE  troubles' \in 0..MaxTroubles
  BY TunAssumption DEF TunTypeOK, Mishap, CallFails

-----------------------------------------------------------------------------
(* The steps behind the gate. *)

\* What no step behind the gate changes keeps its type.
LEMMA StepTyped ==
    ASSUME Inv, LineShape', TunTypeOK', kernel' \in {"stopped", "running", "failed"},
           ours' \in BOOLEAN, hidden' \in BOOLEAN, pending' \in BOOLEAN, desired' \in BOOLEAN,
           answer' \in BOOLEAN, swept' \in BOOLEAN, stopper' \in {"none", "user", "detector"},
           UNCHANGED <<online, at, seen, saw, resume, handled, stopping, disabling, mon, boot,
                       requests, outages, exits>>
    PROVE  NetworkTypeOK'
  BY PrimedLine DEF Inv, NetworkTypeOK

\* A step behind the gate ends its request or leaves the rest of it, which is a
\* well-formed one.
LEMMA Leaves ==
    ASSUME Inv, NEW step, Holds(step), Done \/ Failed, at' = at
    PROVE  /\ LineShape' /\ answer' \in BOOLEAN
           /\ line # <<>> /\ First \in Rests /\ Head(First) = step
           /\ Failed => (line' # <<>> => First' \in Jobs)
           /\ line' # <<>> => First' \in Jobs \/ (Done /\ Len(First) > 1 /\ First' = Tail(First))
  <1>1. line # <<>> /\ First \in Rests /\ Head(First) = step
    BY Holding DEF Inv, Holds, First
  <1>2. answer' \in BOOLEAN /\ (Failed => line' = Tail(line))
    BY Finish
  <1>3. LineShape' /\ (line' # <<>> => First' \in Jobs \/ (Done /\ Len(First) > 1 /\ First' = Tail(First)))
    BY <1>1, Stepped DEF Inv
  <1>4. Failed => (line' # <<>> => First' \in Jobs)
    BY <1>1, <1>2, Popped DEF Inv
  <1> QED
    BY <1>1, <1>2, <1>3, <1>4

\* The steps that leave the host and the TUN mode alone: whoever points the proxy
\* at us has found the host running, and a restore in front of a stop that goes
\* on has restored it.
LEMMA AsideSafe ==
    ASSUME Inv, NEW step \in {"restore", "want", "unwant", "proxy_on", "proxy_off", "net_down", "net_up"},
           Holds(step), Failed \/ (Done /\ (step = "restore" => ~ours')),
           UNCHANGED <<process, mon, stopper>>, TunKeeps, StepKeeps,
           ours' \in BOOLEAN, hidden' \in BOOLEAN, pending' \in BOOLEAN, desired' \in BOOLEAN,
           troubles' \in 0..MaxTroubles, ours' => ours \/ kernel = "running"
    PROVE  Inv'
  <1>1. /\ UNCHANGED <<core, stray, kernel, mon, stopper, device, tun, unconfirmed, op, probes, boot, swept>>
        /\ UNCHANGED <<online, at, seen, saw, resume, handled, stopping, disabling, requests, outages, exits>>
    BY DEF process, TunKeeps, tunVars, StepKeeps, launch, bounds
  <1>2. /\ LineShape' /\ answer' \in BOOLEAN
        /\ line # <<>> /\ First \in Rests /\ Head(First) = step
        /\ Failed => (line' # <<>> => First' \in Jobs)
        /\ line' # <<>> => First' \in Jobs \/ (Done /\ Len(First) > 1 /\ First' = Tail(First))
    BY <1>1, Leaves
  <1>3. GateFacts'
    <2>1. CASE Failed
      BY <1>2, <2>1, GateAfter
    <2>2. CASE Done /\ (step = "restore" => ~ours')
      <3>1. line' # <<>> => \/ First' \in Jobs
                            \/ step = "restore" /\ First' = <<"tun_down", "stop", "tun_reset">>
                            \/ step = "want" /\ First' = <<"tun_up">>
                            \/ step = "unwant" /\ First' = <<"tun_off">>
        BY <1>2, Follows
      <3>2. step = "want" => swept \/ (core => kernel = "running")
        BY <1>2 DEF Inv, GateFacts
      <3> QED
        BY <1>1, <2>2, <3>1, <3>2, GateAfter
    <2> QED
      BY <2>1, <2>2
  <1>4. Facts'
    <2>1. op # "enable"
      BY DEF Inv, QueueFacts, Holds
    <2>2. QueueFacts' /\ DeviceFacts' /\ ProbesFenced'
      BY <1>1, <2>1 DEF Inv, QueueFacts, DeviceFacts, ProbesFenced
    <2>3. HostFacts'
      BY <1>1 DEF Inv, HostFacts, NoDeadPort
    <2> QED
      BY <2>2, <2>3 DEF Facts
  <1>5. TunTypeOK'
    BY <1>1 DEF Inv, NetworkTypeOK, TunTypeOK
  <1>6. NetworkTypeOK'
    <2>1. kernel' \in {"stopped", "running", "failed"} /\ swept' \in BOOLEAN
          /\ stopper' \in {"none", "user", "detector"}
      BY <1>1 DEF Inv, NetworkTypeOK
    <2> QED
      BY <1>1, <1>2, <1>5, <2>1, StepTyped
  <1> QED
    BY <1>2, <1>3, <1>4, <1>6 DEF Inv, Facts

LEMMA RestoreSafe == ASSUME Inv, Restore PROVE Inv'
  <1>1. /\ Holds("restore") /\ (Failed \/ (Done /\ ~ours'))
        /\ UNCHANGED <<process, pending, desired, mon, stopper>> /\ TunKeeps /\ StepKeeps
    BY DEF Restore, RestoresProxy
  <1>2. ours' \in BOOLEAN /\ hidden' \in BOOLEAN /\ (ours' => ours) /\ troubles' \in 0..MaxTroubles
    BY Troubled DEF Inv, NetworkTypeOK, Restore, RestoresProxy, RestoreBreaks
  <1>3. pending' \in BOOLEAN /\ desired' \in BOOLEAN
    BY <1>1 DEF Inv, NetworkTypeOK
  <1> QED
    BY <1>1, <1>2, <1>3, AsideSafe

LEMMA WantsSafe == ASSUME Inv, Wants PROVE Inv'
  <1>1. PICK step \in {"want", "unwant"} : Holds(step)
    BY DEF Wants
  <1>2. Done /\ UNCHANGED <<process, ours, hidden, pending, mon, stopper, troubles>> /\ TunKeeps /\ StepKeeps
    BY DEF Wants
  <1>3. /\ ours' \in BOOLEAN /\ hidden' \in BOOLEAN /\ pending' \in BOOLEAN /\ desired' \in BOOLEAN
        /\ troubles' \in 0..MaxTroubles
    BY <1>2 DEF Inv, NetworkTypeOK, TunTypeOK, Wants
  <1> QED
    BY <1>1, <1>2, <1>3, AsideSafe

\* An enable of the proxy that gets as far as the registry has found a core.
LEMMA Enables ==
    ASSUME Inv, EnablesProxy \/ EnableBreaks
    PROVE  /\ ours' \in BOOLEAN /\ hidden' \in BOOLEAN /\ troubles' \in 0..MaxTroubles
           /\ ours' => ours \/ kernel = "running"
  <1>1. ours \in BOOLEAN /\ hidden \in BOOLEAN /\ TunTypeOK
    BY DEF Inv, NetworkTypeOK
  <1>2. troubles' \in 0..MaxTroubles
    BY <1>1, Troubled DEF EnablesProxy, EnableBreaks
  <1> QED
    BY <1>1, <1>2 DEF EnablesProxy, EnableBreaks

LEMMA ProxyOnSafe == ASSUME Inv, ProxyOn PROVE Inv'
  <1>1. /\ Holds("proxy_on") /\ (Failed \/ Done) /\ (EnablesProxy \/ EnableBreaks)
        /\ UNCHANGED <<process, pending, desired, mon, stopper>> /\ TunKeeps /\ StepKeeps
    BY DEF ProxyOn
  <1>2. pending' \in BOOLEAN /\ desired' \in BOOLEAN
    BY <1>1 DEF Inv, NetworkTypeOK
  <1> QED
    BY <1>1, <1>2, Enables, AsideSafe

LEMMA ProxyOffSafe == ASSUME Inv, ProxyOff PROVE Inv'
  <1>1. /\ Holds("proxy_off") /\ (Failed \/ Done)
        /\ UNCHANGED <<process, pending, desired, mon, stopper>> /\ TunKeeps /\ StepKeeps
    BY DEF ProxyOff
  <1>2. ours' \in BOOLEAN /\ hidden' \in BOOLEAN /\ (ours' => ours) /\ troubles' \in 0..MaxTroubles
    BY Troubled DEF Inv, NetworkTypeOK, ProxyOff, RestoresProxy, RestoreBreaks
  <1>3. pending' \in BOOLEAN /\ desired' \in BOOLEAN
    BY <1>1 DEF Inv, NetworkTypeOK
  <1> QED
    BY <1>1, <1>2, <1>3, AsideSafe

LEMMA NetDownSafe == ASSUME Inv, NetDown PROVE Inv'
  <1>1. /\ Holds("net_down") /\ (Failed \/ Done)
        /\ UNCHANGED <<process, desired, mon, stopper>> /\ TunKeeps /\ StepKeeps
    BY DEF NetDown
  <1>2. /\ ours' \in BOOLEAN /\ hidden' \in BOOLEAN /\ (ours' => ours) /\ troubles' \in 0..MaxTroubles
        /\ pending' \in BOOLEAN
    <2>1. ours \in BOOLEAN /\ hidden \in BOOLEAN /\ pending \in BOOLEAN /\ TunTypeOK
      BY DEF Inv, NetworkTypeOK
    <2>2. /\ UNCHANGED <<ours, hidden>> \/ (ours' = FALSE /\ hidden' = FALSE)
          /\ pending' = pending \/ pending' = TRUE
          /\ Mishap \/ UNCHANGED troubles
      BY DEF NetDown, RestoresProxy
    <2>3. troubles' \in 0..MaxTroubles
      BY <2>1, <2>2, Troubled
    <2>4. ours' \in BOOLEAN /\ hidden' \in BOOLEAN /\ (ours' => ours)
      <3>1. CASE UNCHANGED <<ours, hidden>>
        BY <2>1, <3>1
      <3>2. CASE ours' = FALSE /\ hidden' = FALSE
        BY <3>2
      <3> QED
        BY <2>2, <3>1, <3>2
    <2>5. pending' \in BOOLEAN
      BY <2>1, <2>2
    <2> QED
      BY <2>3, <2>4, <2>5
  <1>3. desired' \in BOOLEAN
    BY <1>1 DEF Inv, NetworkTypeOK
  <1> QED
    BY <1>1, <1>2, <1>3, AsideSafe

LEMMA NetUpSafe == ASSUME Inv, NetUp PROVE Inv'
  <1>1. /\ Holds("net_up") /\ (Failed \/ Done)
        /\ UNCHANGED <<ours, hidden, troubles>> \/ EnablesProxy \/ EnableBreaks
        /\ UNCHANGED <<process, desired, mon, stopper>> /\ TunKeeps /\ StepKeeps
    BY DEF NetUp
  <1>2. pending' \in BOOLEAN /\ desired' \in BOOLEAN
    BY <1>1 DEF Inv, NetworkTypeOK, NetUp
  <1>3. /\ ours' \in BOOLEAN /\ hidden' \in BOOLEAN /\ troubles' \in 0..MaxTroubles
        /\ ours' => ours \/ kernel = "running"
    <2>1. CASE UNCHANGED <<ours, hidden, troubles>>
      BY <2>1 DEF Inv, NetworkTypeOK, TunTypeOK
    <2> QED
      BY <1>1, <2>1, Enables
  <1> QED
    BY <1>1, <1>2, <1>3, AsideSafe

LEMMA StartSafe == ASSUME Inv, Start PROVE Inv'
  <1>1. /\ UNCHANGED <<tun, unconfirmed, op, probes, ours, hidden, pending, desired, mon, boot, swept>>
        /\ UNCHANGED <<online, at, seen, saw, resume, handled, stopping, disabling, requests, outages, exits>>
        /\ Holds("start") /\ (Done \/ Failed)
    BY DEF Start, StepKeeps, launch, bounds
  <1>2. /\ LineShape' /\ answer' \in BOOLEAN
        /\ line # <<>> /\ First \in Rests /\ Head(First) = "start"
        /\ Failed => (line' # <<>> => First' \in Jobs)
        /\ line' # <<>> => First' \in Jobs \/ (Done /\ Len(First) > 1 /\ First' = Tail(First))
    BY <1>1, Leaves
  <1>3. \/ kernel = "running" /\ Done /\ UNCHANGED <<core, stray, kernel, device>>
        \/ /\ kernel # "running" /\ core' = TRUE /\ stray' = FALSE /\ device' = FALSE
           /\ kernel' = "running" /\ Done
        \/ /\ kernel # "running" /\ kernel' = "failed" /\ Failed
           /\ \/ core' = FALSE /\ stray' = FALSE /\ device' = FALSE
              \/ UNCHANGED <<core, stray, device>>
              \/ core' = TRUE /\ stray' = TRUE /\ device' = FALSE
    BY DEF Start, process, Launched, Gone
  <1>4. GateFacts'
    <2>1. CASE Done /\ kernel' = "running"
      <3>1. line' # <<>> => First' \in Jobs \cup {<<"want", "tun_up">>, <<"proxy_on">>, <<"tun_up">>}
        BY <1>2, Follows, Zenon
      <3> QED
        BY <2>1, <3>1, GateAfter
    <2>2. CASE Failed
      BY <1>2, <2>2, GateAfter
    <2> QED
      BY <1>3, <2>1, <2>2
  <1>5. Facts'
    <2>1. op # "enable"
      BY <1>1 DEF Inv, QueueFacts, Holds
    <2>2. QueueFacts' /\ ProbesFenced'
      BY <1>1, <2>1 DEF Inv, QueueFacts, ProbesFenced
    <2>3. DeviceFacts' /\ HostFacts'
      BY <1>1, <1>3, <2>1 DEF Inv, DeviceFacts, HostFacts, NoDeadPort
    <2> QED
      BY <2>2, <2>3 DEF Facts
  <1>6. NetworkTypeOK'
    <2>1. troubles' \in 0..MaxTroubles
      BY Troubled DEF Inv, NetworkTypeOK, Start
    <2>2. TunTypeOK'
      BY <1>1, <1>3, <2>1 DEF Inv, NetworkTypeOK, TunTypeOK
    <2>3. kernel' \in {"stopped", "running", "failed"} /\ stopper' \in {"none", "user", "detector"}
      BY DEF Inv, NetworkTypeOK, Start, process, Launched
    <2>4. ours' \in BOOLEAN /\ hidden' \in BOOLEAN /\ pending' \in BOOLEAN /\ desired' \in BOOLEAN /\ swept' \in BOOLEAN
      BY <1>1 DEF Inv, NetworkTypeOK
    <2> QED
      BY <1>1, <1>2, <2>2, <2>3, <2>4, StepTyped
  <1> QED
    BY <1>2, <1>4, <1>5, <1>6 DEF Inv, Facts

LEMMA StopSafe == ASSUME Inv, Stop PROVE Inv'
  <1>1. /\ UNCHANGED <<tun, unconfirmed, op, probes, ours, hidden, pending, desired, mon, boot, swept>>
        /\ UNCHANGED <<online, at, seen, saw, resume, handled, stopping, disabling, requests, outages, exits>>
        /\ Holds("stop") /\ (Done \/ Failed)
    BY DEF Stop, StepKeeps, launch, bounds
  <1>2. /\ LineShape' /\ answer' \in BOOLEAN
        /\ line # <<>> /\ First \in Rests /\ Head(First) = "stop"
        /\ Failed => (line' # <<>> => First' \in Jobs)
        /\ line' # <<>> => First' \in Jobs \/ (Done /\ Len(First) > 1 /\ First' = Tail(First))
    BY <1>1, Leaves
  <1>3. \/ kernel = "stopped" /\ Done /\ UNCHANGED <<core, stray, kernel, device>>
        \/ /\ kernel' = "stopped" /\ Done
           /\ \/ core' = FALSE /\ stray' = FALSE /\ device' = FALSE
              \/ stray /\ UNCHANGED <<core, stray, device>>
        \/ /\ kernel' = "failed" /\ Failed
           /\ \/ core' = FALSE /\ stray' = FALSE /\ device' = FALSE
              \/ UNCHANGED <<core, stray, device>>
    BY DEF Stop, process, Gone
  <1>4. ~ours /\ tun # "active" /\ op # "enable"
    <2>1. First \in StopRest
      BY <1>2, RestHeads DEF StopRest
    <2> QED
      BY <1>2, <2>1 DEF Inv, GateFacts, Holds, First
  <1>5. GateFacts'
    <2>1. CASE Done /\ (device' => stray')
      <3>1. line' # <<>> => First' \in Jobs \cup {<<"tun_reset">>}
        BY <1>2, Follows, Zenon
      <3> QED
        BY <1>1, <1>4, <2>1, <3>1, GateAfter
    <2>2. CASE Failed
      BY <1>2, <2>2, GateAfter
    <2>3. kernel = "stopped" => (device => stray)
      BY DEF Inv, DeviceFacts, HostFacts
    <2> QED
      BY <1>3, <2>1, <2>2, <2>3
  <1>6. Facts'
    <2>1. QueueFacts' /\ ProbesFenced'
      BY <1>1, <1>4 DEF Inv, QueueFacts, ProbesFenced
    <2>2. DeviceFacts' /\ HostFacts'
      BY <1>1, <1>3, <1>4 DEF Inv, DeviceFacts, HostFacts, NoDeadPort
    <2> QED
      BY <2>1, <2>2 DEF Facts
  <1>7. NetworkTypeOK'
    <2>1. troubles' \in 0..MaxTroubles
      BY Troubled DEF Inv, NetworkTypeOK, Stop
    <2>2. TunTypeOK'
      BY <1>1, <1>3, <2>1 DEF Inv, NetworkTypeOK, TunTypeOK
    <2>3. Holder \in {"user", "detector"}
      BY <1>2, Holding DEF Inv, Holder, Requests
    <2>4. kernel' \in {"stopped", "running", "failed"} /\ stopper' \in {"none", "user", "detector"}
      BY <2>3 DEF Inv, NetworkTypeOK, Stop, process
    <2>5. ours' \in BOOLEAN /\ hidden' \in BOOLEAN /\ pending' \in BOOLEAN /\ desired' \in BOOLEAN /\ swept' \in BOOLEAN
      BY <1>1 DEF Inv, NetworkTypeOK
    <2> QED
      BY <1>1, <1>2, <2>2, <2>4, <2>5, StepTyped
  <1> QED
    BY <1>2, <1>5, <1>6, <1>7 DEF Inv, Facts

LEMMA TunWaitSafe == ASSUME Inv, TunWait PROVE Inv'
  <1>1. /\ UNCHANGED <<core, stray, kernel, ours, hidden, pending, desired, mon, stopper, troubles, boot, swept>>
        /\ UNCHANGED <<device, tun, unconfirmed, op, probes>>
        /\ UNCHANGED <<online, at, seen, saw, resume, handled, stopping, disabling, requests, outages, exits>>
        /\ Holds("tun_wait") /\ Done /\ op = "none"
    BY DEF TunWait, host, StepKeeps, TunKeeps, tunVars, launch, bounds
  <1>2. /\ LineShape' /\ answer' \in BOOLEAN
        /\ line # <<>> /\ First \in Rests /\ Head(First) = "tun_wait"
        /\ line' # <<>> => First' \in Jobs \/ (Done /\ Len(First) > 1 /\ First' = Tail(First))
    BY <1>1, Leaves
  <1>3. GateFacts'
    <2>1. line' # <<>> => First' \in Jobs \/ (First = <<"tun_wait", "stop", "tun_reset">> /\ First' = <<"stop", "tun_reset">>)
      <3>1. First \in {<<"tun_wait">>, <<"tun_wait", "stop", "tun_reset">>}
        BY <1>2, RestHeads, Zenon
      <3>2. Len(First) > 1 => First # <<"tun_wait">>
        BY Singleton, Zenon
      <3> QED
        BY <1>2, <3>1, <3>2, Follows, Zenon
    <2>2. First = <<"tun_wait", "stop", "tun_reset">> => ~ours' /\ tun' # "active" /\ op' # "enable"
      BY <1>1, <1>2 DEF Inv, GateFacts, StopRest, First, Holds
    <2> QED
      BY <2>1, <2>2, GateAfter
  <1>4. Facts'
    BY <1>1 DEF Inv, Facts, QueueFacts, DeviceFacts, HostFacts, NoDeadPort, ProbesFenced
  <1>5. TunTypeOK'
    BY <1>1 DEF Inv, NetworkTypeOK, TunTypeOK
  <1>6. NetworkTypeOK'
    BY <1>1, <1>2, <1>5, PrimedLine DEF Inv, NetworkTypeOK
  <1> QED
    BY <1>2, <1>3, <1>4, <1>6 DEF Inv, Facts

LEMMA TunResetSafe == ASSUME Inv, TunReset PROVE Inv'
  <1>1. /\ UNCHANGED <<core, stray, kernel, ours, hidden, pending, desired, mon, stopper, troubles, boot>>
        /\ UNCHANGED <<online, at, seen, saw, resume, handled, stopping, disabling, requests, outages, exits>>
        /\ Holds("tun_reset") /\ Done /\ op = "none" /\ mon # "reset" /\ swept' = FALSE
    BY DEF TunReset, TunFree, host, bounds
  <1>2. /\ LineShape' /\ answer' \in BOOLEAN
        /\ line # <<>> /\ First \in Rests /\ Head(First) = "tun_reset"
        /\ line' # <<>> => First' \in Jobs \/ (Done /\ Len(First) > 1 /\ First' = Tail(First))
    BY <1>1, Leaves
  <1>3. GateFacts'
    <2>1. line' # <<>> => First' \in Jobs
      BY <1>2, Follows, Zenon
    <2> QED
      BY <2>1, GateAfter
  <1>4. ~ours /\ (device => stray)
    BY <1>1, <1>2 DEF Inv, GateFacts
  <1>5. /\ tun' \in Phases \ {"active"} /\ unconfirmed' \in BOOLEAN /\ probes' \in SUBSET Probe
        /\ ProbesFenced' /\ device' = device /\ op' = op
        /\ tun' = "configured" \/ tun' = tun
    <2>1. CASE Serving
      BY <2>1, MovesFine DEF Inv, NetworkTypeOK, TunReset, HostExit, Phases
    <2>2. CASE ~Serving
      BY <2>2 DEF Inv, NetworkTypeOK, TunTypeOK, TunReset, TunKeeps, tunVars, ProbesFenced, Serving
    <2> QED
      BY <2>1, <2>2
  <1>6. Facts'
    <2>1. QueueFacts' /\ DeviceFacts'
      BY <1>1, <1>4, <1>5 DEF Inv, QueueFacts, DeviceFacts
    <2>2. HostFacts'
      BY <1>1, <1>4 DEF Inv, HostFacts, NoDeadPort
    <2> QED
      BY <1>5, <2>1, <2>2 DEF Facts
  <1>7. TunTypeOK'
    BY <1>1, <1>5 DEF Inv, NetworkTypeOK, TunTypeOK
  <1>8. NetworkTypeOK'
    <2>1. kernel' \in {"stopped", "running", "failed"} /\ stopper' \in {"none", "user", "detector"}
          /\ ours' \in BOOLEAN /\ hidden' \in BOOLEAN /\ pending' \in BOOLEAN /\ desired' \in BOOLEAN
      BY <1>1 DEF Inv, NetworkTypeOK
    <2>2. swept' \in BOOLEAN
      BY <1>1
    <2> QED
      BY <1>1, <1>2, <1>7, <2>1, <2>2, StepTyped
  <1> QED
    BY <1>2, <1>3, <1>6, <1>8 DEF Inv, Facts

\* A request that waits for the coordinator's queue.
LEMMA Waits ==
    ASSUME LineShape, line # <<>>, Head(First) \in {"tun_up", "tun_down", "tun_off"}, at' = at,
           line' = [line EXCEPT ![1].todo[1] = "tun_wait"]
    PROVE  /\ LineShape' /\ line' # <<>> /\ Head(First') = "tun_wait"
           /\ First' = IF Head(First) = "tun_down" THEN <<"tun_wait", "stop", "tun_reset">> ELSE <<"tun_wait">>
  <1> DEFINE r == [First EXCEPT ![1] = "tun_wait"]
  <1>1. line' = [line EXCEPT ![1].todo = r]
    BY Holding DEF First
  <1>2. /\ Head(First) = "tun_down" => First = <<"tun_down", "stop", "tun_reset">>
        /\ Head(First) = "tun_up" => First = <<"tun_up">>
        /\ Head(First) = "tun_off" => First = <<"tun_off">>
    BY Holding, RestHeads, Zenon
  <1>3. r = IF Head(First) = "tun_down" THEN <<"tun_wait", "stop", "tun_reset">> ELSE <<"tun_wait">>
    <2>1. /\ [<<"tun_down", "stop", "tun_reset">> EXCEPT ![1] = "tun_wait"] = <<"tun_wait", "stop", "tun_reset">>
          /\ [<<"tun_up">> EXCEPT ![1] = "tun_wait"] = <<"tun_wait">>
          /\ [<<"tun_off">> EXCEPT ![1] = "tun_wait"] = <<"tun_wait">>
      OBVIOUS
    <2> QED
      BY <1>2, <2>1, Zenon
  <1>4. r \in Rests /\ Head(r) = "tun_wait"
    <2>1. {<<"tun_wait", "stop", "tun_reset">>, <<"tun_wait">>} \subseteq Rests
      BY Zenon DEF Rests, StopRest
    <2>2. Head(<<"tun_wait", "stop", "tun_reset">>) = "tun_wait" /\ Head(<<"tun_wait">>) = "tun_wait"
      OBVIOUS
    <2> QED
      BY <1>3, <2>1, <2>2, Zenon
  <1> HIDE DEF r
  <1> QED
    BY <1>1, <1>3, <1>4, Replaced

\* A request that finds the coordinator's queue free starts a switch and waits
\* for it, or has nothing to switch.
LEMMA BeginsSafe ==
    ASSUME Inv, NEW step \in {"tun_up", "tun_down", "tun_off"}, Holds(step), TunFree,
           UNCHANGED <<host, mon, stopper>>, StepKeeps,
           \/ /\ line' = [line EXCEPT ![1].todo[1] = "tun_wait"] /\ UNCHANGED answer
              /\ (step = "tun_up" /\ EnableBegins) \/ (step # "tun_up" /\ DisableBegins)
           \/ Done /\ TunKeeps /\ UNCHANGED troubles /\ (step = "tun_down" => tun # "active")
    PROVE  Inv'
  <1>1. /\ UNCHANGED <<core, stray, kernel, ours, hidden, pending, desired, mon, stopper, boot, swept>>
        /\ UNCHANGED <<online, at, seen, saw, resume, handled, stopping, disabling, requests, outages, exits>>
        /\ op = "none" /\ mon # "reset" /\ line # <<>> /\ First \in Rests /\ Head(First) = step
    BY Holding DEF Inv, StepKeeps, host, bounds, launch, TunFree, Holds, First
  <1>2. step = "tun_down" => ~ours
    <2>1. step = "tun_down" => First \in StopRest
      BY <1>1, RestHeads DEF StopRest
    <2> QED
      BY <1>1, <2>1 DEF Inv, GateFacts, First
  <1>3. CASE /\ line' = [line EXCEPT ![1].todo[1] = "tun_wait"] /\ UNCHANGED answer
             /\ (step = "tun_up" /\ EnableBegins) \/ (step # "tun_up" /\ DisableBegins)
    <2>1. /\ ProbesFenced' /\ unconfirmed' \in BOOLEAN /\ probes' \in SUBSET Probe
          /\ UNCHANGED <<device, troubles>> /\ tun' \in Phases
          /\ IF step = "tun_up" THEN tun' = "starting" /\ op' = "enable" ELSE tun' = "restoring" /\ op' = "restore"
      <3>1. CASE step = "tun_up" /\ EnableBegins
        BY <3>1, MovesFine DEF Inv, NetworkTypeOK, EnableBegins, Phases
      <3>2. CASE step # "tun_up" /\ DisableBegins
        BY <3>2, MovesFine DEF Inv, NetworkTypeOK, DisableBegins, Phases
      <3> QED
        BY <1>3, <3>1, <3>2
    <2>2. /\ LineShape' /\ line' # <<>> /\ Head(First') = "tun_wait"
          /\ First' = IF step = "tun_down" THEN <<"tun_wait", "stop", "tun_reset">> ELSE <<"tun_wait">>
      BY <1>1, <1>3, Waits DEF Inv
    <2>3. GateFacts'
      BY <1>1, <1>2, <2>1, <2>2, GateAfter
    <2>4. Facts'
      <3>1. step = "tun_up" => swept \/ (core => kernel = "running")
        BY <1>1 DEF Inv, GateFacts, Holds, First
      <3>2. QueueFacts' /\ DeviceFacts'
        BY <1>1, <2>1, <2>2, <3>1 DEF Inv, QueueFacts, DeviceFacts, Holds, First
      <3>3. HostFacts'
        BY <1>1 DEF Inv, HostFacts, NoDeadPort
      <3> QED
        BY <2>1, <3>2, <3>3 DEF Facts
    <2>5. TunTypeOK'
      BY <1>1, <2>1 DEF Inv, NetworkTypeOK, TunTypeOK
    <2>6. NetworkTypeOK'
      BY <1>1, <1>3, <2>2, <2>5, PrimedLine DEF Inv, NetworkTypeOK
    <2> QED
      BY <2>2, <2>3, <2>4, <2>6 DEF Inv, Facts
  <1>4. CASE Done /\ TunKeeps /\ UNCHANGED troubles /\ (step = "tun_down" => tun # "active")
    <2>1. UNCHANGED <<device, tun, unconfirmed, op, probes, troubles>>
      BY <1>4 DEF TunKeeps, tunVars
    <2>2. /\ LineShape' /\ answer' \in BOOLEAN
          /\ line' # <<>> => First' \in Jobs \/ (Done /\ Len(First) > 1 /\ First' = Tail(First))
      BY <1>1, <1>4, Leaves
    <2>3. GateFacts'
      <3>1. line' # <<>> => First' \in Jobs \/ (step = "tun_down" /\ First' = <<"stop", "tun_reset">>)
        BY <1>1, <2>2, Follows
      <3> QED
        BY <1>1, <1>2, <1>4, <2>1, <3>1, GateAfter
    <2>4. Facts'
      BY <1>1, <2>1 DEF Inv, DeviceFacts, HostFacts, NoDeadPort, Facts, QueueFacts, ProbesFenced
    <2>5. TunTypeOK'
      BY <1>1, <2>1 DEF Inv, NetworkTypeOK, TunTypeOK
    <2>6. NetworkTypeOK'
      BY <1>1, <2>2, <2>5, PrimedLine DEF Inv, NetworkTypeOK
    <2> QED
      BY <2>2, <2>3, <2>4, <2>6 DEF Inv, Facts
  <1> QED
    BY <1>3, <1>4

LEMMA SwitchSafe == ASSUME Inv, TunUp \/ TunDown \/ TunOff PROVE Inv'
  <1>1. CASE TunUp
    BY <1>1, BeginsSafe DEF TunUp, Begins
  <1>2. CASE TunDown
    BY <1>2, BeginsSafe DEF TunDown, Begins, Serving
  <1>3. CASE TunOff
    BY <1>3, BeginsSafe DEF TunOff, Begins
  <1> QED
    BY <1>1, <1>2, <1>3

LEMMA GateSafe == ASSUME Inv, GateSteps PROVE Inv'
  BY StartSafe, RestoreSafe, SwitchSafe, TunWaitSafe, StopSafe, TunResetSafe,
     WantsSafe, ProxyOnSafe, ProxyOffSafe, NetDownSafe, NetUpSafe, Zenon DEF GateSteps

-----------------------------------------------------------------------------
(* The coordinator's work and its probes. *)

LEMMA TunStepSafe == ASSUME Inv, TunStep PROVE Inv'
  <1>1. /\ UNCHANGED <<kernel, ours, core, stray, hidden, pending, desired, online, line, at, seen, answer, saw, resume,
                      handled, stopping, disabling, mon, boot, swept, stopper, requests, outages, exits>>
        /\ op \in {"enable", "restore"} /\ op' \in {"none", "enable", "restore"} /\ op' # "enable"
        /\ core' \in BOOLEAN
    BY DEF TunStep, host, detector, launch, bounds, TunWorks, EnableApplied, EnableConflict, EnableFails, EnableUnsure,
           Restored, RestoreFails, Enabling, Restoring, Inv, NetworkTypeOK, TunTypeOK
  <1>2. LineShape' /\ First' = First /\ (line' # <<>> <=> line # <<>>)
    BY <1>1 DEF Inv, LineShape, Answered, First
  <1>3. /\ op = "enable" => tun = "starting" /\ (swept \/ (core => kernel = "running"))
        /\ op = "restore" => tun = "restoring"
        /\ (device => core) /\ (mon = "reset" => ~device) /\ (mon = "reset" /\ op = "enable" => ~core)
    BY <1>1 DEF Inv, QueueFacts, DeviceFacts
  <1>4. /\ ProbesFenced' /\ unconfirmed' \in BOOLEAN /\ probes' \in SUBSET Probe /\ device' \in BOOLEAN
        /\ troubles' \in 0..MaxTroubles
        /\ \/ core /\ op = "enable" /\ device' /\ tun' = "active" /\ op' = "none"
           \/ tun' \in {"conflict", "failed", "restore-failed"} /\ op' = "none"
              /\ (device' => device \/ (core /\ op = "enable"))
           \/ op = "enable" /\ tun' = "restoring" /\ op' = "restore" /\ (device' => device \/ core)
           \/ tun' = "configured" /\ op' = "none" /\ ~device'
    <2> DEFINE fresh == [fenced |-> FALSE, over |-> FALSE, at |-> "probing"]
    <2>0. /\ TunTypeOK /\ ProbesFenced /\ tun # "active"
          /\ TunTypeOK => device \in BOOLEAN
      BY <1>1, <1>3 DEF Inv, NetworkTypeOK, TunTypeOK
    <2>1. CASE EnableApplied
      <3>1. fresh \in Probe /\ ~fresh.over /\ fresh.at # "late"
        BY DEF Probe
      <3>2. ProbesFenced' /\ probes' \in SUBSET Probe
        BY <2>0, <2>1, <3>1 DEF EnableApplied, ProbesFenced, TunTypeOK
      <3>3. troubles' \in 0..MaxTroubles
        BY <2>0, <2>1, Troubled DEF EnableApplied
      <3> QED
        BY <2>1, <3>2, <3>3 DEF EnableApplied, Enabling
    <2>2. CASE EnableConflict \/ EnableFails \/ RestoreFails
      <3>1. troubles' \in 0..MaxTroubles
        BY <2>0, <2>2, Troubled DEF EnableConflict, EnableFails, RestoreFails
      <3>2. PICK phase \in {"conflict", "failed", "restore-failed"} : Moves(phase, FALSE)
        BY <2>2 DEF EnableConflict, EnableFails, RestoreFails
      <3>3. phase \in Phases
        BY DEF Phases
      <3>4. ProbesFenced' /\ tun' = phase /\ unconfirmed' \in BOOLEAN /\ probes' \in SUBSET Probe
        BY <2>0, <3>2, <3>3, MovesFine
      <3>5. op' = "none" /\ device' \in BOOLEAN /\ (device' => device \/ (core /\ op = "enable"))
        <4>1. device \in BOOLEAN /\ core \in BOOLEAN
          BY <2>0 DEF TunTypeOK
        <4>2. /\ op' = "none"
              /\ device' = device \/ (core /\ op = "enable" /\ device' = TRUE) \/ (device /\ device' = FALSE)
          BY <2>2 DEF EnableConflict, EnableFails, RestoreFails, Restoring, Enabling
        <4>3. CASE device' = device
          BY <4>1, <4>2, <4>3
        <4>4. CASE core /\ op = "enable" /\ device' = TRUE
          BY <4>1, <4>2, <4>4
        <4>5. CASE device' = FALSE
          BY <4>1, <4>2, <4>5
        <4> QED
          BY <4>2, <4>3, <4>4, <4>5
      <3> QED
        BY <3>1, <3>4, <3>5
    <2>3. CASE EnableUnsure
      <3>1. troubles' \in 0..MaxTroubles
        BY <2>0, <2>3, Troubled DEF EnableUnsure
      <3>2. ProbesFenced' /\ tun' = "restoring" /\ unconfirmed' \in BOOLEAN /\ probes' \in SUBSET Probe
        BY <2>0, <2>3, MovesFine DEF EnableUnsure, Phases
      <3>3. op = "enable" /\ op' = "restore" /\ device' \in BOOLEAN /\ (device' => device \/ core)
        <4>1. device \in BOOLEAN /\ core \in BOOLEAN
          BY <2>0 DEF TunTypeOK
        <4>2. op = "enable" /\ op' = "restore" /\ (device' = device \/ (core /\ device' = TRUE))
          BY <2>3 DEF EnableUnsure, Enabling
        <4>3. CASE device' = device
          BY <4>1, <4>2, <4>3
        <4>4. CASE core /\ device' = TRUE
          BY <4>1, <4>2, <4>4
        <4>5. CASE device' = FALSE
          BY <4>1, <4>2, <4>5
        <4> QED
          BY <4>2, <4>3, <4>4, <4>5
      <3> QED
        BY <3>1, <3>2, <3>3
    <2>4. CASE Restored
      <3>1. troubles' \in 0..MaxTroubles
        BY <2>0, <2>4, Troubled DEF Restored
      <3>2. ProbesFenced' /\ tun' = "configured" /\ unconfirmed' \in BOOLEAN /\ probes' \in SUBSET Probe
        BY <2>0, <2>4, MovesFine DEF Restored, Phases
      <3>3. op' = "none" /\ device' = FALSE
        BY <2>4 DEF Restored, Restoring
      <3> QED
        BY <3>1, <3>2, <3>3
    <2> QED
      BY <2>1, <2>2, <2>3, <2>4, Zenon DEF TunStep, TunWorks
  <1>5. GateFacts'
    <2> SUFFICES ASSUME line # <<>> PROVE GateFacts'
      BY <1>2 DEF GateFacts
    <2>1. First \in StopRest => ~ours
      BY DEF Inv, GateFacts, First
    <2>2. First \in StopRest /\ Head(First) # "tun_down" => tun' # "active" /\ op' # "enable"
      <3>1. First \in StopRest /\ Head(First) # "tun_down" => op # "enable"
        BY DEF Inv, GateFacts, Holds, First
      <3> QED
        BY <1>1, <1>4, <3>1
    <2>3. Head(First) = "tun_reset" => ~ours /\ (device' => stray)
      <3>1. Head(First) = "tun_reset" => ~ours /\ op # "enable" /\ (device => stray)
        BY DEF Inv, GateFacts, QueueFacts, Holds, First
      <3> QED
        BY <1>4, <3>1
    <2>4. Head(First) \in {"want", "tun_up"} => swept \/ (core => kernel = "running")
      BY DEF Inv, GateFacts, Holds, First
    <2> QED
      BY <1>1, <1>2, <2>1, <2>2, <2>3, <2>4 DEF GateFacts, Holds, First
  <1>6. Facts'
    <2>1. QueueFacts'
      BY <1>1, <1>4 DEF QueueFacts
    <2>2. DeviceFacts'
      <3>1. device' => core'
        BY <1>1, <1>3, <1>4
      <3>2. mon' = "reset" => ~device' /\ op' # "enable"
        BY <1>1, <1>3, <1>4
      <3>3. tun' = "configured" => ~device'
        BY <1>4
      <3>4. tun' = "active" => device' /\ (swept' \/ kernel' = "running")
        BY <1>1, <1>3, <1>4
      <3> QED
        BY <3>1, <3>2, <3>3, <3>4 DEF DeviceFacts
    <2>3. HostFacts'
      BY <1>1 DEF Inv, HostFacts, NoDeadPort
    <2> QED
      BY <1>4, <2>1, <2>2, <2>3 DEF Facts
  <1>7. NetworkTypeOK'
    <2>1. tun' \in Phases
      BY <1>4 DEF Phases
    <2> QED
      BY <1>1, <1>4, <2>1 DEF Inv, NetworkTypeOK, TunTypeOK
  <1> QED
    BY <1>2, <1>5, <1>6, <1>7 DEF Inv, Facts

LEMMA ProbeSafe == ASSUME Inv, ProbeStep PROVE Inv'
  <1>1. /\ UNCHANGED <<kernel, ours, core, stray, hidden, pending, desired, online, line, at, seen, answer, saw, resume,
                      handled, stopping, disabling, mon, boot, swept, stopper, requests, outages, exits>>
        /\ UNCHANGED <<device, tun, op, troubles>>
    BY DEF ProbeStep, detector, launch, bounds, Probing, ProbeSucceeds, ProbeFails, ProbeMarks, ProbeKeeps
  <1>2. ProbesFenced' /\ probes' \in SUBSET Probe /\ unconfirmed' \in BOOLEAN
    <2>1. PICK p \in probes : ProbeSucceeds(p) \/ ProbeFails(p) \/ ProbeMarks(p)
      BY DEF ProbeStep, Probing
    <2>2. p \in Probe /\ (p.over => p.fenced)
      BY DEF Inv, NetworkTypeOK, TunTypeOK, ProbesFenced
    <2>3. unconfirmed' \in BOOLEAN
      BY <2>1 DEF Inv, NetworkTypeOK, TunTypeOK, ProbeSucceeds, ProbeFails, ProbeMarks
    <2>4. CASE probes' = probes \ {p}
      BY <2>3, <2>4 DEF Inv, NetworkTypeOK, TunTypeOK, ProbesFenced
    <2>5. CASE ProbeFails(p) /\ ~p.fenced
      <3> DEFINE q == [p EXCEPT !.at = IF p.over THEN "late" ELSE "passed"]
      <3>1. probes' = (probes \ {p}) \cup {q}
        BY <2>5 DEF ProbeFails
      <3>2. q \in Probe /\ q.over = p.over /\ q.at # "late" /\ ~q.over
        BY <2>2, <2>5 DEF Probe
      <3> HIDE DEF q
      <3> QED
        BY <2>3, <3>1, <3>2 DEF Inv, NetworkTypeOK, TunTypeOK, ProbesFenced
    <2> QED
      BY <2>1, <2>4, <2>5 DEF ProbeSucceeds, ProbeFails, ProbeMarks
  <1>3. LineShape' /\ GateFacts' /\ QueueFacts' /\ DeviceFacts' /\ HostFacts'
    BY <1>1 DEF Inv, LineShape, Answered, GateFacts, Holds, QueueFacts, DeviceFacts, HostFacts, NoDeadPort
  <1>4. NetworkTypeOK'
    BY <1>1, <1>2 DEF Inv, NetworkTypeOK, TunTypeOK
  <1> QED
    BY <1>2, <1>3, <1>4 DEF Inv

-----------------------------------------------------------------------------
(* The detector and the user only join the line; what else they change, the *)
(* facts do not mention.                                                    *)

LEMMA KeepsFacts ==
    ASSUME Inv, LineShape', UNCHANGED <<tunVars, host, mon, launch>>,
           line' = line \/ (line' # <<>> /\ (line = <<>> => First' \in Jobs) /\ (line # <<>> => Head(line') = Head(line)))
    PROVE  GateFacts' /\ Facts'
  <1>1. UNCHANGED <<device, tun, unconfirmed, op, probes, core, stray, kernel, ours, pending, desired, mon, swept>>
    BY DEF tunVars, host, launch
  <1>2. line # <<>> => line' # <<>> /\ Head(line') = Head(line)
    OBVIOUS
  <1>3. Facts'
    <2>1. Holds("tun_wait") => Holds("tun_wait")'
      BY <1>2 DEF Holds
    <2> QED
      BY <1>1, <2>1 DEF Inv, Facts, QueueFacts, DeviceFacts, HostFacts, NoDeadPort, ProbesFenced
  <1>4. GateFacts'
    <2>1. CASE line # <<>>
      BY <1>1, <1>2, <2>1 DEF Inv, GateFacts, Holds
    <2>2. CASE line = <<>>
      BY <2>2, GateAfter
    <2> QED
      BY <2>1, <2>2
  <1> QED
    BY <1>3, <1>4

LEMMA JobsListed == UserJobs \subseteq Jobs /\ StopJob \in Jobs /\ <<"net_down">> \in Jobs /\ <<"net_up">> \in Jobs
                    /\ StartJob \in Jobs
  BY Zenon DEF Jobs, UserJobs, StartJob

LEMMA DetectorSafe == ASSUME Inv, DetectorSteps PROVE Inv'
  <1>1. UNCHANGED <<tunVars, troubles, host, online, mon, launch, stopper, bounds>>
    BY DEF DetectorSteps, Ticks, Confirms, GoesDown, StopsHost, ResumesHost, ComesUp, DetectorKeeps
  <1>2. \/ line' = line /\ (~Answered => at' = at)
        \/ /\ \E job \in Jobs : Joins("detector", job)
           /\ Answered /\ at' \in {"starting", "upping", "downing", "stopping"}
    <2>0. at \notin {"starting", "upping", "downing", "stopping"} => Answered
      BY DEF Inv, LineShape
    <2>1. CASE Ticks
      BY <2>0, <2>1 DEF Ticks
    <2>2. CASE Confirms
      BY <2>0, <2>2 DEF Confirms
    <2>3. CASE GoesDown
      BY <2>0, <2>3, JobsListed DEF GoesDown
    <2>4. CASE StopsHost
      BY <2>0, <2>4, JobsListed DEF StopsHost
    <2>5. CASE ResumesHost
      BY <2>0, <2>5, JobsListed DEF ResumesHost
    <2>6. CASE ComesUp
      BY <2>0, <2>6, JobsListed DEF ComesUp
    <2> QED
      BY <2>1, <2>2, <2>3, <2>4, <2>5, <2>6 DEF DetectorSteps
  <1>3. /\ LineShape'
        /\ line' = line \/ (line' # <<>> /\ (line = <<>> => First' \in Jobs) /\ (line # <<>> => Head(line') = Head(line)))
    <2>1. CASE line' = line /\ (~Answered => at' = at)
      BY <2>1 DEF Inv, LineShape, Answered
    <2>2. CASE /\ \E job \in Jobs : Joins("detector", job)
               /\ Answered /\ at' \in {"starting", "upping", "downing", "stopping"}
      <3>1. PICK job \in Jobs : Joins("detector", job)
        BY <2>2
      <3>2. \A i \in DOMAIN line : line[i].by # "detector"
        BY <2>2 DEF Answered
      <3> QED
        BY <2>2, <3>1, <3>2, Joined DEF Inv
    <2> QED
      BY <1>2, <2>1, <2>2
  <1>4. GateFacts' /\ Facts'
    BY <1>1, <1>3, KeepsFacts
  <1>5. NetworkTypeOK'
    <2>1. /\ at' \in {"idle", "confirm", "resume", "starting", "up", "upping", "down", "downing", "stop", "stopping"}
          /\ seen' \in Modes /\ answer' \in BOOLEAN /\ saw' \in BOOLEAN /\ handled' \in BOOLEAN
          /\ resume' \in Modes /\ stopping' \in BOOLEAN /\ disabling' \in BOOLEAN
      <3>0. /\ at \in {"idle", "confirm", "resume", "starting", "up", "upping", "down", "downing", "stop", "stopping"}
            /\ seen \in Modes /\ answer \in BOOLEAN /\ saw \in BOOLEAN /\ handled \in BOOLEAN
            /\ resume \in Modes /\ stopping \in BOOLEAN /\ disabling \in BOOLEAN
            /\ "stopped" \in Modes /\ Mode \in Modes /\ Recovered \in BOOLEAN
        BY DEF Inv, NetworkTypeOK, Modes, Mode, Recovered
      <3>1. CASE Ticks
        BY <3>0, <3>1 DEF Ticks
      <3>2. CASE Confirms
        BY <3>0, <3>2 DEF Confirms
      <3>3. CASE GoesDown
        BY <3>0, <3>3 DEF GoesDown
      <3>4. CASE StopsHost
        BY <3>0, <3>4 DEF StopsHost
      <3>5. CASE ResumesHost
        BY <3>0, <3>5 DEF ResumesHost
      <3>6. CASE ComesUp
        BY <3>0, <3>6 DEF ComesUp, Unlatches
      <3> QED
        BY <3>1, <3>2, <3>3, <3>4, <3>5, <3>6 DEF DetectorSteps
    <2>2. UNCHANGED <<device, tun, unconfirmed, op, probes, troubles, core, stray, kernel, ours, hidden, pending,
                      desired, online, mon, boot, swept, stopper, requests, outages, exits>>
      BY <1>1 DEF tunVars, host, launch, bounds
    <2> QED
      BY <1>3, <2>1, <2>2, PrimedLine DEF Inv, NetworkTypeOK, TunTypeOK
  <1> QED
    BY <1>3, <1>4, <1>5 DEF Inv, Facts

LEMMA AsksSafe == ASSUME Inv, Asks PROVE Inv'
  <1>1. UNCHANGED <<tunVars, troubles, host, online, detector, mon, launch, stopper, outages, exits>>
    BY DEF Asks
  <1>2. /\ LineShape' /\ line' # <<>> /\ (line = <<>> => First' \in Jobs) /\ (line # <<>> => Head(line') = Head(line))
    <2>1. PICK job \in UserJobs : Joins("user", job)
      BY DEF Asks
    <2>2. job \in Jobs /\ at' = at /\ \A i \in DOMAIN line : line[i].by # "user"
      BY <1>1, JobsListed DEF Asks, detector
    <2> QED
      BY <2>1, <2>2, Joined DEF Inv
  <1>3. GateFacts' /\ Facts'
    BY <1>1, <1>2, KeepsFacts
  <1>4. NetworkTypeOK'
    <2>1. UNCHANGED <<device, tun, unconfirmed, op, probes, troubles, core, stray, kernel, ours, hidden, pending,
                      desired, online, at, seen, answer, saw, resume, handled, stopping, disabling, mon, boot, swept,
                      stopper, outages, exits>>
      BY <1>1 DEF tunVars, host, detector, launch
    <2>2. requests' \in 0..MaxRequests
      BY NetworkAssumption DEF Inv, NetworkTypeOK, Asks
    <2> QED
      BY <1>2, <2>1, <2>2, PrimedLine DEF Inv, NetworkTypeOK, TunTypeOK
  <1> QED
    BY <1>2, <1>3, <1>4 DEF Inv, Facts

-----------------------------------------------------------------------------
(* The exit monitor and the world act outside the gate. *)

LEMMA MonitorSafe == ASSUME Inv, MonitorSteps PROVE Inv'
  <1>1. UNCHANGED <<pending, desired, online, line, at, seen, answer, saw, resume, handled, stopping, disabling,
                    boot, swept, requests, outages, exits>>
    BY DEF MonitorSteps, SeesExit, Resets, MonitorRestores, MonitorRestarts, MonitorKeeps, detector, launch, bounds
  <1>2. LineShape' /\ First' = First /\ (Holds("tun_wait") => Holds("tun_wait")')
    BY <1>1 DEF Inv, LineShape, Answered, First, Holds
  <1>3. CASE SeesExit
    <2>1. /\ UNCHANGED <<core, stray, ours, hidden, stopper, troubles, device, tun, unconfirmed, op, probes>>
          /\ ~core /\ kernel = "running" /\ kernel' = "failed" /\ mon' = "reset"
      BY <1>3 DEF SeesExit, TunKeeps, tunVars
    <2>2. GateFacts'
      BY <1>1, <1>2, <2>1 DEF Inv, GateFacts, Holds, First
    <2>3. Facts'
      BY <1>1, <1>2, <2>1 DEF Inv, Facts, QueueFacts, DeviceFacts, HostFacts, NoDeadPort, ProbesFenced
    <2>4. NetworkTypeOK'
      BY <1>1, <2>1 DEF Inv, NetworkTypeOK, TunTypeOK
    <2> QED
      BY <1>2, <2>2, <2>3, <2>4 DEF Inv, Facts
  <1>4. CASE Resets
    <2>1. /\ UNCHANGED <<core, stray, kernel, ours, hidden, stopper, troubles, device, op>>
          /\ op = "none" /\ mon = "reset" /\ mon' = "proxy" /\ Moves("configured", TRUE)
      BY <1>4 DEF Resets, HostExit, process
    <2>2. ProbesFenced' /\ tun' = "configured" /\ unconfirmed' \in BOOLEAN /\ probes' \in SUBSET Probe
      BY <2>1, MovesFine DEF Inv, NetworkTypeOK, Phases
    <2>3. GateFacts'
      BY <1>1, <1>2, <2>1, <2>2 DEF Inv, GateFacts, Holds, First
    <2>4. Facts'
      BY <1>1, <2>1, <2>2 DEF Inv, Facts, QueueFacts, DeviceFacts, HostFacts, NoDeadPort
    <2>5. NetworkTypeOK'
      BY <1>1, <2>1, <2>2 DEF Inv, NetworkTypeOK, TunTypeOK, Phases
    <2> QED
      BY <1>2, <2>3, <2>4, <2>5 DEF Inv, Facts
  <1>5. CASE MonitorRestores
    <2>1. /\ UNCHANGED <<core, stray, kernel, stopper, device, tun, unconfirmed, op, probes>>
          /\ mon = "proxy" /\ mon' = "restart" /\ (ours' => ours) /\ ours' \in BOOLEAN /\ hidden' \in BOOLEAN
      BY <1>5 DEF MonitorRestores, RestoresProxy, RestoreBreaks, process, TunKeeps, tunVars, Inv, NetworkTypeOK
    <2>2. troubles' \in 0..MaxTroubles
      BY <1>5, Troubled DEF MonitorRestores, RestoresProxy, RestoreBreaks, Inv, NetworkTypeOK
    <2>3. GateFacts'
      BY <1>1, <1>2, <2>1 DEF Inv, GateFacts, Holds, First
    <2>4. Facts'
      BY <1>1, <1>2, <2>1 DEF Inv, Facts, QueueFacts, DeviceFacts, HostFacts, NoDeadPort, ProbesFenced
    <2>5. NetworkTypeOK'
      BY <1>1, <2>1, <2>2 DEF Inv, NetworkTypeOK, TunTypeOK
    <2> QED
      BY <1>2, <2>3, <2>4, <2>5 DEF Inv, Facts
  <1>6. CASE MonitorRestarts
    <2>1. /\ UNCHANGED <<ours, hidden, troubles, tun, unconfirmed, op, probes>> /\ mon = "restart" /\ mon' = "idle"
          /\ \/ /\ kernel # "running" /\ core' = TRUE /\ stray' = FALSE /\ kernel' = "running"
                /\ device' = FALSE /\ stopper' = "none"
             \/ UNCHANGED <<core, stray, kernel, device, stopper>>
      BY <1>6 DEF MonitorRestarts, Launched, process
    <2>2. GateFacts'
      BY <1>1, <1>2, <2>1 DEF Inv, GateFacts, Holds, First
    <2>3. Facts'
      BY <1>1, <1>2, <2>1 DEF Inv, Facts, QueueFacts, DeviceFacts, HostFacts, NoDeadPort, ProbesFenced
    <2>4. NetworkTypeOK'
      <3>1. core' \in BOOLEAN /\ stray' \in BOOLEAN /\ device' \in BOOLEAN /\ kernel' \in {"stopped", "running", "failed"}
            /\ stopper' \in {"none", "user", "detector"}
        BY <2>1 DEF Inv, NetworkTypeOK, TunTypeOK
      <3> QED
        BY <1>1, <2>1, <3>1 DEF Inv, NetworkTypeOK, TunTypeOK
    <2> QED
      BY <1>2, <2>2, <2>3, <2>4 DEF Inv, Facts
  <1> QED
    BY <1>3, <1>4, <1>5, <1>6 DEF MonitorSteps

LEMMA WorldSafe == ASSUME Inv, GoesOffline \/ GoesOnline \/ CoreExits PROVE Inv'
  <1>1. /\ UNCHANGED <<kernel, ours, hidden, pending, desired, line, at, seen, answer, saw, resume, handled, stopping,
                      disabling, mon, boot, swept, stopper, requests, tun, unconfirmed, op, probes, troubles>>
        /\ UNCHANGED <<core, stray, device>> \/ (core' = FALSE /\ stray' = FALSE /\ device' = FALSE)
    BY DEF GoesOffline, GoesOnline, CoreExits, Gone, WorldKeeps, tunVars, launch, detector
  <1>2. online' \in BOOLEAN /\ outages' \in 0..MaxOutages /\ exits' \in 0..MaxExits
    <2>1. online \in BOOLEAN /\ outages \in 0..MaxOutages /\ exits \in 0..MaxExits
      BY DEF Inv, NetworkTypeOK
    <2>2. CASE GoesOffline
      <3>1. online' = FALSE /\ exits' = exits /\ outages < MaxOutages /\ outages' = outages + 1
        BY <2>2 DEF GoesOffline
      <3>2. outages' \in 0..MaxOutages
        BY <2>1, <3>1, NetworkAssumption
      <3> QED
        BY <2>1, <3>1, <3>2
    <2>3. CASE GoesOnline
      BY <2>1, <2>3 DEF GoesOnline
    <2>4. CASE CoreExits
      BY <2>1, <2>4, NetworkAssumption DEF CoreExits
    <2> QED
      BY <2>2, <2>3, <2>4
  <1>3. LineShape' /\ First' = First /\ (Holds("tun_wait") => Holds("tun_wait")')
    BY <1>1 DEF Inv, LineShape, Answered, First, Holds
  <1>4. GateFacts'
    BY <1>1, <1>3 DEF Inv, GateFacts, Holds, First
  <1>5. Facts'
    BY <1>1, <1>3 DEF Inv, Facts, QueueFacts, DeviceFacts, HostFacts, NoDeadPort, ProbesFenced
  <1>6. NetworkTypeOK'
    <2>1. core' \in BOOLEAN /\ stray' \in BOOLEAN /\ device' \in BOOLEAN
      BY <1>1 DEF Inv, NetworkTypeOK, TunTypeOK
    <2> QED
      BY <1>1, <1>2, <2>1 DEF Inv, NetworkTypeOK, TunTypeOK
  <1> QED
    BY <1>3, <1>4, <1>5, <1>6 DEF Inv, Facts

\* The launch takes no gate either: whatever it stops, and whatever it leaves of a
\* core it could not see, it says so of every start that it overtakes.
LEMMA LaunchSafe == ASSUME Inv, LaunchSteps PROVE Inv'
  <1>1. /\ UNCHANGED <<ours, hidden, pending, desired, online, line, at, seen, answer, saw, resume, handled, stopping,
                      disabling, mon, stopper, requests, outages, exits>>
        /\ boot' \in {"tun", "done"}
    BY DEF LaunchSteps, InitializesKernel, InitializesTun, LaunchKeeps, detector, bounds
  <1>2. LineShape' /\ First' = First /\ (line' # <<>> <=> line # <<>>) /\ (Holds("tun_wait") => Holds("tun_wait")')
    BY <1>1 DEF Inv, LineShape, Answered, First, Holds
  <1>3. CASE InitializesKernel
    <2>1. /\ UNCHANGED <<tun, unconfirmed, op, probes>>
          /\ swept' = (swept \/ (kernel # "stopped" /\ kernel' = "stopped"))
          /\ \/ kernel' = "stopped" /\ core' = FALSE /\ stray' = FALSE /\ device' = FALSE
             \/ kernel' = "stopped" /\ stray' = core /\ UNCHANGED <<core, device>>
             \/ UNCHANGED kernel /\ core' = FALSE /\ stray' = FALSE /\ device' = FALSE
             \/ UNCHANGED <<kernel, core, stray, device>>
      BY <1>3 DEF InitializesKernel, Gone
    <2>2. /\ core' \in BOOLEAN /\ stray' \in BOOLEAN /\ device' \in BOOLEAN /\ swept' \in BOOLEAN
          /\ kernel' \in {"stopped", "running", "failed"} /\ troubles' \in 0..MaxTroubles
      <3>1. troubles' \in 0..MaxTroubles
        BY <1>3, Troubled DEF InitializesKernel, Inv, NetworkTypeOK
      <3>2. swept' \in BOOLEAN
        BY <2>1 DEF Inv, NetworkTypeOK
      <3>3. core' \in BOOLEAN /\ stray' \in BOOLEAN /\ device' \in BOOLEAN
            /\ kernel' \in {"stopped", "running", "failed"}
        BY <2>1 DEF Inv, NetworkTypeOK, TunTypeOK
      <3> QED
        BY <3>1, <3>2, <3>3
    <2>3. /\ (swept \/ (core => kernel = "running")) => swept' \/ (core' => kernel' = "running")
          /\ (device => stray) => (device' => stray')
      <3>1. core \in BOOLEAN /\ stray \in BOOLEAN /\ device \in BOOLEAN /\ swept \in BOOLEAN /\ (device => core)
        BY DEF Inv, NetworkTypeOK, TunTypeOK, DeviceFacts
      <3>2. (swept \/ (core => kernel = "running")) => swept' \/ (core' => kernel' = "running")
        <4>1. CASE kernel' = "stopped"
          <5>1. swept' <=> swept \/ kernel # "stopped"
            BY <2>1, <4>1
          <5>2. core' => core
            BY <2>1, <3>1
          <5> QED
            BY <5>1, <5>2
        <4>2. CASE kernel' = kernel
          BY <2>1, <3>1, <4>2
        <4> QED
          BY <2>1, <4>1, <4>2
      <3>3. (device => stray) => (device' => stray')
        BY <2>1, <3>1
      <3> QED
        BY <3>2, <3>3
    <2>4. GateFacts'
      <3>1. line # <<>> =>
               /\ First \in StopRest => ~ours
               /\ First \in StopRest /\ ~Holds("tun_down") => tun # "active" /\ op # "enable"
               /\ Holds("tun_reset") => ~ours /\ (device => stray)
               /\ Holds("want") \/ Holds("tun_up") => swept \/ (core => kernel = "running")
        BY DEF Inv, GateFacts, First
      <3> QED
        BY <1>1, <1>2, <2>1, <2>3, <3>1 DEF GateFacts, Holds, First
    <2>5. QueueFacts' /\ ProbesFenced'
      BY <1>2, <2>1, <2>3 DEF Inv, QueueFacts, ProbesFenced
    <2>6. DeviceFacts' /\ HostFacts'
      <3>1. core \in BOOLEAN /\ stray \in BOOLEAN /\ device \in BOOLEAN /\ swept \in BOOLEAN /\ (device => core)
        BY DEF Inv, NetworkTypeOK, TunTypeOK, DeviceFacts
      <3>2. (swept => swept') /\ (kernel # "stopped" /\ kernel' = "stopped" => swept')
        BY <2>1
      <3>3. CASE core' = FALSE /\ stray' = FALSE /\ device' = FALSE /\ kernel' \in {kernel, "stopped"}
        BY <1>1, <2>1, <3>1, <3>2, <3>3 DEF Inv, DeviceFacts, HostFacts, NoDeadPort
      <3>4. CASE kernel' = "stopped" /\ stray' = core /\ UNCHANGED <<core, device>>
        BY <1>1, <2>1, <3>1, <3>2, <3>4 DEF Inv, DeviceFacts, HostFacts, NoDeadPort
      <3>5. CASE UNCHANGED <<kernel, core, stray, device>>
        BY <1>1, <2>1, <3>1, <3>2, <3>5 DEF Inv, DeviceFacts, HostFacts, NoDeadPort
      <3> QED
        BY <2>1, <3>3, <3>4, <3>5
    <2>7. NetworkTypeOK'
      BY <1>1, <2>1, <2>2 DEF Inv, NetworkTypeOK, TunTypeOK
    <2> QED
      BY <1>2, <2>4, <2>5, <2>6, <2>7 DEF Inv
  <1>4. CASE InitializesTun
    <2>1. UNCHANGED <<core, stray, kernel, swept, device>> /\ op = "none" /\ mon # "reset"
      BY <1>4 DEF InitializesTun, TunFree, process, InitializeRestores, InitializeRests, tunVars
    <2>2. /\ ProbesFenced' /\ unconfirmed' \in BOOLEAN /\ probes' \in SUBSET Probe
          /\ troubles' \in 0..MaxTroubles
          /\ UNCHANGED <<tun, op>> \/ (tun' = "restoring" /\ op' = "restore")
      <3>1. CASE InitializeRestores
        <4>1. troubles' \in 0..MaxTroubles
          BY <3>1, Troubled DEF Inv, NetworkTypeOK, InitializeRestores
        <4>2. Moves("restoring", FALSE) /\ tun # "active" /\ op' = "restore" /\ TunTypeOK /\ ProbesFenced
              /\ "restoring" \in Phases
          BY <3>1 DEF Inv, NetworkTypeOK, InitializeRestores, Phases
        <4> QED
          BY <4>1, <4>2, MovesFine
      <3>2. CASE InitializeRests
        <4>1. troubles' \in 0..MaxTroubles
          BY <3>2, Troubled DEF Inv, NetworkTypeOK, InitializeRests
        <4> QED
          BY <3>2, <4>1 DEF InitializeRests, tunVars, Inv, NetworkTypeOK, TunTypeOK, ProbesFenced
      <3> QED
        BY <1>4, <3>1, <3>2 DEF InitializesTun
    <2>3. GateFacts'
      BY <1>1, <1>2, <2>1, <2>2 DEF Inv, GateFacts, Holds, First
    <2>4. QueueFacts' /\ DeviceFacts' /\ HostFacts'
      BY <1>1, <2>1, <2>2 DEF Inv, QueueFacts, DeviceFacts, HostFacts, NoDeadPort
    <2>5. NetworkTypeOK'
      <3>1. tun' \in Phases /\ op' \in {"none", "enable", "restore"}
        BY <2>2 DEF Inv, NetworkTypeOK, TunTypeOK, Phases
      <3> QED
        BY <1>1, <2>1, <2>2, <3>1 DEF Inv, NetworkTypeOK, TunTypeOK
    <2> QED
      BY <1>2, <2>2, <2>3, <2>4, <2>5 DEF Inv
  <1> QED
    BY <1>3, <1>4 DEF LaunchSteps

-----------------------------------------------------------------------------
(* The theorems. *)

LEMMA InitInv == Init => Inv
  <1> SUFFICES ASSUME Init PROVE Inv
    OBVIOUS
  <1>1. line = <<>> /\ line \in Seq(Requests) /\ line \in Seq([by : {"user", "detector"}, todo : Seq(Steps) \ {<<>>}])
        /\ Len(line) = 0 /\ DOMAIN line = {}
    BY DEF Init
  <1>2. NetworkTypeOK
    <2>1. TunTypeOK
      <3>1. 0 \in 0..MaxTroubles /\ {} \in SUBSET Probe
        BY TunAssumption
      <3> QED
        BY <3>1 DEF Init, TunInit, TunTypeOK, Phases
    <2>2. 0 \in 0..MaxRequests /\ 0 \in 0..MaxOutages /\ 0 \in 0..MaxExits /\ Len(line) <= 2
      BY <1>1, NetworkAssumption
    <2> QED
      BY <1>1, <2>1, <2>2 DEF Init, NetworkTypeOK, Modes
  <1>3. LineShape
    BY <1>1 DEF LineShape, Requests, Answered
  <1>4. GateFacts /\ QueueFacts /\ DeviceFacts /\ HostFacts /\ ProbesFenced
    <2>1. /\ core \in BOOLEAN /\ stray = core /\ device \in {FALSE, core}
          /\ mon = "idle" /\ tun = "configured" /\ op = "none" /\ kernel = "stopped" /\ ~ours
      BY DEF Init, TunInit
    <2>2. GateFacts /\ QueueFacts /\ ProbesFenced
      BY <1>1, <2>1 DEF Init, TunInit, GateFacts, QueueFacts, ProbesFenced
    <2>3. device => core
      BY <2>1
    <2>4. DeviceFacts /\ HostFacts
      BY <2>1, <2>3 DEF DeviceFacts, HostFacts, NoDeadPort
    <2> QED
      BY <2>2, <2>4
  <1> QED
    BY <1>2, <1>3, <1>4 DEF Inv

LEMMA StepInv == Inv /\ [Next]_vars => Inv'
  <1> SUFFICES ASSUME Inv, [Next]_vars PROVE Inv'
    OBVIOUS
  <1>1. CASE UNCHANGED vars
    BY <1>1 DEF vars, tunVars, host, detector, launch, bounds, Inv, NetworkTypeOK, TunTypeOK, LineShape, Answered, GateFacts,
                Holds, QueueFacts, DeviceFacts, HostFacts, NoDeadPort, ProbesFenced
  <1> QED
    BY <1>1, GateSafe, TunStepSafe, ProbeSafe, DetectorSafe, MonitorSafe, LaunchSafe, AsksSafe, WorldSafe, Zenon DEF Next

LEMMA AlwaysInv == Spec => []Inv
  BY InitInv, StepInv, PTL DEF Spec

\* The types of the detector, the gate, the monitor and the TUN mode: the line
\* never holds more than one request of the user and one of the detector.
THEOREM NetworkTypeCorrect == Spec => []NetworkTypeOK
  <1>1. Inv => NetworkTypeOK
    BY DEF Inv
  <1> QED
    BY <1>1, AlwaysInv, PTL

\* An orderly stop never leaves the system proxy pointing at a port nobody
\* listens on, whoever asked for it and whatever failed before; only the launch,
\* which waits for no gate, can, when a start of this process comes before it.
THEOREM StopLeavesNoDeadPort == Spec => []NoDeadPort
  <1>1. Inv => NoDeadPort
    BY DEF Inv, HostFacts
  <1> QED
    BY <1>1, AlwaysInv, PTL

\* The TUN status is true, also when the process is launched over the core and the
\* adapter of the one before: the only adapter that can be up behind "configured"
\* is that of a core nobody of this process stands for (one the launch could not
\* see, or a start that failed left behind), and an "active" that no exit is about
\* to correct, and the launch has not overtaken, means an adapter.
THEOREM TunStatusCorrect == Spec => []TunStatusTrue
  <1>1. Inv => TunStatusTrue
    BY DEF Inv, DeviceFacts, TunStatusTrue
  <1> QED
    BY <1>1, AlwaysInv, PTL

\* A readiness probe that outlives its enable never gets past the fence.
THEOREM ReadinessFenced == Spec => []LateReadinessFenced
  <1>1. Inv => LateReadinessFenced
    BY DEF Inv, ProbesFenced, LateReadinessFenced
  <1> QED
    BY <1>1, AlwaysInv, PTL


-----------------------------------------------------------------------------
(* What an outage has left to be undone is remembered. *)

EpisodeSteps == at \notin {"idle", "confirm"} => saw

\* Only the detector tells the proxy of the network, and of its return in one
\* place of a tick alone.
NetJobs    == {<<"net_down">>, <<"net_up">>}
Belongs(q) == /\ q.by = "user" => q.todo \notin NetJobs
              /\ q.by = "detector" => (q.todo = <<"net_up">> <=> at = "upping")

NetRequests == \A i \in DOMAIN line : Belongs(line[i])

\* The good answer the tick waits for at its end says that nothing is pending.
AnsweredUp == at = "upping" /\ Answered /\ answer => ~pending

EpisodeInv == Inv /\ EpisodeKept /\ EpisodeSteps /\ NetRequests /\ AnsweredUp

EpisodeFacts == EpisodeKept /\ EpisodeSteps /\ NetRequests /\ AnsweredUp

LEMMA EpisodeStays ==
    ASSUME EpisodeInv, UNCHANGED <<line, at, answer, pending, saw, handled, resume>>
    PROVE  EpisodeFacts'
  BY DEF EpisodeInv, EpisodeFacts, EpisodeKept, EpisodeSteps, NetRequests, Belongs, AnsweredUp, Answered

LEMMA NetHeads ==
    ASSUME NEW r \in Rests
    PROVE  /\ r \in NetJobs => Len(r) = 1 /\ Head(r) \in {"net_down", "net_up"}
           /\ r = <<"net_up">> <=> Head(r) = "net_up"
           /\ r = <<"net_down">> <=> Head(r) = "net_down"
  <1>1. CASE r \in {<<"start">>, <<"start", "want", "tun_up">>, <<"start", "proxy_on">>, <<"start", "tun_up">>}
    BY <1>1 DEF NetJobs
  <1>2. CASE r \in {<<"restore", "tun_down", "stop", "tun_reset">>, <<"tun_down", "stop", "tun_reset">>,
                    <<"stop", "tun_reset">>, <<"tun_reset">>}
    BY <1>2 DEF NetJobs
  <1>3. CASE r \in {<<"tun_wait">>, <<"tun_wait", "stop", "tun_reset">>, <<"want", "tun_up">>, <<"tun_up">>,
                    <<"unwant", "tun_off">>, <<"tun_off">>}
    BY <1>3 DEF NetJobs
  <1>4. CASE r \in {<<"proxy_on">>, <<"proxy_off">>, <<"net_down">>, <<"net_up">>}
    BY <1>4 DEF NetJobs
  <1> QED
    BY <1>1, <1>2, <1>3, <1>4, RestsListed, Zenon

\* What is left of a request is none of the detector's calls to the proxy.
LEMMA NoNetTail == ASSUME NEW r \in Rests, Len(r) > 1 PROVE Tail(r) \in Rests \ NetJobs
  <1>1. Tail(r) \in Rests
    BY RestTails
  <1>2. r \in Seq(Steps) \ {<<>>}
    BY RestsType
  <1>3. Head(r) \in Steps
    BY <1>2
  <1>4. Tail(r) \in {<<"want", "tun_up">>, <<"proxy_on">>, <<"tun_up">>, <<"tun_down", "stop", "tun_reset">>,
                     <<"stop", "tun_reset">>, <<"tun_reset">>, <<"tun_off">>}
    BY <1>3, Follows DEF Steps
  <1>5. Head(Tail(r)) \notin {"net_down", "net_up"}
    <2> DEFINE t == Tail(r)
    <2>1. t \in {<<"want", "tun_up">>, <<"proxy_on">>, <<"tun_up">>, <<"tun_down", "stop", "tun_reset">>,
                 <<"stop", "tun_reset">>, <<"tun_reset">>, <<"tun_off">>}
      BY <1>4
    <2> HIDE DEF t
    <2>2. Head(t) \notin {"net_down", "net_up"}
      BY <2>1
    <2> QED
      BY <2>2 DEF t
  <1> QED
    BY <1>1, <1>5, NetHeads

\* A step behind the gate ends its request, or leaves some other work of it.
LEMMA GateMoves ==
    ASSUME Inv, GateSteps
    PROVE  /\ line # <<>> /\ UNCHANGED <<at, saw, handled, resume>>
           /\ \/ Answers(TRUE) \/ Answers(FALSE)
              \/ /\ First \notin NetJobs /\ answer' = answer
                 /\ \E r \in Rests \ NetJobs : line' = [line EXCEPT ![1].todo = r]
  <1>1. line # <<>> /\ UNCHANGED <<at, saw, handled, resume>>
    BY DEF GateSteps, Start, Restore, TunUp, TunDown, TunOff, TunWait, Stop, TunReset, Wants, ProxyOn,
           ProxyOff, NetDown, NetUp, Begins, StepKeeps, Holds
  <1>2. First \in Rests /\ Head(line) = line[1]
    BY <1>1, Holding DEF Inv
  <1>3. CASE Failed
    BY <1>1, <1>3 DEF Failed
  <1>4. CASE Done
    <2>1. CASE Len(First) > 1
      <3>1. line' = [line EXCEPT ![1].todo = Tail(First)] /\ answer' = answer
        BY <1>2, <1>4, <2>1 DEF Done, First
      <3>2. Tail(First) \in Rests \ NetJobs
        BY <1>2, <2>1, NoNetTail
      <3>3. First \notin NetJobs
        <4>1. ASSUME NEW r \in Rests, Len(r) > 1 PROVE r \notin NetJobs
          BY <4>1, Singleton, Zenon DEF NetJobs
        <4> QED
          BY <1>2, <2>1, <4>1
      <3> QED
        BY <1>1, <3>1, <3>2, <3>3
    <2>2. CASE ~(Len(First) > 1)
      BY <1>1, <1>4, <2>2 DEF Done, First
    <2> QED
      BY <2>1, <2>2
  <1>5. CASE /\ Head(First) \in {"tun_up", "tun_down", "tun_off"} /\ answer' = answer
             /\ line' = [line EXCEPT ![1].todo[1] = "tun_wait"]
    <2>1. /\ LineShape' /\ line' # <<>>
          /\ First' = IF Head(First) = "tun_down" THEN <<"tun_wait", "stop", "tun_reset">> ELSE <<"tun_wait">>
      BY <1>1, <1>5, Waits DEF Inv
    <2> DEFINE r == [First EXCEPT ![1] = "tun_wait"]
    <2>2. line' = [line EXCEPT ![1].todo = r]
      BY <1>2, <1>5 DEF First
    <2>3. First' = r
      <3> HIDE DEF r
      <3>1. line[1] \in Requests /\ line \in Seq(Requests) /\ Len(line) \in 1..2
        BY <1>1, Holding DEF Inv
      <3>2. line'[1].todo = r /\ line' # <<>> /\ Head(line') = line'[1]
        BY <2>1, <2>2, <3>1, Holding DEF Requests
      <3> QED
        BY <3>2 DEF First
    <2> HIDE DEF r
    <2>4. r \in Rests \ NetJobs
      <3>1. r \in {<<"tun_wait", "stop", "tun_reset">>, <<"tun_wait">>}
        BY <2>1, <2>3
      <3>2. {<<"tun_wait", "stop", "tun_reset">>, <<"tun_wait">>} \subseteq Rests
        BY Zenon DEF Rests, StopRest
      <3>3. Head(r) = "tun_wait"
        BY <3>1
      <3> QED
        BY <3>1, <3>2, <3>3, NetHeads
    <2>5. First \notin NetJobs
      BY <1>2, <1>5, NetHeads
    <2> QED
      BY <1>1, <1>5, <2>2, <2>4, <2>5
  <1>6. \/ Done \/ Failed
        \/ /\ Head(First) \in {"tun_up", "tun_down", "tun_off"} /\ answer' = answer
           /\ line' = [line EXCEPT ![1].todo[1] = "tun_wait"]
    BY DEF GateSteps, Start, Restore, TunUp, TunDown, TunOff, TunWait, Stop, TunReset, Wants, ProxyOn,
           ProxyOff, NetDown, NetUp, Begins, Holds, First
  <1> QED
    BY <1>3, <1>4, <1>5, <1>6

LEMMA EpisodeGate ==
    ASSUME EpisodeInv, GateSteps
    PROVE  EpisodeFacts'
  <1>1. /\ Inv /\ LineShape /\ EpisodeKept /\ EpisodeSteps /\ NetRequests /\ AnsweredUp
        /\ line # <<>> /\ UNCHANGED <<at, saw, handled, resume>>
    BY GateMoves DEF EpisodeInv, Inv
  <1>2. /\ line \in Seq(Requests) /\ Len(line) <= 2 /\ Len(line) \in 1..2
        /\ 1 \in DOMAIN line /\ (Len(line) = 2 => 2 \in DOMAIN line)
        /\ Head(line) = line[1] /\ line[1] \in Requests
        /\ First = line[1].todo /\ First \in Rests /\ Holder = line[1].by /\ Belongs(line[1])
    BY <1>1, Holding DEF NetRequests, First, Holder, LineShape, Requests
  <1>3. Holder \in {"user", "detector"} /\ (Holder = "detector" => ~Answered)
    BY <1>2 DEF Requests, Answered
  <1>4. NetDown => saw
    <2> SUFFICES ASSUME NetDown PROVE saw
      OBVIOUS
    <2>1. First = <<"net_down">>
      BY <1>2, NetHeads DEF NetDown, Holds, First
    <2>2. Holder = "detector"
      BY <1>2, <1>3, <2>1 DEF Belongs, NetJobs
    <2> QED
      BY <1>1, <1>3, <2>2 DEF LineShape, EpisodeSteps
  <1>5. pending' => pending \/ NetDown
    BY DEF GateSteps, Start, Restore, TunUp, TunDown, TunOff, TunWait, Stop, TunReset, Wants, ProxyOn,
           ProxyOff, NetUp, Begins, host
  <1>6. EpisodeKept' /\ EpisodeSteps'
    BY <1>1, <1>4, <1>5 DEF EpisodeKept, EpisodeSteps
  <1>7. CASE Answers(TRUE) \/ Answers(FALSE)
    <2>1. /\ line' = Tail(line)
          /\ \A i \in DOMAIN line' : Len(line) = 2 /\ line'[i] = line[2]
      BY <1>1, <1>2, <1>7, TailOfTwo DEF Answers
    <2>2. NetRequests'
      BY <1>1, <1>2, <2>1 DEF NetRequests, Belongs
    <2>3. AnsweredUp'
      <3> SUFFICES ASSUME at = "upping", Answered', answer' PROVE ~pending'
        BY <1>1 DEF AnsweredUp
      <3>1. CASE Holder = "user"
        <4>1. Len(line) = 2 => line[1].by # line[2].by
          BY <1>1 DEF LineShape
        <4>2. Len(line) = 2 => 1 \in DOMAIN line' /\ line'[1] = line[2]
          <5>1. Len(Tail(line)) = Len(line) - 1 /\ Tail(line) \in Seq(Requests)
            <6>1. \A l \in Seq(Requests) :
                     l # <<>> => Len(Tail(l)) = Len(l) - 1 /\ Tail(l) \in Seq(Requests)
              BY HeadTailProperties
            <6> QED
              BY <1>1, <1>2, <6>1, Zenon
          <5> SUFFICES ASSUME Len(line) = 2 PROVE 1 \in DOMAIN line'
            BY <2>1
          <5>2. Len(line') = 1 /\ line' \in Seq(Requests)
            BY <2>1, <5>1
          <5> QED
            BY <5>2
        <4>3. Len(line) = 2 => line[2].by # "detector"
          BY <4>2 DEF Answered
        <4>4. \A i \in DOMAIN line : i = 1 \/ (i = 2 /\ Len(line) = 2)
          BY <1>2, HeadOfTwo
        <4>5. Answered
          BY <1>2, <3>1, <4>3, <4>4 DEF Answered
        <4>6. answer' = answer
          BY <1>7, <3>1 DEF Answers
        <4>7. ~NetDown
          <5>1. First # <<"net_down">>
            BY <1>2, <3>1 DEF Belongs, NetJobs
          <5> QED
            BY <1>2, <5>1, NetHeads DEF NetDown, Holds, First
        <4> QED
          BY <1>1, <1>5, <4>5, <4>6, <4>7 DEF AnsweredUp
      <3>2. CASE Holder = "detector"
        <4>1. Head(First) = "net_up"
          BY <1>2, <3>2, NetHeads DEF Belongs
        <4>2. NetUp
          BY <4>1 DEF GateSteps, Start, Restore, TunUp, TunDown, TunOff, TunWait, Stop, TunReset, Wants,
                      ProxyOn, ProxyOff, NetDown, Holds, First
        <4>3. ~Failed
          BY <3>2 DEF Failed, Answers
        <4> QED
          BY <4>2, <4>3 DEF NetUp
      <3> QED
        BY <1>3, <3>1, <3>2
    <2> QED
      BY <1>6, <2>2, <2>3 DEF EpisodeFacts
  <1>8. ASSUME First \notin NetJobs, answer' = answer,
               NEW r \in Rests \ NetJobs, line' = [line EXCEPT ![1].todo = r]
        PROVE  EpisodeFacts'
    <2>1. /\ DOMAIN line' = DOMAIN line /\ line'[1].by = line[1].by /\ line'[1].todo = r
          /\ \A i \in DOMAIN line : i # 1 => line'[i] = line[i]
      BY <1>2, <1>8 DEF Requests
    <2>2. Holder = "detector" => at # "upping"
      BY <1>2, <1>8 DEF Belongs, NetJobs
    <2>3. Belongs(line[1])'
      BY <1>1, <1>2, <1>8, <2>1, <2>2 DEF Belongs, NetJobs
    <2>4. NetRequests'
      BY <1>1, <2>1, <2>3 DEF NetRequests, Belongs
    <2>5. Answered' => Answered
      BY <1>2, <2>1 DEF Answered
    <2>6. ~NetDown
      BY <1>2, <1>8, NetHeads DEF NetDown, Holds, First, NetJobs
    <2>7. AnsweredUp'
      BY <1>1, <1>5, <1>8, <2>5, <2>6 DEF AnsweredUp
    <2> QED
      BY <1>6, <2>4, <2>7 DEF EpisodeFacts
  <1> QED
    BY <1>1, <1>7, <1>8, GateMoves

LEMMA NetJoins ==
    ASSUME EpisodeInv, NEW who \in {"user", "detector"}, NEW job \in Jobs, Joins(who, job),
           IF who = "user" THEN at' = at /\ job \notin NetJobs
           ELSE Answered /\ (job = <<"net_up">> <=> at' = "upping"),
           \A i \in DOMAIN line : line[i].by # who
    PROVE  /\ NetRequests'
           /\ who = "detector" => ~Answered'
           /\ Answered' => Answered
  <1> DEFINE q == [by |-> who, todo |-> job]
  <1>1. /\ line \in Seq(Requests) /\ NetRequests /\ line' = Append(line, q)
    BY DEF EpisodeInv, Inv, LineShape, Requests, Joins
  <1>2. q.by = who /\ q.todo = job
    OBVIOUS
  <1> HIDE DEF q
  <1>3. /\ Len(line) \in Nat /\ DOMAIN line = 1..Len(line)
        /\ DOMAIN line' = 1..(Len(line) + 1) /\ line'[Len(line) + 1] = q
        /\ \A i \in DOMAIN line : line'[i] = line[i]
    BY <1>1
  <1>4. \A i \in DOMAIN line' : i \in DOMAIN line \/ line'[i] = q
    BY <1>3
  <1>5. ASSUME NEW i \in DOMAIN line' PROVE Belongs(line[i])'
    <2>1. CASE line'[i] = q
      BY <1>2, <2>1 DEF Belongs
    <2>2. CASE i \in DOMAIN line /\ line'[i] = line[i]
      <3>1. Belongs(line[i]) /\ line[i].by # who
        BY <1>1, <2>2 DEF NetRequests
      <3>2. line[i].by = "detector" => at' = at
        BY <2>2, <3>1 DEF Answered
      <3> QED
        BY <2>2, <3>1, <3>2 DEF Belongs
    <2> QED
      BY <1>3, <1>4, <2>1, <2>2
  <1>6. NetRequests'
    BY <1>5 DEF NetRequests
  <1>7. Len(line) + 1 \in DOMAIN line' /\ DOMAIN line \subseteq DOMAIN line'
    BY <1>3
  <1> QED
    BY <1>2, <1>3, <1>6, <1>7 DEF Answered

LEMMA EpisodeDetector ==
    ASSUME EpisodeInv, DetectorSteps
    PROVE  EpisodeFacts'
  <1>1. Inv /\ EpisodeKept /\ EpisodeSteps /\ NetRequests /\ AnsweredUp /\ pending' = pending
    BY DEF EpisodeInv, DetectorSteps, Ticks, Confirms, GoesDown, StopsHost, ResumesHost, ComesUp,
           DetectorKeeps, host
  <1>2. /\ <<"net_up">> \in Jobs /\ <<"net_down">> \in Jobs /\ StopJob \in Jobs /\ StartJob \in Jobs
        /\ StartJob # <<"net_up">> /\ StopJob # <<"net_up">> /\ <<"net_down">> # <<"net_up">>
    <2>1. StartJob \in {<<"start", "tun_up">>, <<"start">>} /\ {<<"start", "tun_up">>, <<"start">>} \subseteq Jobs
      BY Zenon DEF StartJob, Jobs, UserJobs
    <2>2. /\ <<"start", "tun_up">> # <<"net_up">> /\ <<"start">> # <<"net_up">>
          /\ <<"net_down">> # <<"net_up">> /\ StopJob # <<"net_up">>
      BY DEF StopJob
    <2> QED
      BY <2>1, <2>2, JobsListed, Zenon
  <1>3. at \notin {"starting", "upping", "downing", "stopping"} => Answered
    BY <1>1 DEF Inv, LineShape
  <1>4. \/ /\ line' = line /\ at' # "upping" /\ (~Answered => at' = at)
        \/ /\ Answered
           /\ \E job \in Jobs : Joins("detector", job) /\ (job = <<"net_up">> <=> at' = "upping")
    <2>1. CASE Ticks
      BY <1>3, <2>1 DEF Ticks
    <2>2. CASE Confirms
      BY <1>3, <2>2 DEF Confirms
    <2>3. CASE GoesDown
      BY <1>2, <1>3, <2>3 DEF GoesDown
    <2>4. CASE StopsHost
      BY <1>2, <1>3, <2>4 DEF StopsHost
    <2>5. CASE ResumesHost
      BY <1>2, <1>3, <2>5 DEF ResumesHost
    <2>6. CASE ComesUp
      BY <1>2, <1>3, <2>6 DEF ComesUp
    <2> QED
      BY <2>1, <2>2, <2>3, <2>4, <2>5, <2>6 DEF DetectorSteps
  <1>5. NetRequests' /\ AnsweredUp'
    <2>1. CASE line' = line /\ at' # "upping" /\ (~Answered => at' = at)
      BY <1>1, <2>1 DEF NetRequests, Belongs, AnsweredUp, Answered
    <2>2. ASSUME Answered, NEW job \in Jobs, Joins("detector", job), job = <<"net_up">> <=> at' = "upping"
          PROVE  NetRequests' /\ AnsweredUp'
      <3>1. \A i \in DOMAIN line : line[i].by # "detector"
        BY <2>2 DEF Answered
      <3> QED
        BY <2>2, <3>1, NetJoins DEF AnsweredUp
    <2> QED
      BY <1>4, <2>1, <2>2
  <1>6. EpisodeKept' /\ EpisodeSteps'
    <2>1. CASE Ticks
      BY <1>1, <2>1 DEF Ticks, EpisodeKept, EpisodeSteps
    <2>2. CASE Confirms
      BY <1>1, <2>2 DEF Confirms, EpisodeKept, EpisodeSteps
    <2>3. CASE GoesDown \/ StopsHost
      <3>1. at \notin {"idle", "confirm"} /\ UNCHANGED <<saw, handled, resume>>
        BY <2>3 DEF GoesDown, StopsHost
      <3> QED
        BY <1>1, <3>1 DEF EpisodeKept, EpisodeSteps
    <2>4. CASE ResumesHost
      <3>1. at \notin {"idle", "confirm"} /\ UNCHANGED <<saw, handled, resume>>
        BY <2>4 DEF ResumesHost
      <3> QED
        BY <1>1, <3>1 DEF EpisodeKept, EpisodeSteps
    <2>5. CASE ComesUp
      <3>1. saw
        BY <1>1, <2>5 DEF ComesUp, EpisodeSteps
      <3>2. CASE saw'
        BY <3>2 DEF EpisodeKept, EpisodeSteps
      <3>3. CASE ~saw'
        <4>1. /\ at = "upping" /\ Answered /\ Recovered /\ at' = "idle"
              /\ resume' = "stopped" /\ ~handled'
          BY <2>5, <3>1, <3>3 DEF ComesUp, Unlatches
        <4>2. ~pending
          BY <1>1, <4>1 DEF AnsweredUp, Recovered
        <4> QED
          BY <1>1, <4>1, <4>2 DEF EpisodeKept, EpisodeSteps
      <3> QED
        BY <3>2, <3>3
    <2> QED
      BY <2>1, <2>2, <2>3, <2>4, <2>5 DEF DetectorSteps
  <1> QED
    BY <1>5, <1>6 DEF EpisodeFacts

LEMMA EpisodeAsks ==
    ASSUME EpisodeInv, Asks
    PROVE  EpisodeFacts'
  <1>1. PICK job \in UserJobs : Joins("user", job)
    BY DEF Asks
  <1>2. job \in Jobs /\ job \notin NetJobs
    <2>1. job \in Jobs /\ job \in Rests
      BY JobsListed DEF Rests
    <2>2. Head(job) \notin {"net_down", "net_up"}
      BY DEF UserJobs, StopJob
    <2> QED
      BY <2>1, <2>2, NetHeads
  <1>3. /\ UNCHANGED <<at, answer, pending, saw, handled, resume>>
        /\ \A i \in DOMAIN line : line[i].by # "user"
    BY DEF Asks, detector, host
  <1>4. NetRequests' /\ (Answered' => Answered)
    BY <1>1, <1>2, <1>3, NetJoins
  <1> QED
    BY <1>3, <1>4 DEF EpisodeInv, EpisodeFacts, EpisodeKept, EpisodeSteps, AnsweredUp

LEMMA EpisodeStep == EpisodeInv /\ [Next]_vars => EpisodeInv'
  <1> SUFFICES ASSUME EpisodeInv, [Next]_vars PROVE EpisodeInv'
    OBVIOUS
  <1>1. Inv'
    BY StepInv DEF EpisodeInv
  <1> SUFFICES EpisodeFacts'
    BY <1>1 DEF EpisodeInv, EpisodeFacts
  <1>2. CASE UNCHANGED vars
    BY <1>2, EpisodeStays DEF vars, host, detector
  <1>3. CASE TunStep \/ ProbeStep \/ MonitorSteps \/ LaunchSteps \/ GoesOffline \/ GoesOnline \/ CoreExits
    <2>1. UNCHANGED <<line, at, answer, pending, saw, handled, resume>>
      BY <1>3 DEF TunStep, ProbeStep, MonitorSteps, SeesExit, Resets, MonitorRestores, MonitorRestarts,
                  LaunchSteps, InitializesKernel, InitializesTun, LaunchKeeps,
                  GoesOffline, GoesOnline, CoreExits, MonitorKeeps, WorldKeeps, host, detector
    <2> QED
      BY <2>1, EpisodeStays
  <1> QED
    BY <1>2, <1>3, EpisodeGate, EpisodeDetector, EpisodeAsks DEF Next

\* The detector never forgets an outage that has left something to be undone,
\* whatever calls fail, whoever waits for the gate and however often the network
\* goes and comes: what is pending belongs to an episode it still remembers.
THEOREM EpisodeIsKept == Spec => []EpisodeKept
  <1>1. Init => EpisodeInv
    <2> SUFFICES ASSUME Init PROVE EpisodeInv
      OBVIOUS
    <2>1. line = <<>> /\ DOMAIN line = {}
      BY DEF Init
    <2> QED
      BY <2>1, InitInv DEF Init, EpisodeInv, EpisodeKept, EpisodeSteps, NetRequests, AnsweredUp
  <1>2. EpisodeInv => EpisodeKept
    BY DEF EpisodeInv
  <1> QED
    BY <1>1, <1>2, EpisodeStep, PTL DEF Spec
=============================================================================
