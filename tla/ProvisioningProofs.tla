-------------------------- MODULE ProvisioningProofs --------------------------
(***************************************************************************)
(* Provisioning and attesting, for any number of provisioning runs and of  *)
(* setups, interleaved with the agent and cut short anywhere.              *)
(***************************************************************************)
EXTENDS Provisioning, SequenceTheorems, TLAPS

\* A provisioning run's choices, and a file as it can be.
Choices ==
    [n : UNION {Generated(id) \cup Given(id) : id \in Nat},
     salt : {Beacon} \cup {<< "salt", id >> : id \in Nat},
     t : Steps]
FileState == [run : Nat, mode : {"none", "0600", "0644"}]

OUTPUTS == 12

\* The output that fills a file.
WrittenAt == [mission |-> 2, ct |-> 4, cert |-> 6, salt |-> 8, grants |-> 10]

\* The files are as run number id leaves them after its first k outputs.
Reached(files, id, k) ==
    /\ \A f \in File : WrittenAt[f] <= k => files[f].run = id
    /\ 11 <= k => files["ct"].mode = "0600"

\* What the provisioner has left to do is the end of its list, and what came before
\* is on the disk; a completed run is the last one, and all of its files are there.
DiskInv ==
    /\ runs \in Seq(Choices)
    /\ disk \in [File -> FileState]
    /\ \A f \in File : disk[f].run <= Len(runs)
    /\ \E S : todo \in Seq(S)
    /\ Len(todo) <= OUTPUTS
    /\ \A i \in 1 .. Len(todo) : todo[i] = Outputs(Len(runs))[OUTPUTS - Len(todo) + i]
    /\ todo # << >> => shipped = 0 /\ runs # << >> /\ Reached(disk, Len(runs), OUTPUTS - Len(todo))
    /\ shipped # 0 => todo = << >> /\ shipped = Len(runs) /\ Reached(disk, Len(runs), OUTPUTS)

\* What the agent has read at each of its stages.
Fields(stage) ==
    CASE stage \in {"down", "erased"} -> {"at"}
      [] stage = "ct" -> {"at", "mission"}
      [] stage = "salt" -> {"at", "mission", "ct"}
      [] stage = "cert" -> {"at", "mission", "ct", "salt"}
      [] stage \in {"open", "opened", "setup", "saving"} -> {"at", "mission", "ct", "salt", "n"}
      [] stage = "prove" -> {"at", "mission", "ct", "salt", "n", "key"}
      [] OTHER -> {"at", "mission", "proof", "public_inputs", "verifying_key"}

HasOpened  == {"opened", "setup", "saving", "prove"}
HasCt      == {"salt", "cert", "open"} \cup HasOpened
HasMission == {"ct"} \cup HasCt

\* The artifact and the ciphertext are some run's, not necessarily the same one's
\* before the ciphertext has been opened.
AgentInv ==
    /\ agent.at \in {"down", "erased", "attested"} \cup HasMission
    /\ agent = [x \in Fields(agent.at) |-> agent[x]]
    /\ agent.at \in HasMission => \E i \in 1 .. Len(runs) : agent.mission = Artifact(i)
    /\ agent.at \in HasCt => \E j \in 1 .. Len(runs) : agent.ct = Sealed(j)
    /\ agent.at \in HasOpened => Opens(agent)

\* A key file is whole again only when no attestation has been published.
KeyInv ==
    /\ setups \in Nat
    /\ proving_key \in {NoKey, TornKey} \cup {WholeKey(k) : k \in 1 .. setups}
    /\ agent.at = "setup" => proving_key = NoKey
    /\ agent.at = "saving" => proving_key = TornKey /\ setups # 0
    /\ agent.at = "prove" => agent.key \in 1 .. setups /\ proving_key = WholeKey(agent.key)
    /\ published # {} => \E k \in 1 .. setups : published = {k} /\ proving_key = WholeKey(k)

PInv == DiskInv /\ AgentInv /\ KeyInv /\ AttestationVerifies

-------------------------------------------------------------------------------
(* The provisioner's files.                                                *)

\* A function on an initial segment is a sequence.
LEMMA FunctionIsSeq ==
    ASSUME NEW n \in Nat, NEW T, NEW f \in [1 .. n -> T]
    PROVE  f \in Seq(T) /\ Len(f) = n
PROOF
  <1>1. f \in Seq(T)
    <2>1. [1 .. n -> T] \subseteq UNION {[1 .. k -> T] : k \in Nat}
      OBVIOUS
    <2> QED BY <2>1, SeqDef, Zenon
  <1>2. DOMAIN f = 1 .. n
    OBVIOUS
  <1> QED BY <1>1, <1>2

\* The list of outputs, spelled out.
LEMMA OutputsInOrder ==
    ASSUME NEW id
    PROVE  /\ \A k \in {1, 3, 5, 7, 9} : Outputs(id)[k].do = "truncate"
           /\ \A k \in {2, 4, 6, 8, 10} : Outputs(id)[k].do = "write" /\ Outputs(id)[k].run = id
           /\ \A k \in {11, 12} : Outputs(id)[k].do = "chmod"
           /\ Outputs(id)[1].file = "mission" /\ Outputs(id)[2].file = "mission"
           /\ Outputs(id)[3].file = "ct" /\ Outputs(id)[4].file = "ct"
           /\ Outputs(id)[5].file = "cert" /\ Outputs(id)[6].file = "cert"
           /\ Outputs(id)[7].file = "salt" /\ Outputs(id)[8].file = "salt"
           /\ Outputs(id)[9].file = "grants" /\ Outputs(id)[10].file = "grants"
           /\ Outputs(id)[11].file = "ct" /\ Outputs(id)[12].file = "grants"
PROOF
  <1>1. \A k \in {1, 3, 5, 7, 9} : k \in 1 .. 12 /\ ~(k > 10) /\ k % 2 = 1
    OBVIOUS
  <1>2. \A k \in {2, 4, 6, 8, 10} : k \in 1 .. 12 /\ ~(k > 10) /\ k % 2 # 1
    OBVIOUS
  <1>3. (1 + 1) \div 2 = 1 /\ (2 + 1) \div 2 = 1 /\ (3 + 1) \div 2 = 2 /\ (4 + 1) \div 2 = 2
        /\ (5 + 1) \div 2 = 3 /\ (6 + 1) \div 2 = 3 /\ (7 + 1) \div 2 = 4 /\ (8 + 1) \div 2 = 4
        /\ (9 + 1) \div 2 = 5 /\ (10 + 1) \div 2 = 5
    OBVIOUS
  <1>4. \A k \in {1, 3, 5, 7, 9} : Outputs(id)[k].do = "truncate"
    BY <1>1 DEF Outputs
  <1>5. \A k \in {2, 4, 6, 8, 10} : Outputs(id)[k].do = "write" /\ Outputs(id)[k].run = id
    BY <1>2 DEF Outputs
  <1>6. \A k \in {11, 12} : Outputs(id)[k].do = "chmod"
    BY DEF Outputs
  <1>7. \A k \in 1 .. 10 :
            Outputs(id)[k].file = << "mission", "ct", "cert", "salt", "grants" >>[(k + 1) \div 2]
    BY DEF Outputs
  <1>8. /\ Outputs(id)[1].file = "mission" /\ Outputs(id)[2].file = "mission"
        /\ Outputs(id)[3].file = "ct" /\ Outputs(id)[4].file = "ct"
        /\ Outputs(id)[5].file = "cert" /\ Outputs(id)[6].file = "cert"
        /\ Outputs(id)[7].file = "salt" /\ Outputs(id)[8].file = "salt"
        /\ Outputs(id)[9].file = "grants" /\ Outputs(id)[10].file = "grants"
    BY <1>3, <1>7
  <1>9. Outputs(id)[11].file = "ct" /\ Outputs(id)[12].file = "grants"
    BY DEF Outputs
  <1> QED BY <1>4, <1>5, <1>6, <1>8, <1>9

\* An output in its turn takes the run one output further, and changes one file.
LEMMA OutputReaches ==
    ASSUME disk \in [File -> FileState], runs \in Seq(Choices),
           \A f \in File : disk[f].run <= Len(runs),
           NEW k \in 0 .. OUTPUTS - 1, Reached(disk, Len(runs), k),
           NEW op, op = Outputs(Len(runs))[k + 1],
           \/ op.do = "truncate" /\ Write(op.file, 0)
           \/ op.do = "write" /\ Write(op.file, op.run)
           \/ op.do = "chmod" /\ disk' = [disk EXCEPT ![op.file].mode = "0600"]
    PROVE  /\ disk' \in [File -> FileState]
           /\ \A f \in File : disk'[f].run <= Len(runs)
           /\ Reached(disk', Len(runs), k + 1)
PROOF
  <1>0. Len(runs) \in Nat
    OBVIOUS
  <1>1. k \in 0 .. 11 /\ op.file \in File
    BY OutputsInOrder DEF OUTPUTS, File
  <1>2. CASE op.do = "chmod"
    <2>1. k \in {10, 11} /\ disk' = [disk EXCEPT ![op.file].mode = "0600"]
      BY <1>1, <1>2, OutputsInOrder
    <2>2. disk' \in [File -> FileState] /\ \A f \in File : disk'[f].run = disk[f].run
      BY <1>1, <2>1 DEF FileState
    <2>3. k = 10 => op.file = "ct" /\ disk'["ct"].mode = "0600"
      BY <2>1, OutputsInOrder DEF FileState, File
    <2>4. k = 11 => disk'["ct"].mode = "0600"
      BY <2>1, OutputsInOrder DEF FileState, File, Reached
    <2>5. \A f \in File : WrittenAt[f] \in Nat /\ WrittenAt[f] <= 10
      BY DEF WrittenAt, File
    <2>6. \A f \in File : disk'[f].run = Len(runs)
      BY <2>1, <2>2, <2>5 DEF Reached
    <2> QED BY <2>1, <2>2, <2>3, <2>4, <2>6 DEF Reached
  <1>3. CASE op.do \in {"truncate", "write"}
    <2>1. k \in 0 .. 9
      BY <1>1, <1>3, OutputsInOrder
    <2>2. PICK run \in {0, Len(runs)} :
             Write(op.file, run) /\ (op.do = "write" => run = Len(runs))
      BY <1>3, <2>1, OutputsInOrder
    <2>3. /\ disk' \in [File -> FileState]
          /\ disk'[op.file].run = run
          /\ \A f \in File \ {op.file} : disk'[f] = disk[f]
      <3>1. CreateMode \in {"none", "0600", "0644"} /\ run \in Nat
        BY <1>0, <2>2, ProvisioningAssumption
      <3>2. [run |-> run, mode |-> IF disk[op.file] = Absent THEN CreateMode
                                   ELSE disk[op.file].mode] \in FileState
        BY <1>1, <3>1 DEF FileState
      <3> QED BY <1>1, <2>2, <3>2 DEF Write
    <2>4. \A f \in File : disk'[f].run <= Len(runs)
      BY <1>0, <2>2, <2>3
    <2>5. \A f \in File : WrittenAt[f] <= k + 1 =>
             \/ WrittenAt[f] <= k /\ f # op.file
             \/ f = op.file /\ op.do = "write"
      <3>1. /\ WrittenAt["mission"] = 2 /\ WrittenAt["ct"] = 4 /\ WrittenAt["cert"] = 6
            /\ WrittenAt["salt"] = 8 /\ WrittenAt["grants"] = 10
        BY DEF WrittenAt
      <3>2. k \in {0, 2, 4, 6, 8} => /\ WrittenAt[op.file] = k + 2
                                     /\ \A f \in File : WrittenAt[f] # k + 1
        BY <3>1, OutputsInOrder DEF File
      <3>3. k \in {1, 3, 5, 7, 9} => /\ op.do = "write" /\ WrittenAt[op.file] = k + 1
                                     /\ \A f \in File : WrittenAt[f] = k + 1 => f = op.file
        BY <3>1, OutputsInOrder DEF File
      <3>4. \A f \in File : WrittenAt[f] \in Nat
        BY <3>1 DEF File
      <3> QED BY <2>1, <3>2, <3>3, <3>4
    <2>6. \A f \in File : WrittenAt[f] <= k + 1 => disk'[f].run = Len(runs)
      BY <2>2, <2>3, <2>5 DEF Reached
    <2> QED BY <2>1, <2>3, <2>4, <2>6 DEF Reached
  <1>4. op.do \in {"chmod", "truncate", "write"}
    OBVIOUS
  <1> QED BY <1>2, <1>3, <1>4

LEMMA WriteOutputKeepsDisk ==
    ASSUME DiskInv, WriteOutput
    PROVE  DiskInv'
PROOF
  <1>0. PICK S : todo \in Seq(S)
    BY DEF DiskInv
  <1>k. PICK k : k = OUTPUTS - Len(todo)
    OBVIOUS
  <1>1. todo # << >> /\ Len(todo) \in 1 .. OUTPUTS /\ k \in 0 .. OUTPUTS - 1
    <2>1. todo # << >> /\ Len(todo) <= OUTPUTS
      BY DEF DiskInv, WriteOutput
    <2>2. Len(todo) \in Nat /\ Len(todo) # 0
      BY <1>0, <2>1, EmptySeq
    <2>3. ASSUME NEW len \in Nat, len # 0, len <= 12
          PROVE  len \in 1 .. 12 /\ 12 - len \in 0 .. 12 - 1
      BY <2>3
    <2> QED BY <1>k, <2>1, <2>2, <2>3 DEF OUTPUTS
  <1>2. /\ Head(todo) = todo[1]
        /\ todo' = Tail(todo) /\ todo' \in Seq(S) /\ Len(todo') = Len(todo) - 1
        /\ \A i \in 1 .. Len(todo) - 1 : todo'[i] = todo[i + 1]
    BY <1>0, <1>1, HeadTailProperties DEF WriteOutput
  <1>3. runs' = runs /\ shipped' = IF todo' = << >> THEN Len(runs) ELSE 0
    BY DEF WriteOutput
  <1>4. Head(todo) = Outputs(Len(runs))[k + 1]
    BY <1>k, <1>1, <1>2 DEF DiskInv
  <1>5. /\ disk' \in [File -> FileState]
        /\ \A f \in File : disk'[f].run <= Len(runs)
        /\ Reached(disk', Len(runs), k + 1)
    <2> DEFINE op == Head(todo)
    <2>1. \/ op.do = "truncate" /\ Write(op.file, 0)
          \/ op.do = "write" /\ Write(op.file, op.run)
          \/ op.do = "chmod" /\ disk' = [disk EXCEPT ![op.file].mode = "0600"]
      BY DEF WriteOutput
    <2>2. Reached(disk, Len(runs), k)
      BY <1>k, <1>1 DEF DiskInv
    <2>3. disk \in [File -> FileState] /\ runs \in Seq(Choices)
          /\ \A f \in File : disk[f].run <= Len(runs)
      BY DEF DiskInv
    <2>4. op = Outputs(Len(runs))[k + 1]
      BY <1>4
    <2> HIDE DEF op
    <2> QED BY <1>1, <2>1, <2>2, <2>3, <2>4, OutputReaches
  <1>6. k + 1 = OUTPUTS - Len(todo') /\ Len(todo') <= OUTPUTS
    <2>1. ASSUME NEW len \in 1 .. 12
          PROVE  12 - len + 1 = 12 - (len - 1) /\ len - 1 <= 12
      OBVIOUS
    <2> QED BY <1>k, <1>1, <1>2, <2>1 DEF OUTPUTS
  <1>7. \A i \in 1 .. Len(todo') : todo'[i] = Outputs(Len(runs))[OUTPUTS - Len(todo') + i]
    <2>1. \A i \in 1 .. Len(todo) : todo[i] = Outputs(Len(runs))[OUTPUTS - Len(todo) + i]
      BY DEF DiskInv
    <2>2. SUFFICES ASSUME NEW i \in 1 .. Len(todo')
                   PROVE  todo'[i] = Outputs(Len(runs))[OUTPUTS - Len(todo') + i]
      OBVIOUS
    <2>3. i \in 1 .. Len(todo) - 1 /\ i + 1 \in 1 .. Len(todo)
          /\ OUTPUTS - Len(todo) + (i + 1) = OUTPUTS - Len(todo') + i
      BY <1>1, <1>2 DEF OUTPUTS
    <2> QED BY <1>2, <2>1, <2>3
  <1>8. todo' # << >> => shipped' = 0 /\ runs' # << >> /\ Reached(disk', Len(runs'), OUTPUTS - Len(todo'))
    BY <1>1, <1>3, <1>5, <1>6 DEF DiskInv
  <1>9. shipped' # 0 => todo' = << >> /\ shipped' = Len(runs') /\ Reached(disk', Len(runs'), OUTPUTS)
    <2>1. SUFFICES ASSUME todo' = << >> PROVE Reached(disk', Len(runs'), OUTPUTS)
      BY <1>3
    <2>2. k + 1 = OUTPUTS
      BY <1>6, <2>1 DEF OUTPUTS
    <2> QED BY <1>3, <1>5, <2>2
  <1> QED BY <1>2, <1>3, <1>5, <1>6, <1>7, <1>8, <1>9 DEF DiskInv

\* Whatever happens to the files, they remain the last run's as far as it got.
LEMMA DiskStep ==
    ASSUME DiskInv, [Next]_vars
    PROVE  DiskInv'
PROOF
  <1>0. Len(runs) \in Nat /\ OUTPUTS = 12
    BY DEF DiskInv, OUTPUTS
  <1>1. ASSUME NEW n \in Generated(Len(runs) + 1) \cup Given(Len(runs) + 1),
               NEW salt \in {Beacon, << "salt", Len(runs) + 1 >>}, NEW t \in Steps,
               Provision(n, salt, t)
        PROVE  DiskInv'
    <2> DEFINE id == Len(runs) + 1
               choice == [n |-> n, salt |-> salt, t |-> t]
    <2>1. choice \in Choices
      BY <1>0 DEF Choices
    <2>2. /\ runs' \in Seq(Choices) /\ runs' # << >> /\ Len(runs') = id
          /\ todo' = Outputs(id) /\ shipped' = 0 /\ disk' = disk
      BY <1>1, <2>1 DEF Provision, DiskInv
    <2>3. /\ todo' \in Seq({Outputs(id)[i] : i \in 1 .. 12})
          /\ Len(todo') = 12
      <3>1. Outputs(id) = [i \in 1 .. 12 |-> Outputs(id)[i]]
        BY DEF Outputs
      <3> HIDE DEF id
      <3>2. Outputs(id) \in [1 .. 12 -> {Outputs(id)[i] : i \in 1 .. 12}]
        BY <3>1
      <3>3. todo' \in Seq({Outputs(id)[i] : i \in 1 .. 12})
        BY <2>2, <3>2, FunctionIsSeq
      <3> QED BY <2>2, <3>2, <3>3, FunctionIsSeq
    <2>4. \A f \in File : disk'[f].run <= Len(runs')
      BY <1>0, <2>2 DEF DiskInv, FileState
    <2>5. \A f \in File : WrittenAt[f] > 0
      BY DEF WrittenAt, File
    <2>6. Reached(disk', Len(runs'), 0)
      <3>1. \A f \in File : ~(WrittenAt[f] <= 0)
        BY DEF WrittenAt, File
      <3> QED BY <3>1 DEF Reached
    <2>7. \A i \in 1 .. Len(todo') : todo'[i] = Outputs(Len(runs'))[OUTPUTS - Len(todo') + i]
      <3>1. \A i \in 1 .. 12 : OUTPUTS - 12 + i = i
        BY <1>0
      <3> QED BY <2>2, <2>3, <3>1
    <2>8. OUTPUTS - Len(todo') = 0
      BY <1>0, <2>3
    <2>9. disk' \in [File -> FileState]
      BY <2>2 DEF DiskInv
    <2> HIDE DEF id
    <2> QED BY <1>0, <2>2, <2>3, <2>4, <2>6, <2>7, <2>8, <2>9 DEF DiskInv
  <1>2. CASE WriteOutput
    BY <1>2, WriteOutputKeepsDisk
  <1>3. CASE Crash
    BY <1>3 DEF Crash, DiskInv, OUTPUTS
  <1>4. ASSUME NEW f \in {"ct", "salt"}, Chmod600(f)
        PROVE  DiskInv'
    <2>1. /\ disk' \in [File -> FileState]
          /\ \A g \in File : disk'[g].run = disk[g].run
          /\ disk["ct"].mode = "0600" => disk'["ct"].mode = "0600"
      BY <1>4 DEF DiskInv, FileState, Chmod600, File
    <2>2. \A k : Reached(disk, Len(runs), k) => Reached(disk', Len(runs), k)
      BY <2>1 DEF Reached
    <2> QED BY <1>4, <2>1, <2>2 DEF DiskInv, Chmod600
  <1>5. ASSUME NEW f \in {"cert", "ct"}, Remove(f)
        PROVE  DiskInv'
    <2>1. Absent \in FileState /\ Absent.run = 0
      BY DEF Absent, FileState
    <2>2. disk' = [disk EXCEPT ![f] = Absent] /\ disk \in [File -> FileState]
          /\ \A g \in File : disk[g].run <= Len(runs)
      BY <1>5 DEF DiskInv, Remove
    <2>3. disk' \in [File -> FileState] /\ \A g \in File : disk'[g].run <= Len(runs)
      <3>1. Absent.run <= Len(runs)
        BY <1>0, <2>1
      <3>2. \A g \in File : disk'[g] = IF g = f THEN Absent ELSE disk[g]
        BY <2>2
      <3>3. disk' \in [File -> FileState]
        BY <2>1, <2>2
      <3> QED BY <2>2, <3>1, <3>2, <3>3
    <2> QED BY <1>5, <2>3 DEF DiskInv, Remove
  <1>6. CASE UNCHANGED mission_files
    BY <1>6 DEF DiskInv, mission_files
  <1>7. CASE \/ Start \/ AgentEnds \/ LoadCt \/ LoadSalt \/ LoadCert \/ Open
             \/ LoadProver \/ SetUp \/ SaveKey \/ Prove \/ RemoveTornKey \/ UNCHANGED vars
    <2>1. UNCHANGED mission_files
      BY <1>7 DEF Start, AgentEnds, LoadCt, LoadSalt, LoadCert, Open, LoadProver, SetUp, SaveKey,
                  Prove, RemoveTornKey, world, mission_files, vars
    <2> QED BY <1>6, <2>1
  <1> QED BY <1>1, <1>2, <1>3, <1>4, <1>5, <1>7 DEF Next

-------------------------------------------------------------------------------
(* The agent.                                                              *)

\* The stages by name.
LEMMA Stages ==
    /\ {Stage[j] : j \in 1 .. Len(Stage)}
         = {"ct", "salt", "cert", "open", "opened", "setup", "saving", "prove"}
    /\ {Stage[j] : j \in 2 .. Len(Stage)}
         = {"salt", "cert", "open", "opened", "setup", "saving", "prove"}
    /\ {Stage[j] : j \in 3 .. Len(Stage)}
         = {"cert", "open", "opened", "setup", "saving", "prove"}
    /\ {Stage[j] : j \in 4 .. Len(Stage)} = {"open", "opened", "setup", "saving", "prove"}
    /\ {Stage[j] : j \in 5 .. Len(Stage)} = {"opened", "setup", "saving", "prove"}
PROOF
  <1>1. Len(Stage) = 8
    BY DEF Stage
  <1>2. /\ 1 .. 8 = {1, 2, 3, 4, 5, 6, 7, 8} /\ 2 .. 8 = {2, 3, 4, 5, 6, 7, 8}
        /\ 3 .. 8 = {3, 4, 5, 6, 7, 8} /\ 4 .. 8 = {4, 5, 6, 7, 8} /\ 5 .. 8 = {5, 6, 7, 8}
    OBVIOUS
  <1>3. /\ Stage[1] = "ct" /\ Stage[2] = "salt" /\ Stage[3] = "cert" /\ Stage[4] = "open"
        /\ Stage[5] = "opened" /\ Stage[6] = "setup" /\ Stage[7] = "saving" /\ Stage[8] = "prove"
    BY DEF Stage
  <1> QED BY <1>1, <1>2, <1>3

\* The artifact and the sealed key of a run do not change when another begins.
LEMMA RunsAreKept ==
    ASSUME runs \in Seq(Choices), NEW choice \in Choices, runs' = Append(runs, choice),
           NEW i \in 1 .. Len(runs)
    PROVE  Artifact(i)' = Artifact(i) /\ Sealed(i)' = Sealed(i) /\ i \in 1 .. Len(runs')
PROOF
  <1>1. runs'[i] = runs[i] /\ i \in 1 .. Len(runs')
    OBVIOUS
  <1> QED BY <1>1 DEF Artifact, Sealed

\* A ciphertext that opens to the committed key is the artifact's own, and the
\* agent has derived the key that sealed it from the modulus, the steps and the
\* salt that it was sealed with.
LEMMA OpensItsOwn ==
    ASSUME NEW a, Opens(a),
           NEW i \in 1 .. Len(runs), a.mission = Artifact(i),
           NEW j \in 1 .. Len(runs), a.ct = Sealed(j)
    PROVE  i = j /\ Y(a.n, a.mission.t) = Y(runs[i].n, runs[i].t) /\ a.salt = runs[i].salt
PROOF
  <1>1. a.ct.key = << Y(runs[j].n, runs[j].t), runs[j].salt >> /\ a.ct.plaintext = << "sk", j >>
    BY DEF Sealed, Encrypt, DeriveKey
  <1>2. a.mission.sk_commit = << "SecretKey", << "sk", i >> >>
    BY DEF Artifact, Hash
  <1>3. << "SecretKey", << "sk", j >> >> = << "SecretKey", << "sk", i >> >>
    BY <1>1, <1>2 DEF Opens, Hash, Decrypt
  <1>4. i = j
    BY <1>3
  <1>5. a.ct.key = << Y(a.n, a.mission.t), a.salt >>
    BY DEF Opens, Authenticates, DerivedKey, DeriveKey
  <1>6. << Y(runs[j].n, runs[j].t), runs[j].salt >> = << Y(a.n, a.mission.t), a.salt >>
    BY <1>1, <1>5
  <1>7. Y(runs[j].n, runs[j].t) = Y(a.n, a.mission.t) /\ runs[j].salt = a.salt
    BY <1>6
  <1> QED BY <1>4, <1>7

\* A proof that was made from what was opened verifies.
LEMMA ProofVerifies ==
    ASSUME AgentInv, Prove, CheckShape(Witness(agent))
    PROVE  AttestationVerifies'
PROOF
  <1>0. agent.at = "prove"
    BY DEF Prove
  <1>1. PICK i \in 1 .. Len(runs) : agent.mission = Artifact(i)
    BY <1>0 DEF AgentInv, HasMission, HasCt, HasOpened
  <1>2. PICK j \in 1 .. Len(runs) : agent.ct = Sealed(j)
    BY <1>0 DEF AgentInv, HasMission, HasCt, HasOpened
  <1>3. Opens(agent)
    BY <1>0 DEF AgentInv, HasMission, HasCt, HasOpened
  <1>4. i = j /\ Y(agent.n, agent.mission.t) = Y(runs[i].n, runs[i].t)
    BY <1>1, <1>2, <1>3, OpensItsOwn
  <1> DEFINE w == Witness(agent)
             inputs == ToPublicInputs(agent.mission, Hash("ContainmentLedger", Terminal))
  <1>5. agent' = [at |-> "attested", mission |-> agent.mission, proof |-> ProveErasure(agent.key, w),
                  public_inputs |-> inputs, verifying_key |-> agent.key]
    BY DEF Prove
  <1>6. /\ w.y = Y(agent.n, agent.mission.t) /\ w.salt = agent.salt /\ w.ct = agent.ct
        /\ w.sk = Decrypt(DerivedKey(agent), agent.ct)
        /\ w.mission_digest = agent.mission.mission_id /\ w.containment = Terminal
    BY DEF Witness
  <1>7. /\ inputs.y_commit = agent.mission.y_commit /\ inputs.ct_commit = agent.mission.ct_commit
        /\ inputs.sk_commit = agent.mission.sk_commit
        /\ inputs.mission_commit = agent.mission.mission_commit
        /\ inputs.containment_commit = Hash("ContainmentLedger", Terminal)
        /\ inputs = [y_commit |-> inputs.y_commit, ct_commit |-> inputs.ct_commit,
                     sk_commit |-> inputs.sk_commit, mission_commit |-> inputs.mission_commit,
                     containment_commit |-> inputs.containment_commit]
    BY DEF ToPublicInputs
  <1>8. /\ agent.mission.y_commit = Hash("VdfOutput", Y(runs[i].n, runs[i].t))
        /\ agent.mission.ct_commit = Hash("Ciphertext", Sealed(i))
        /\ agent.mission.mission_commit = Hash("MissionId", agent.mission.mission_id)
    BY <1>1 DEF Artifact
  <1> HIDE DEF w, inputs
  <1>9. KnowsCommitted(w, inputs)
    BY <1>2, <1>4, <1>6, <1>7, <1>8 DEF KnowsCommitted
  <1>10. OpensToCommitted(w, inputs)
    BY <1>3, <1>6, <1>7 DEF OpensToCommitted, Opens, DerivedKey
  <1>11. RanContained(w, inputs)
    BY <1>6, <1>7, <1>8 DEF RanContained
  <1>12. DerivePublicInputs(w) = inputs
    BY <1>7, <1>9, <1>10, <1>11
    DEF DerivePublicInputs, KnowsCommitted, OpensToCommitted, RanContained
  <1>13. /\ agent'.proof.key = agent'.verifying_key /\ agent'.proof.witness = w
         /\ agent'.public_inputs = inputs
    BY <1>5 DEF ProveErasure
  <1> QED BY <1>9, <1>10, <1>11, <1>12, <1>13
          DEF AttestationVerifies, VerifyErasure, ErasureCircuit
\* A file that is there holds what some run has put into it.
LEMMA ReadIsContents ==
    ASSUME DiskInv, NEW f \in File, disk[f].run # 0
    PROVE  disk[f].run \in 1 .. Len(runs) /\ Read(f) = Contents(disk[f].run)[f]
PROOF
  <1>1. disk[f].run \in Nat /\ disk[f].run <= Len(runs) /\ Len(runs) \in Nat
    BY DEF DiskInv, FileState
  <1> QED BY <1>1 DEF Read

\* The agent goes on, with the next thing to read.
GoesOn(stage, name, value) ==
    /\ agent.at \in HasMission /\ stage \in HasMission
    /\ name \notin {"at", "mission"}
    /\ Fields(stage) = Fields(agent.at) \cup {name}
    /\ stage \in HasCt => agent.at \in HasCt \/ name = "ct"
    /\ name = "ct" => \E j \in 1 .. Len(runs) : value = Sealed(j)
    /\ stage \in HasOpened => agent.at \in HasOpened /\ name \notin {"ct", "salt", "n"}
    /\ agent' = Advance(stage, name, value)
    /\ UNCHANGED runs

\* It keeps what it has.
LEMMA Advances ==
    ASSUME AgentInv, NEW stage, NEW name, NEW value, GoesOn(stage, name, value)
    PROVE  AgentInv' /\ agent'.at = stage /\ agent'[name] = value
PROOF
  <1> USE DEF GoesOn
  <1>1. /\ "at" \in Fields(agent.at)
        /\ agent.at \in HasMission => "mission" \in Fields(agent.at)
        /\ agent.at \in HasCt => "ct" \in Fields(agent.at)
        /\ agent.at \in HasOpened => "salt" \in Fields(agent.at) /\ "n" \in Fields(agent.at)
    BY DEF Fields, HasMission, HasCt, HasOpened
  <1>2. /\ agent' = [x \in Fields(stage) |-> agent'[x]]
        /\ agent'.at = stage /\ agent'[name] = value
        /\ \A x \in Fields(agent.at) \ {"at", name} : agent'[x] = agent[x]
    <2> DEFINE D == Fields(agent.at)
    <2>1. agent = [x \in D |-> agent[x]] /\ "at" \in D /\ Fields(stage) = D \cup {name}
      BY <1>1 DEF AgentInv
    <2> HIDE DEF D
    <2>2. DOMAIN agent = D
      BY <2>1
    <2>3. agent' = [x \in D \cup {name} |->
                      CASE x = "at" -> stage [] x = name -> value [] OTHER -> agent[x]]
      BY <2>2 DEF Advance
    <2>4. /\ agent' = [x \in D \cup {name} |-> agent'[x]]
          /\ agent'.at = stage /\ agent'[name] = value
          /\ \A x \in D \ {"at", name} : agent'[x] = agent[x]
      BY <2>1, <2>3
    <2> QED BY <2>1, <2>4 DEF D
  <1>3. \A i \in 1 .. Len(runs) : Artifact(i)' = Artifact(i) /\ Sealed(i)' = Sealed(i)
    BY DEF Artifact, Sealed
  <1>4. \E i \in 1 .. Len(runs) : agent'.mission = Artifact(i)
    BY <1>1, <1>2 DEF AgentInv
  <1>5. stage \in HasCt => \E j \in 1 .. Len(runs) : agent'.ct = Sealed(j)
    BY <1>1, <1>2 DEF AgentInv
  <1>6. stage \in HasOpened => Opens(agent')
    <2>1. SUFFICES ASSUME stage \in HasOpened PROVE Opens(agent')
      OBVIOUS
    <2>2. agent.at \in HasOpened /\ agent.at \in HasCt /\ Opens(agent)
      BY <2>1 DEF AgentInv, HasCt
    <2>3. agent'.mission = agent.mission /\ agent'.ct = agent.ct
          /\ agent'.salt = agent.salt /\ agent'.n = agent.n
      BY <1>1, <1>2, <2>1, <2>2
    <2> QED BY <2>2, <2>3 DEF Opens, DerivedKey
  <1> QED BY <1>2, <1>3, <1>4, <1>5, <1>6 DEF AgentInv

\* The next stage, with nothing more.
LEMMA MovesOn ==
    ASSUME AgentInv, UNCHANGED runs, NEW stage,
           \/ agent.at = "open" /\ stage = "opened" /\ Opens(agent)
           \/ agent.at = "opened" /\ stage = "setup"
           \/ agent.at = "setup" /\ stage = "saving",
           agent' = [agent EXCEPT !.at = stage]
    PROVE  AgentInv' /\ agent'.at = stage
PROOF
  <1>1. Fields(agent.at) = {"at", "mission", "ct", "salt", "n"} /\ Fields(stage) = Fields(agent.at)
    BY DEF Fields
  <1>2. agent.at \in HasCt /\ agent.at \in HasMission /\ stage \in HasMission /\ Opens(agent)
    BY DEF AgentInv, HasMission, HasCt, HasOpened
  <1>3. /\ agent' = [x \in Fields(stage) |-> agent'[x]]
        /\ agent'.at = stage
        /\ agent'.mission = agent.mission /\ agent'.ct = agent.ct
        /\ agent'.salt = agent.salt /\ agent'.n = agent.n
    BY <1>1 DEF AgentInv
  <1>4. \A i \in 1 .. Len(runs) : Artifact(i)' = Artifact(i) /\ Sealed(i)' = Sealed(i)
    BY DEF Artifact, Sealed
  <1>5. Opens(agent')
    BY <1>2, <1>3 DEF Opens, DerivedKey
  <1> QED BY <1>2, <1>3, <1>4, <1>5 DEF AgentInv

\* A process that ends or gives up has nothing.
LEMMA HasNothing ==
    ASSUME agent' \in {Down, Erased}
    PROVE  AgentInv'
PROOF
  <1>1. agent' = [at |-> "down"] \/ agent' = [at |-> "erased"]
    BY DEF Down, Erased
  <1>2. Fields("down") = {"at"} /\ Fields("erased") = {"at"}
    BY DEF Fields
  <1>3. agent'.at \in {"down", "erased"} /\ agent' = [x \in Fields(agent'.at) |-> agent'[x]]
    BY <1>1, <1>2
  <1>4. "down" \notin HasMission /\ "erased" \notin HasMission /\ HasCt \subseteq HasMission
        /\ HasOpened \subseteq HasMission
    BY DEF HasMission, HasCt, HasOpened
  <1> QED BY <1>3, <1>4 DEF AgentInv

\* Nothing that happens to the files changes what has been read.
LEMMA KeepsWhatItHas ==
    ASSUME AgentInv, runs \in Seq(Choices), UNCHANGED agent,
           \/ UNCHANGED runs
           \/ \E choice \in Choices : runs' = Append(runs, choice)
    PROVE  AgentInv'
PROOF
  <1>1. \A i \in 1 .. Len(runs) :
            Artifact(i)' = Artifact(i) /\ Sealed(i)' = Sealed(i) /\ i \in 1 .. Len(runs')
    <2>1. CASE UNCHANGED runs
      BY <2>1 DEF Artifact, Sealed
    <2>2. CASE \E choice \in Choices : runs' = Append(runs, choice)
      BY <2>2, RunsAreKept
    <2> QED BY <2>1, <2>2
  <1> QED BY <1>1 DEF AgentInv

LEMMA AgentStep ==
    ASSUME DiskInv, AgentInv, [Next]_vars
    PROVE  AgentInv'
PROOF
  <1>0. runs \in Seq(Choices) /\ Len(runs) \in Nat
    BY DEF DiskInv
  <1>1. ASSUME NEW n \in Generated(Len(runs) + 1) \cup Given(Len(runs) + 1),
               NEW salt \in {Beacon, << "salt", Len(runs) + 1 >>}, NEW t \in Steps,
               Provision(n, salt, t)
        PROVE  AgentInv'
    <2>1. [n |-> n, salt |-> salt, t |-> t] \in Choices
      BY <1>0 DEF Choices
    <2> QED BY <1>0, <1>1, <2>1, KeepsWhatItHas DEF Provision
  <1>2. CASE \/ WriteOutput \/ Crash \/ (\E f \in {"ct", "salt"} : Chmod600(f))
             \/ (\E f \in {"cert", "ct"} : Remove(f)) \/ RemoveTornKey \/ UNCHANGED vars
    <2>1. UNCHANGED << agent, runs >>
      BY <1>2 DEF WriteOutput, Crash, Chmod600, Remove, RemoveTornKey, mission_files, vars
    <2> QED BY <1>0, <2>1, KeepsWhatItHas
  <1>3. CASE Start
    <2>1. CASE disk["mission"].run # 0
      <3>1. agent' = [at |-> "ct", mission |-> Read("mission")] /\ runs' = runs
        BY <1>3, <2>1 DEF Start, world, mission_files
      <3>2. "mission" \in File
        BY DEF File
      <3>3. PICK i \in 1 .. Len(runs) : Read("mission") = Artifact(i)
        BY <2>1, <3>2, ReadIsContents DEF Contents
      <3>4. Artifact(i)' = Artifact(i)
        BY <3>1 DEF Artifact, Sealed
      <3>5. Fields("ct") = {"at", "mission"}
        BY DEF Fields
      <3>6. "ct" \in HasMission /\ "ct" \notin HasCt /\ "ct" \notin HasOpened
        BY DEF HasMission, HasCt, HasOpened
      <3>7. agent'.at = "ct" /\ agent'.mission = Artifact(i)
            /\ agent' = [x \in {"at", "mission"} |-> agent'[x]]
        BY <3>1, <3>3
      <3> QED BY <3>1, <3>4, <3>5, <3>6, <3>7 DEF AgentInv
    <2>2. CASE disk["mission"].run = 0
      BY <1>3, <2>2, HasNothing DEF Start
    <2> QED BY <2>1, <2>2
  <1>4. CASE AgentEnds
    BY <1>4, HasNothing DEF AgentEnds
  <1>5. CASE LoadCt
    <2>1. agent.at = "ct" /\ UNCHANGED runs
      BY <1>5 DEF LoadCt, world, mission_files
    <2>2. CASE ReadSecretFile("ct") /\ disk["ct"].run # 0
      <3>1. agent' = Advance("salt", "ct", Read("ct"))
        BY <1>5, <2>2 DEF LoadCt
      <3>2. \E j \in 1 .. Len(runs) : Read("ct") = Sealed(j)
        <4>1. "ct" \in File
          BY DEF File
        <4> QED BY <2>2, <4>1, ReadIsContents DEF Contents
      <3>3. Fields("salt") = Fields(agent.at) \cup {"ct"}
        BY <2>1 DEF Fields
      <3>4. "salt" \in HasMission /\ "salt" \notin HasOpened /\ agent.at \in HasMission
        BY <2>1 DEF HasMission, HasCt, HasOpened
      <3>7. GoesOn("salt", "ct", Read("ct"))
        BY <2>1, <3>1, <3>2, <3>3, <3>4 DEF GoesOn
      <3> QED BY <3>7, Advances
    <2>3. CASE ~(ReadSecretFile("ct") /\ disk["ct"].run # 0)
      BY <1>5, <2>3, HasNothing DEF LoadCt
    <2> QED BY <2>2, <2>3
  <1>6. CASE LoadSalt
    <2>1. agent.at = "salt" /\ UNCHANGED runs
      BY <1>6 DEF LoadSalt, world, mission_files
    <2>2. CASE ReadSecretFile("salt")
      <3>1. agent' = Advance("cert", "salt", Read("salt"))
        BY <1>6, <2>2 DEF LoadSalt
      <3>2. Fields("cert") = Fields(agent.at) \cup {"salt"}
        BY <2>1 DEF Fields
      <3>3. "cert" \in HasMission /\ "cert" \notin HasOpened
            /\ agent.at \in HasMission /\ agent.at \in HasCt
        BY <2>1 DEF HasMission, HasCt, HasOpened
      <3>7. GoesOn("cert", "salt", Read("salt"))
        BY <2>1, <3>1, <3>2, <3>3 DEF GoesOn
      <3> QED BY <3>7, Advances
    <2>3. CASE ~ReadSecretFile("salt")
      BY <1>6, <2>3, HasNothing DEF LoadSalt
    <2> QED BY <2>2, <2>3
  <1>7. CASE LoadCert
    <2>1. agent.at = "cert" /\ UNCHANGED runs
      BY <1>7 DEF LoadCert, world, mission_files
    <2>2. CASE agent' = Advance("open", "n", Certificate)
      <3>1. Fields("open") = Fields(agent.at) \cup {"n"}
        BY <2>1 DEF Fields
      <3>2. "open" \in HasMission /\ "open" \notin HasOpened
            /\ agent.at \in HasMission /\ agent.at \in HasCt
        BY <2>1 DEF HasMission, HasCt, HasOpened
      <3>7. GoesOn("open", "n", Certificate)
        BY <2>1, <2>2, <3>1, <3>2 DEF GoesOn
      <3> QED BY <3>7, Advances
    <2>3. CASE agent' = Erased
      BY <2>3, HasNothing
    <2> QED BY <1>7, <2>2, <2>3 DEF LoadCert
  <1>8. CASE Open
    <2>1. agent.at = "open" /\ UNCHANGED runs
      BY <1>8 DEF Open, world, mission_files
    <2>2. CASE Opens(agent)
      BY <1>8, <2>1, <2>2, MovesOn DEF Open
    <2>3. CASE ~Opens(agent)
      BY <1>8, <2>3, HasNothing DEF Open
    <2> QED BY <2>2, <2>3
  <1>9. CASE LoadProver
    <2>1. agent.at = "opened" /\ UNCHANGED runs
      BY <1>9 DEF LoadProver, world, mission_files
    <2>2. CASE agent' = [agent EXCEPT !.at = "setup"]
      BY <2>1, <2>2, MovesOn
    <2>3. CASE agent' = Erased
      BY <2>3, HasNothing
    <2>4. CASE agent' = Advance("prove", "key", proving_key.setup)
      <3>1. Fields("prove") = Fields(agent.at) \cup {"key"}
        BY <2>1 DEF Fields
      <3>2. "prove" \in HasMission /\ agent.at \in HasMission /\ agent.at \in HasCt
            /\ agent.at \in HasOpened
        BY <2>1 DEF HasMission, HasCt, HasOpened
      <3>7. GoesOn("prove", "key", proving_key.setup)
        BY <2>1, <2>4, <3>1, <3>2 DEF GoesOn
      <3> QED BY <3>7, Advances
    <2> QED BY <1>9, <2>2, <2>3, <2>4 DEF LoadProver
  <1>10. CASE SetUp
    BY <1>10, MovesOn DEF SetUp, mission_files
  <1>11. CASE SaveKey
    <2>1. /\ agent.at = "saving" /\ UNCHANGED runs
          /\ agent' = Advance("prove", "key", setups)
      BY <1>11 DEF SaveKey, mission_files
    <2>2. Fields("prove") = Fields(agent.at) \cup {"key"}
      BY <2>1 DEF Fields
    <2>3. "prove" \in HasMission /\ agent.at \in HasMission /\ agent.at \in HasCt
          /\ agent.at \in HasOpened
      BY <2>1 DEF HasMission, HasCt, HasOpened
    <2>7. GoesOn("prove", "key", setups)
      BY <2>1, <2>2, <2>3 DEF GoesOn
    <2> QED BY <2>7, Advances
  <1>12. CASE Prove
    <2>1. CASE CheckShape(Witness(agent))
      <3>1. PICK proof, public_inputs :
               agent' = [at |-> "attested", mission |-> agent.mission, proof |-> proof,
                         public_inputs |-> public_inputs, verifying_key |-> agent.key]
        BY <1>12, <2>1 DEF Prove
      <3>2. Fields("attested") = {"at", "mission", "proof", "public_inputs", "verifying_key"}
        BY DEF Fields
      <3>3. agent'.at = "attested" /\ agent' = [x \in Fields("attested") |-> agent'[x]]
        BY <3>1, <3>2
      <3>4. "attested" \notin HasMission /\ "attested" \notin HasCt /\ "attested" \notin HasOpened
        BY DEF HasMission, HasCt, HasOpened
      <3> QED BY <3>3, <3>4 DEF AgentInv
    <2>2. CASE ~CheckShape(Witness(agent))
      BY <1>12, <2>2, HasNothing DEF Prove
    <2> QED BY <2>1, <2>2
  <1> QED BY <1>1, <1>2, <1>3, <1>4, <1>5, <1>6, <1>7, <1>8, <1>9, <1>10, <1>11, <1>12 DEF Next

-------------------------------------------------------------------------------
(* The proving key.                                                        *)

\* Where the agent is after a step that goes on.
LEMMA AgentIsAt ==
    ASSUME AgentInv, NEW stage
    PROVE  /\ [agent EXCEPT !.at = stage].at = stage
           /\ \A name, value :
                 name # "at" => /\ Advance(stage, name, value).at = stage
                                /\ Advance(stage, name, value)[name] = value
PROOF
  <1>1. "at" \in Fields(agent.at) /\ agent = [x \in Fields(agent.at) |-> agent[x]]
    BY DEF AgentInv, Fields, HasMission, HasCt, HasOpened
  <1>2. "at" \in DOMAIN agent
    BY <1>1
  <1>3. [agent EXCEPT !.at = stage].at = stage
    BY <1>1
  <1>4. ASSUME NEW name, NEW value, name # "at"
        PROVE  /\ Advance(stage, name, value).at = stage
               /\ Advance(stage, name, value)[name] = value
    BY <1>2, <1>4 DEF Advance
  <1> QED BY <1>3, <1>4

LEMMA KeyStep ==
    ASSUME AgentInv, KeyInv, [Next]_vars
    PROVE  KeyInv'
PROOF
  <1> DEFINE AtKey == {"setup", "saving", "prove"}
  <1>1. ASSUME UNCHANGED keys, agent' = agent \/ agent'.at \notin AtKey
        PROVE  KeyInv'
    BY <1>1 DEF KeyInv, keys
  <1>2. CASE \/ \E n \in Generated(Len(runs) + 1) \cup Given(Len(runs) + 1),
                   salt \in {Beacon, << "salt", Len(runs) + 1 >>}, t \in Steps :
                      Provision(n, salt, t)
             \/ WriteOutput \/ Crash \/ (\E f \in {"ct", "salt"} : Chmod600(f))
             \/ (\E f \in {"cert", "ct"} : Remove(f)) \/ UNCHANGED vars
    <2>1. UNCHANGED << agent, keys >>
      BY <1>2 DEF Provision, WriteOutput, Crash, Chmod600, Remove, keys, vars
    <2> QED BY <1>1, <2>1
  <1>3. Down.at \notin AtKey /\ Erased.at \notin AtKey
    BY DEF Down, Erased
  <1>4. CASE Start \/ AgentEnds
    <2>1. UNCHANGED keys
      BY <1>4 DEF Start, AgentEnds, world
    <2>2. agent'.at \in {"down", "ct"}
      BY <1>4 DEF Start, AgentEnds, Down
    <2> QED BY <1>1, <2>1, <2>2
  <1>5. CASE LoadCt \/ LoadSalt \/ LoadCert \/ Open
    <2>1. UNCHANGED keys
      BY <1>5 DEF LoadCt, LoadSalt, LoadCert, Open, world
    <2>2. \/ agent' = Erased
          \/ agent' = Advance("salt", "ct", Read("ct"))
          \/ agent' = Advance("cert", "salt", Read("salt"))
          \/ agent' = Advance("open", "n", Certificate)
          \/ agent' = [agent EXCEPT !.at = "opened"]
      BY <1>5 DEF LoadCt, LoadSalt, LoadCert, Open
    <2>3. agent'.at \notin AtKey
      <3>1. agent' = [agent EXCEPT !.at = "opened"] => agent'.at = "opened"
        BY AgentIsAt
      <3>2. /\ Advance("salt", "ct", Read("ct")).at = "salt"
            /\ Advance("cert", "salt", Read("salt")).at = "cert"
            /\ Advance("open", "n", Certificate).at = "open"
        BY AgentIsAt
      <3> QED BY <1>3, <2>2, <3>1, <3>2
    <2> QED BY <1>1, <2>1, <2>3
  <1>6. CASE LoadProver
    <2>1. UNCHANGED keys
      BY <1>6 DEF LoadProver, world
    <2>2. CASE proving_key = NoKey
      <3>1. agent' = [agent EXCEPT !.at = "setup"]
        BY <1>6, <2>2 DEF LoadProver, NoKey, TornKey
      <3>2. agent'.at = "setup"
        BY <3>1, AgentIsAt
      <3> QED BY <2>1, <2>2, <3>2 DEF KeyInv, keys
    <2>3. CASE proving_key = TornKey
      <3>1. agent' = Erased
        BY <1>6, <2>3 DEF LoadProver, NoKey, TornKey
      <3> QED BY <1>1, <1>3, <2>1, <3>1
    <2>4. CASE proving_key \in {WholeKey(k) : k \in 1 .. setups}
      <3>1. PICK k \in 1 .. setups : proving_key = WholeKey(k)
        BY <2>4
      <3>2. k # 0 /\ k = proving_key.setup
        BY <3>1 DEF KeyInv, WholeKey
      <3>3. proving_key # NoKey /\ proving_key # TornKey
        BY <3>1, <3>2 DEF WholeKey, NoKey, TornKey
      <3>4. agent' = Advance("prove", "key", k)
        BY <1>6, <3>2, <3>3 DEF LoadProver
      <3>5. agent'.at = "prove" /\ agent'.key = k
        BY <3>4, AgentIsAt
      <3> QED BY <2>1, <3>1, <3>5 DEF KeyInv, keys
    <2> QED BY <2>2, <2>3, <2>4 DEF KeyInv
  <1>7. CASE SetUp
    <2>1. agent.at = "setup" /\ setups' = setups + 1 /\ proving_key' = TornKey
          /\ published' = published /\ agent' = [agent EXCEPT !.at = "saving"]
      BY <1>7 DEF SetUp
    <2>2. agent'.at = "saving"
      BY <2>1, AgentIsAt
    <2>3. \A k : WholeKey(k) # NoKey
      BY DEF WholeKey, NoKey
    <2>4. published = {}
      BY <2>1, <2>3 DEF KeyInv
    <2>5. setups' \in Nat /\ setups' # 0
      BY <2>1 DEF KeyInv
    <2> QED BY <2>1, <2>2, <2>4, <2>5 DEF KeyInv
  <1>8. CASE SaveKey
    <2>1. agent.at = "saving" /\ setups' = setups /\ proving_key' = WholeKey(setups)
          /\ published' = published /\ agent' = Advance("prove", "key", setups)
      BY <1>8 DEF SaveKey
    <2>2. agent'.at = "prove" /\ agent'.key = setups
      BY <2>1, AgentIsAt
    <2>3. \A k \in 1 .. setups : WholeKey(k) # TornKey
      BY DEF WholeKey, TornKey, KeyInv
    <2>4. published = {}
      BY <2>1, <2>3 DEF KeyInv
    <2>5. setups \in 1 .. setups
      BY <2>1 DEF KeyInv
    <2> QED BY <2>1, <2>2, <2>4, <2>5 DEF KeyInv
  <1>9. CASE Prove
    <2>1. agent.at = "prove" /\ proving_key' = proving_key /\ setups' = setups
          /\ published' \in {published, published \cup {agent.key}}
      BY <1>9 DEF Prove
    <2>2. agent'.at \notin AtKey
      <3>1. \/ agent' = Erased
            \/ agent' = [at |-> "attested", mission |-> agent.mission,
                         proof |-> ProveErasure(agent.key, Witness(agent)),
                         public_inputs |-> ToPublicInputs(agent.mission,
                                               Hash("ContainmentLedger", Terminal)),
                         verifying_key |-> agent.key]
        BY <1>9 DEF Prove
      <3> QED BY <1>3, <3>1
    <2>3. PICK k \in 1 .. setups : proving_key = WholeKey(k) /\ k = agent.key
      BY <2>1 DEF KeyInv
    <2>4. published' # {} => published' = {k}
      <3>1. published # {} => published = {k}
        BY <2>3 DEF KeyInv, WholeKey
      <3> QED BY <2>1, <2>3, <3>1
    <2> QED BY <2>1, <2>2, <2>3, <2>4 DEF KeyInv
  <1>10. CASE RemoveTornKey
    <2>1. agent.at # "saving" /\ proving_key = TornKey /\ proving_key' = NoKey
          /\ UNCHANGED << agent, setups, published >>
      BY <1>10 DEF RemoveTornKey
    <2>2. \A k \in 1 .. setups : WholeKey(k) # TornKey
      BY DEF WholeKey, TornKey, KeyInv
    <2>3. published = {}
      BY <2>1, <2>2 DEF KeyInv
    <2>4. agent.at # "prove"
      BY <2>1, <2>2 DEF KeyInv
    <2> QED BY <2>1, <2>3, <2>4 DEF KeyInv
  <1> QED BY <1>2, <1>4, <1>5, <1>6, <1>7, <1>8, <1>9, <1>10 DEF Next

-------------------------------------------------------------------------------
(* The theorems.                                                           *)

LEMMA InitPInv == Init => PInv
PROOF
  <1> SUFFICES ASSUME Init PROVE PInv
    OBVIOUS
  <1> USE DEF Init
  <1>1. DiskInv
    <2>1. runs \in Seq(Choices) /\ Len(runs) = 0 /\ todo \in Seq({})
      OBVIOUS
    <2>2. Len(todo) = 0
      OBVIOUS
    <2>3. disk \in [File -> FileState] /\ \A f \in File : disk[f].run <= Len(runs)
      BY <2>1 DEF Absent, FileState
    <2>4. shipped = 0 /\ todo = << >>
      OBVIOUS
    <2> HIDE DEF Init
    <2> QED BY <2>1, <2>2, <2>3, <2>4 DEF DiskInv, OUTPUTS
  <1>2. agent.at = "down" /\ agent = [x \in {"at"} |-> agent[x]]
    BY DEF Down
  <1>3. AgentInv
    BY <1>2 DEF AgentInv, Fields, HasMission, HasCt, HasOpened
  <1>4. KeyInv
    BY <1>2 DEF KeyInv
  <1>5. AttestationVerifies
    BY <1>2 DEF AttestationVerifies
  <1> QED BY <1>1, <1>3, <1>4, <1>5 DEF PInv

\* An attestation is only made by Prove.
LEMMA AttestationStep ==
    ASSUME AgentInv, AttestationVerifies, [Next]_vars
    PROVE  AttestationVerifies'
PROOF
  <1>1. CASE UNCHANGED agent
    BY <1>1 DEF AttestationVerifies
  <1>2. CASE Prove
    <2>1. CASE CheckShape(Witness(agent))
      BY <1>2, <2>1, ProofVerifies
    <2>2. CASE ~CheckShape(Witness(agent))
      BY <1>2, <2>2 DEF Prove, Erased, AttestationVerifies
    <2> QED BY <2>1, <2>2
  <1>3. CASE Start \/ AgentEnds
    <2>1. agent'.at \in {"down", "ct"}
      BY <1>3 DEF Start, AgentEnds, Down
    <2> QED BY <2>1 DEF AttestationVerifies
  <1>4. CASE LoadCt \/ LoadSalt \/ LoadCert \/ Open \/ LoadProver \/ SetUp \/ SaveKey
    <2>1. \/ agent' = Erased
          \/ agent' = [agent EXCEPT !.at = "opened"]
          \/ agent' = [agent EXCEPT !.at = "setup"]
          \/ agent' = [agent EXCEPT !.at = "saving"]
          \/ agent' = Advance("salt", "ct", Read("ct"))
          \/ agent' = Advance("cert", "salt", Read("salt"))
          \/ agent' = Advance("open", "n", Certificate)
          \/ agent' = Advance("prove", "key", proving_key.setup)
          \/ agent' = Advance("prove", "key", setups)
      BY <1>4 DEF LoadCt, LoadSalt, LoadCert, Open, LoadProver, SetUp, SaveKey
    <2>2. /\ [agent EXCEPT !.at = "opened"].at = "opened"
          /\ [agent EXCEPT !.at = "setup"].at = "setup"
          /\ [agent EXCEPT !.at = "saving"].at = "saving"
      BY AgentIsAt
    <2>3. /\ Advance("salt", "ct", Read("ct")).at = "salt"
          /\ Advance("cert", "salt", Read("salt")).at = "cert"
          /\ Advance("open", "n", Certificate).at = "open"
          /\ Advance("prove", "key", proving_key.setup).at = "prove"
          /\ Advance("prove", "key", setups).at = "prove"
      BY AgentIsAt
    <2>4. Erased.at = "erased"
      BY DEF Erased
    <2>5. agent'.at \in {"erased", "opened", "setup", "saving", "salt", "cert", "open", "prove"}
      BY <2>1, <2>2, <2>3, <2>4, Zenon
    <2> QED BY <2>5 DEF AttestationVerifies
  <1>5. CASE \/ \E n \in Generated(Len(runs) + 1) \cup Given(Len(runs) + 1),
                   salt \in {Beacon, << "salt", Len(runs) + 1 >>}, t \in Steps :
                      Provision(n, salt, t)
             \/ WriteOutput \/ Crash \/ (\E f \in {"ct", "salt"} : Chmod600(f))
             \/ (\E f \in {"cert", "ct"} : Remove(f)) \/ RemoveTornKey \/ UNCHANGED vars
    <2>1. UNCHANGED agent
      BY <1>5 DEF Provision, WriteOutput, Crash, Chmod600, Remove, RemoveTornKey, vars
    <2> QED BY <1>1, <2>1
  <1> QED BY <1>2, <1>3, <1>4, <1>5 DEF Next

\* The four parts hold together, and each of their steps needs the ones before.
THEOREM ProvisioningInvariant == Spec => []PInv
PROOF
  <1>1. ASSUME PInv, [Next]_vars
        PROVE  PInv'
    BY <1>1, DiskStep, AgentStep, KeyStep, AttestationStep DEF PInv
  <1> QED BY <1>1, InitPInv, PTL DEF Spec

\* What the agent publishes convinces a verifier who holds the mission's artifact,
\* whatever files of whatever runs it was given, and although it compares nothing
\* but the key that it opened.
THEOREM AttestationsVerify == Spec => []AttestationVerifies
PROOF
  <1>1. PInv => AttestationVerifies
    BY DEF PInv
  <1> QED BY <1>1, ProvisioningInvariant, PTL

\* Every attestation of a host comes with one verifying key, whatever dies while the
\* proving key is saved and whoever cleans up after it.
THEOREM VerifyingKeyIsKept == Spec => []OneVerifyingKey
PROOF
  <1>1. PInv => OneVerifyingKey
    BY DEF PInv, KeyInv, OneVerifyingKey
  <1> QED BY <1>1, ProvisioningInvariant, PTL

\* The files of a completed run open, and what comes out of them is proved.
LEMMA WholeMissionStep ==
    ASSUME PInv, [Next]_vars, Whole, disk["salt"].mode = "0600",
           ValidateModulus(runs[shipped].n)
    PROVE  ~GivesUp
PROOF
  <1> SUFFICES ASSUME agent.at # "erased", agent'.at = "erased" PROVE FALSE
    BY DEF GivesUp
  <1>0. shipped # 0 /\ UpToDate /\ proving_key # TornKey
    BY DEF Whole
  <1>1. /\ \A f \in File : disk[f].run = shipped
        /\ disk["ct"].mode = "0600"
        /\ shipped \in 1 .. Len(runs)
    <2>1. shipped = Len(runs) /\ Reached(disk, Len(runs), OUTPUTS) /\ Len(runs) \in Nat
      BY <1>0 DEF PInv, DiskInv
    <2>2. \A f \in File : WrittenAt[f] <= 12
      BY DEF File, WrittenAt
    <2> QED BY <1>0, <2>1, <2>2 DEF Reached, OUTPUTS
  <1>2. \A f \in File : Read(f) = Contents(shipped)[f]
    BY <1>0, <1>1 DEF Read
  <1>3. /\ "mission" \in File /\ "ct" \in File /\ "salt" \in File /\ "cert" \in File
    BY DEF File
  <1>4. ASSUME agent.at \in {"open", "prove"}
        PROVE  /\ agent.mission = Artifact(shipped) /\ agent.ct = Sealed(shipped)
               /\ agent.salt = runs[shipped].salt /\ agent.n = runs[shipped].n
    <2>1. Past(1) /\ Past(2) /\ Past(3) /\ Past(4)
      BY <1>4, Stages DEF Past
    <2> QED BY <1>0, <1>2, <1>3, <2>1 DEF UpToDate, Contents
  <1>5. ASSUME agent.at \in {"open", "prove"}
        PROVE  Opens(agent)
    <2>1. agent.mission.t = runs[shipped].t
      BY <1>4, <1>5 DEF Artifact
    <2>2. DerivedKey(agent) = agent.ct.key /\ agent.ct.plaintext = << "sk", shipped >>
      BY <1>4, <1>5, <2>1 DEF DerivedKey, Sealed, Encrypt
    <2>3. agent.mission.sk_commit = Hash("SecretKey", << "sk", shipped >>)
      BY <1>4, <1>5 DEF Artifact
    <2> QED BY <2>2, <2>3 DEF Opens, Authenticates, Decrypt
  <1>6. runs[shipped] \in Choices /\ runs[shipped].n # Empty
    <2>1. runs[shipped] \in Choices
      BY <1>1 DEF PInv, DiskInv
    <2>2. PICK id \in Nat : runs[shipped].n \in Generated(id) \cup Given(id)
      BY <2>1 DEF Choices
    <2>3. ASSUME NEW n \in Generated(id) \cup Given(id)
          PROVE  n # << >>
      <3>1. CASE n \in [id : {id}, bits : {"narrow", "exact"}, smooth : {FALSE}]
        BY <3>1
      <3>2. CASE n \in [id : {id}, bits : {"exact", "wide"}, smooth : BOOLEAN]
        BY <3>2
      <3>3. CASE n = [id |-> 0, bits |-> "exact", smooth |-> FALSE]
        <4>1. DOMAIN n = {"id", "bits", "smooth"} /\ DOMAIN << >> = {}
          BY <3>3
        <4> QED BY <4>1
      <3> QED BY <3>1, <3>2, <3>3 DEF Generated, Given, RSA_2048
    <2> QED BY <2>1, <2>2, <2>3 DEF Empty
  <1>7. CASE LoadCt
    <2>1. ReadSecretFile("ct") /\ disk["ct"].run # 0
      BY <1>0, <1>1, <1>3 DEF ReadSecretFile, Absent
    <2>2. agent' = Advance("salt", "ct", Read("ct"))
      BY <1>7, <2>1 DEF LoadCt
    <2>3. agent'.at = "salt"
      BY <2>2, AgentIsAt DEF PInv
    <2> QED BY <2>3
  <1>8. CASE LoadSalt
    <2>1. ReadSecretFile("salt")
      BY DEF ReadSecretFile, Absent
    <2>2. agent' = Advance("cert", "salt", Read("salt"))
      BY <1>8, <2>1 DEF LoadSalt
    <2>3. agent'.at = "cert"
      BY <2>2, AgentIsAt DEF PInv
    <2> QED BY <2>3
  <1>9. CASE LoadCert
    <2>1. Certificate = runs[shipped].n
      <3>1. disk["cert"] # Absent
        BY <1>0, <1>1, <1>3 DEF Absent
      <3> QED BY <1>2, <1>3, <3>1 DEF Certificate, Contents
    <2>2. agent' = Advance("open", "n", Certificate)
      BY <1>6, <1>9, <2>1 DEF LoadCert
    <2>3. agent'.at = "open"
      BY <2>2, AgentIsAt DEF PInv
    <2> QED BY <2>3
  <1>10. CASE Open
    <2>1. agent.at = "open"
      BY <1>10 DEF Open
    <2>2. Opens(agent)
      BY <1>5, <2>1
    <2>3. agent' = [agent EXCEPT !.at = "opened"]
      BY <1>10, <2>2 DEF Open
    <2>4. agent'.at = "opened"
      BY <2>3, AgentIsAt DEF PInv
    <2> QED BY <2>4
  <1>11. CASE LoadProver
    <2>1. \/ agent' = [agent EXCEPT !.at = "setup"]
          \/ agent' = Advance("prove", "key", proving_key.setup)
      BY <1>0, <1>11 DEF LoadProver
    <2>2. /\ [agent EXCEPT !.at = "setup"].at = "setup"
          /\ Advance("prove", "key", proving_key.setup).at = "prove"
      BY AgentIsAt DEF PInv
    <2> QED BY <2>1, <2>2
  <1>12. CASE SetUp \/ SaveKey
    <2>1. \/ agent' = [agent EXCEPT !.at = "saving"]
          \/ agent' = Advance("prove", "key", setups)
      BY <1>12 DEF SetUp, SaveKey
    <2>2. /\ [agent EXCEPT !.at = "saving"].at = "saving"
          /\ Advance("prove", "key", setups).at = "prove"
      BY AgentIsAt DEF PInv
    <2> QED BY <2>1, <2>2
  <1>13. CASE Prove
    <2>1. agent.at = "prove"
      BY <1>13 DEF Prove
    <2>2. agent.salt # Empty
      <3>2. runs[shipped].salt \in {Beacon} \cup {<< "salt", id >> : id \in Nat}
        BY <1>6 DEF Choices
      <3>3. \A id : << "salt", id >> # << >> /\ << "beacon" >> # << >>
        OBVIOUS
      <3>4. agent.salt = runs[shipped].salt
        BY <1>4, <2>1
      <3> QED BY <3>2, <3>3, <3>4 DEF Beacon, Empty
    <2>3. /\ Witness(agent).salt = agent.salt /\ Witness(agent).containment = Terminal
          /\ Witness(agent).y = Y(agent.n, agent.mission.t) /\ Witness(agent).ct = agent.ct
          /\ Witness(agent).sk = Decrypt(DerivedKey(agent), agent.ct)
      BY DEF Witness
    <2>4. CheckShape(Witness(agent))
      BY <1>5, <2>1, <2>2, <2>3 DEF CheckShape, Opens, DerivedKey
    <2>5. agent' = [at |-> "attested", mission |-> agent.mission,
                    proof |-> ProveErasure(agent.key, Witness(agent)),
                    public_inputs |-> ToPublicInputs(agent.mission,
                                          Hash("ContainmentLedger", Terminal)),
                    verifying_key |-> agent.key]
      BY <1>13, <2>4 DEF Prove
    <2> QED BY <2>5
  <1>14. CASE Start \/ AgentEnds
    BY <1>14 DEF Start, AgentEnds, Down
  <1>15. CASE \/ \E n \in Generated(Len(runs) + 1) \cup Given(Len(runs) + 1),
                    salt \in {Beacon, << "salt", Len(runs) + 1 >>}, t \in Steps :
                       Provision(n, salt, t)
              \/ WriteOutput \/ Crash \/ (\E f \in {"ct", "salt"} : Chmod600(f))
              \/ (\E f \in {"cert", "ct"} : Remove(f)) \/ RemoveTornKey \/ UNCHANGED vars
    <2>1. UNCHANGED agent
      BY <1>15 DEF Provision, WriteOutput, Crash, Chmod600, Remove, RemoveTornKey, vars
    <2> QED BY <2>1
  <1> QED BY <1>7, <1>8, <1>9, <1>10, <1>11, <1>12, <1>13, <1>14, <1>15 DEF Next

\* A whole mission is not wasted: as long as the files stay as a completed run left
\* them, salt.bin is restricted and no torn proving key is in the way, the agent does
\* not give up a mission whose modulus has 2048 bits and no small factor.
THEOREM WholeMissionsOpen == Spec => WholeMissionOpens
PROOF
  <1>1. PInv /\ [Next]_vars =>
          [Whole /\ disk["salt"].mode = "0600" /\ ValidateModulus(runs[shipped].n)
             => ~GivesUp]_vars
    BY WholeMissionStep
  <1> QED BY <1>1, ProvisioningInvariant, PTL DEF Spec, WholeMissionOpens
===============================================================================
