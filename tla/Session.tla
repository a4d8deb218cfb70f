------------------------------- MODULE Session -------------------------------
(***************************************************************************)
(* A session of readpanda: the profile it starts with, the clients made of *)
(* it, the switches to other profiles (internal/tui/app.go,                *)
(* contexts_view.go), and a DescribeTopic that goes on with the admin      *)
(* client it was given while the App closes that client under it.          *)
(***************************************************************************)
EXTENDS Profile, AdminClient

CONSTANTS
    CLIs,           \* command lines, with the environment
    Disks,          \* states of the rpk file
    MaxSwitches     \* bound: profile switches

ASSUME SwitchesAssumption == MaxSwitches \in Nat

\* What a profile of the rpk file says stems from it, and what is said by flag or
\* environment from there; either may leave anything out.
Logins(places) == {<<>>} \union {<<login>> : login \in [user : places, pass : places]}

RawProfiles(name) ==
    LET places == {"", name}
    IN  [name : {name}, brokers : Seq({name}), sasl : Logins(places),
         tls : {"absent", "empty", "on", "off"}, srAddresses : Seq({name}),
         basicAuth : Logins(places), srUser : places, srPass : places]

CommandLines ==
    LET places == {"", "flags"}
    IN  [profileName : STRING, brokers : Seq({"flags"}), saslUser : places,
         saslPass : places, tls : BOOLEAN, srURL : places, srUser : places,
         srPass : places]

ASSUME PlacesAssumption ==
    /\ CLIs \subseteq CommandLines
    /\ \A disk \in Disks :
          /\ Len(disk.profiles) \in Nat
          /\ DOMAIN disk.profiles = 1..Len(disk.profiles)
          /\ \A i \in DOMAIN disk.profiles :
                disk.profiles[i] \in RawProfiles(disk.profiles[i].name)

VARIABLES
    profiles,       \* those of App.cfg.ProfileFile, as it was read
    state,          \* "starting", "running" or "ended"
    prof,           \* App.prof, which the header shows
    admin,          \* App.admin: what it was made of, none before it is
    open,           \* ... and not closed
    registry,       \* App.registry, which App.decoder uses
    connected,      \* App.connected
    switching,      \* profileSwitchedMsgs on their way
    switches,       \* switches so far
    mine            \* the client of the DescribeTopic under way is still open

app == <<prof, admin, open, registry, connected>>
vars == <<profiles, state, app, switching, switches, mine, cluster, describing>>

Init ==
    /\ state = "starting" /\ profiles = <<>>
    /\ prof = EmptyProfile /\ admin = <<>> /\ open = FALSE
    /\ registry = <<>> /\ connected = FALSE
    /\ switching = <<>> /\ switches = 0 /\ mine = FALSE
    /\ AdminInit

\* The clients are one each, an open one exists, and messages and requests are
\* within bounds.
TypeOK ==
    /\ state \in {"starting", "running", "ended"}
    /\ open \in BOOLEAN /\ connected \in BOOLEAN /\ mine \in BOOLEAN
    /\ Len(admin) <= 1 /\ Len(registry) <= 1 /\ (open => admin # <<>>)
    /\ ToSet(switching) \subseteq ToSet(profiles)
    /\ switches \in 0..MaxSwitches /\ Len(switching) <= MaxSwitches
    /\ \A p \in Partitions : log[p].start <= log[p].end /\ log[p].end <= MaxOffset
    /\ leader \in [Partitions -> Brokers] /\ moves \in 0..MaxMoves
    /\ asking \in 0..Len(Requests)
    /\ asking > 1 => answers.leader \in [Partitions -> Brokers]
    /\ mine => asking # 0
    /\ state # "running" => asking = 0

\* main and NewApp.
Start(cli, file) ==
    /\ state = "starting" /\ profiles' = file.profiles
    /\ LET resolved == ResolveProfile(cli, file)
       IN  IF resolved = <<>> THEN state' = "ended" /\ UNCHANGED app
           ELSE /\ state' = "running" /\ prof' = resolved[1]
                /\ admin' = AdminOf(prof') /\ open' = TRUE
                /\ registry' = RegistryOf(prof') /\ connected' = TRUE
    /\ UNCHANGED <<switching, switches, mine, cluster, describing>>

\* Enter in the contexts view, on the row of any profile of the file.
Enter(i) ==
    /\ state = "running" /\ switches < MaxSwitches
    /\ switching' = Append(switching, profiles[i]) /\ switches' = switches + 1
    /\ UNCHANGED <<profiles, state, app, mine, cluster, describing>>

\* Mutant: the profile is taken over before there is a client for it.
SwitchFirst(p) ==
    /\ prof' = p /\ open' = (AdminOf(p) # <<>>) /\ connected' = (AdminOf(p) # <<>>)
    /\ IF AdminOf(p) = <<>> THEN UNCHANGED <<admin, registry>>
       ELSE admin' = AdminOf(p) /\ registry' = RegistryOf(p)

\* Mutant: the factory's error is not looked at.
SwitchUnchecked(p) ==
    /\ prof' = p /\ admin' = AdminOf(p) /\ open' = TRUE
    /\ registry' = RegistryOf(p) /\ connected' = TRUE

\* applyProfileSwitch: the old client is closed first; if there is no new one,
\* everything else stays.
Switch(p) ==
    IF AdminOf(p) = <<>>
    THEN open' = FALSE /\ connected' = FALSE /\ UNCHANGED <<prof, admin, registry>>
    ELSE /\ prof' = p /\ admin' = AdminOf(p) /\ open' = TRUE
         /\ registry' = RegistryOf(p) /\ connected' = TRUE

ProfileSwitched ==
    /\ state = "running" /\ switching # <<>>
    /\ Switch(Head(switching)) /\ switching' = Tail(switching)
    /\ mine' = FALSE
    /\ UNCHANGED <<profiles, state, switches, cluster, describing>>

\* loadDetail captures the admin client of the moment.
LoadDetail ==
    /\ state = "running" /\ BeginDescribe
    /\ mine' = open
    /\ UNCHANGED <<profiles, state, app, switching, switches>>

\* A request of a client that is closed fails, and so may one of an open one.
Describe ==
    /\ (mine /\ DescribeAnswered) \/ DescribeFails
    /\ mine' = (mine /\ asking' # 0)
    /\ UNCHANGED <<profiles, state, app, switching, switches>>

ClusterMoves ==
    /\ state = "running" /\ ClusterNext
    /\ UNCHANGED <<profiles, state, app, switching, switches, mine>>

\* A load has failed, loadDetail's or a list view's: Update drops the flag whether or
\* not the client is still open, and only a switch sets it again.
ErrorMsg ==
    /\ state = "running"
    /\ connected' = FALSE
    /\ UNCHANGED <<profiles, state, prof, admin, open, registry, switching, switches,
                   mine, cluster, describing>>

\* App.Close; a request under way ends with the process.
Quit ==
    /\ state = "running"
    /\ state' = "ended" /\ open' = FALSE
    /\ EndDescribe(NoDetail) /\ mine' = FALSE
    /\ UNCHANGED <<profiles, prof, admin, registry, connected, switching, switches>>

Next ==
    \/ (\E cli \in CLIs, disk \in Disks : Start(cli, LoadFrom(disk)))
    \/ (\E i \in DOMAIN profiles : Enter(i)) \/ ProfileSwitched
    \/ LoadDetail \/ Describe \/ ErrorMsg \/ ClusterMoves \/ Quit

Spec == Init /\ [][Next]_vars

-----------------------------------------------------------------------------
(* Properties *)

\* The clients are those of the profile in the header, whatever switches and loads
\* failed in between, and "connected" is only said of a client that is open.
ClientsAreShown ==
    state = "running" =>
        /\ admin = AdminOf(prof) /\ registry = RegistryOf(prof)
        /\ connected => open

\* What the clients log in with belongs to their brokers: an rpk profile's user
\* does not go with the brokers of --brokers, nor with the next profile's, and
\* only what was said by flag or environment for the registry is used with both.
OwnCredentials ==
    open => LET from == admin[1].brokers[1]
            IN  /\ admin[1].sasl # <<>> => admin[1].sasl[1] = [user |-> from, pass |-> from]
                /\ registry # <<>> =>
                      {registry[1].address, registry[1].user, registry[1].pass}
                          \subseteq {"", from, "flags"}

\* EstimatedMessages errs on the high side ("it overcounts", admin_describe.go:24)
\* while records come and go and when any other request fails, also because its
\* client is closed half-way, and never exceeds what was ever written.
NeverUndercounts ==
    \A d \in ToSet(detail) : d.counted # <<>> =>
        d.messages >= d.counted[1] /\ d.messages <= d.written

\* SizeBytes counts one replica: never more than SizeBytesAllReplicas, and when no
\* leader moved and all brokers answered, what the topic held.
SizesAgree ==
    \A d \in ToSet(detail) :
        /\ d.size <= d.allSize
        /\ d.held # <<>> => d.size = d.held[1]
=============================================================================
