# HostBerry: TLA+ models, checks and proofs

HostBerry (`src/`, Go, Fiber, gorm) is a web panel that turns a small Linux
machine into a router: it signs its administrator in, and answers each request by
running system tools (`systemctl`, `iptables`, `wpa_cli`, `wg-quick`, ...) and by
writing system files.  The program has little state of its own.  What makes it
hard is that the state that matters lies outside of it (services, NAT rules,
`resolv.conf`, the rows of a database), is changed by several commands in a row,
by requests that overlap, and through a memo table that may answer a command
without running it.

## Parts of the system

| Part | State | Operations | What makes it correct |
|---|---|---|---|
| Command executor (`utils.go`) | memo table of results, per command and timeout, under an RW mutex; lives 5 s | look up, check the allow-list, run with a deadline, store, prune above 100 entries | a result goes to its own command only; a fresh one is not lost; nothing off the list runs |
| Rate limiter (`rate_limiter.go`) | per limiter, a map of request times under a mutex; one global pointer, unsynchronised | `Allow`, cleanup goroutine, creation on first use | at most `rate_limit_rps` in every window; refusals only when earned |
| Accounts (`auth.go`, `handlers.go`) | a row per user: password, failures, lock, login count | login with lockout, first-login change, password change, profile and preference saves | counting and lock agree; a chosen password stays; the first-login change happens once |
| Tor routing (`tor_handlers.go`) | `torrc`, the service, two NAT rules, the saved rules | configure, enable, disable, redirect on and off, status | DNS and TCP redirected together or not at all; what the panel answers is what the kernel does |
| DNS proxies, AdBlock (`adblock_handlers.go`) | `resolv.conf`, its one backup, a temporary file, services, binary and unit of Blocky | enable and disable DNSCrypt, Blocky, AdBlock; install; configure; update | an enabled proxy serves; a disabled one gives back what it found |
| AdBlock lists and domains (`extra_api_handlers.go`) | two rows of the configuration table | read, change and write back | what a toggle answered is what the page shows |
| Network configuration (`api_compat.go`) | `/etc/hostname`, the kernel's name, `/etc/hosts`, name servers in three layers, the gateway, `resolv.conf` and its backup | one handler, several ways to set each thing | what it says it applied is so; the shared backup stays usable |
| Access point (`api_compat.go`) | `hostapd.conf`, `ap0`, hostapd and dnsmasq | toggle, restart, create `ap0`, configure | reported state is the real one |
| Wi-Fi client (`wifi_handlers.go`) | `wpa_supplicant`, its run directory and configuration, the last network | scan, connect (retry loop), toggle, reconnect at boot in a goroutine | one supplicant; the loop ends |
| VPN, WireGuard (`vpn_handlers.go`, `handlers.go`) | configuration files and interfaces | configure, connect, toggle, restart | what runs is what was written |
| Configuration table (`handlers_config.go`) | key/value rows; settings in force | save and apply | what is shown is in force |
| Sessions (`auth.go`, `middleware.go`) | signed tokens and a cookie, both in the browser; `TokenExpiry` | issue, check, clear | token and cookie expire together; the timeout shown is in force |
| Status pages, health | none | parse the output of tools | - |
| Translations, templates, routes, validators | tables loaded once | look up | - |
| Front end, installer | browser and shell | - | - |

How they interact.  Every handler runs in a goroutine of its own, so any two
requests overlap.  Almost all of them reach the machine through the executor and
therefore share its memo table: a command with a side effect that is repeated
within five seconds is answered and not run.  Tor reads the interface that the
access point's configuration names.  DNSCrypt, Blocky and the network handler
write one `resolv.conf` with one backup; AdBlock, Blocky and the access point stop
and start one dnsmasq.  The network handler rewrites the `/etc/hosts` from which the
AdBlock pages take their domains.  Login reads its maximum from the configuration table,
which another handler writes.  gorm's `Save` writes every column of a row, so all
account handlers overwrite one another.

Hard behaviours, each listed in `PROJECT.json` at its line: overlapping
read-modify-write of rows and of files; a memo that is stale when used; a request
that stops between two of its commands (the panel is restarted, the machine
reboots); a rule added with ports or an interface that have changed when it is to
be deleted; one backup for several writers; an unsynchronised first use; retry
loops against a tool that may never answer.

## Modules

| Module | Models | Kind |
|---|---|---|
| `CommandExecutor` | `executeCommandWithTimeout` and its table | component; refines `CommandMemo` |
| `CommandMemo` | - | abstract specification of the executor |
| `Memo` | - | operators on memo tables, shared by `CommandMemo` and by the components whose commands go through the executor |
| `RateLimiter` | `rate_limiter.go` | component |
| `Accounts` | `Login`, account handlers | component |
| `TorRouting` | `tor_handlers.go` over the memo | component composed with `Memo` |
| `DnsProxy` | DNSCrypt, Blocky, AdBlock, the DNS setting over the memo | component composed with `Memo` |
| `WifiConnect` | connect, reconnect at start and radio switches over the memo | component composed with `Memo` |
| `HostApd` | access point over the memo | component composed with `Memo` |
| `Vpn` | WireGuard and OpenVPN, over the memo and beside it | component composed with `Memo` |
| `Sessions` | tokens, cookie, and the settings that take effect at once | component |
| `NetworkConfig` | `networkConfigHandler` over the memo | component composed with `Memo` |
| `AdBlockLists` | the toggles of `extra_api_handlers.go` | component |
| `HostsFile` | the two over one `/etc/hosts` | composition; implements `NetworkConfig` |
| `Shared_proofs` | - | theorems about `CommandExecutor`, `RateLimiter` and `Sessions`, what all requests go through |
| `HostsFile_proofs` | - | theorems about `NetworkConfig`, `AdBlockLists` and `HostsFile` |
| `Accounts_proofs`, `Vpn_proofs`, `TorRouting_proofs`, `HostApd_proofs`, `DnsProxy_proofs`, `WifiConnect_proofs` | - | theorems about the module each is named for |
| `MC...` | - | instances for TLC |

Operators that begin with "Mutant of ..." are not part of a specification.  Each is
a plausible mistake in the definition that follows it; replacing the definition by
it must break the property it is paired with in `PROJECT.json`, which shows that
the property depends on the code.

### CommandExecutor

A call is three steps, as the code has three critical sections: the lookup under
the read lock with the allow-list check (`Serve`, `Refuse`, `Start`), the end of
the process outside of any lock (`Finish`), the store under the write lock with its
prune (`Store`).  Success, failure with output and silent failure are told apart
because they store on different paths, one of which does not prune.  A result
carries the run that produced it, so that mixing results up is visible.  `stored`
is history.  Left out: output text, the probing of sudo, the environment.

`KeepsAMemo` says that the entries a lookup can see form a `CommandMemo`: an entry
changes only when an allowed command has produced a result, lives for exactly TTL,
and nothing else touches it.  This is the interface on which `TorRouting`,
`DnsProxy`, `WifiConnect`, `HostApd`, `Vpn` and `NetworkConfig` build: they do not
repeat the executor but use a table of `Memo`, in which time is the number of ticks an entry
has left.  A lookup, the run and the store of one command are one step there; that
the commands of two requests overlap *within* one command is checked in
`CommandExecutor` only.

### RateLimiter

`Arrive`, `NewRateLimiter` and `Load` are the three accesses of the middleware to
the unsynchronised global; `Accept` and `Deny` are `Allow` under the mutex;
`cleanup` may happen at any time.  A slice of times is a set of positions in the
history of accepted requests, which keeps two requests of one instant apart.  The
race is a data race in the sense of Go; the pointer is one word, so a read returns
nil or a pointer some writer stored, which is what the interleaving gives.

### Accounts

A request is a step for its load and one for each save; a save writes the whole
copy or fails, which `Login` ignores.  `LoginCount` is never, once or more often.
Passwords are values; "legacy" tells one not hashed by bcrypt.  A token is "some
login has succeeded": the server keeps no list of them.  `disturbed` is history
and becomes true when two requests overlap or a save fails: the code promises
nothing exact then (the last save wins), so `WrongsAreSpaced`, `PasswordSticks` and
`FirstLoginOnce` are about undisturbed behaviours, of any length and in any order.
`LockedIsCounted` has no such condition.

### TorRouting

One step per shell command, each answered from the memo or run.  The rules are a
count of copies per protocol and target; a target is an interface and a pair of
ports (TransPort and DNSPort go together).  The panel may be restarted and the
machine may reboot between any two commands; the access point may move to another
interface between requests.  `Fallible` says which commands may fail on their own;
a deletion fails exactly when no copy is left.  The two commands that save the
rules are one.  `installTor` is `apt-get`, which is not on the executor's list: it
always fails and changes nothing.

### DnsProxy

A content of `resolv.conf` is its name servers.  DNSCrypt writes the file itself,
Blocky writes a temporary file and copies it with a memoised command.  Blocky is
installed in three steps (its binary, its unit, its start at boot), each of which may
fail or be cut off; a binary without a unit counts as installed and cannot start.
Enabling a proxy that has no configuration writes one first.  The layers of the DNS
setting that leave `resolv.conf` alone are in `NetworkConfig`.

Port 53 is state of its own.  `active` are the services that systemd has started and
keeps up, `server` the one of them that has the port.  A start says nothing of the port:
it succeeds, and later some started service takes the port if it is free (`Bind`).  A
service that finds it taken fails at its start or ends later (`Fails`), except Blocky:
its unit is of `Type=simple`, so its start is over before it looks for the port, and of
`Restart=on-failure`, so systemd tries again.  At boot the enabled services are started
in no order and compete.  Blocky's enabling stops dnsmasq, which stays enabled; DNSCrypt's
stops nothing.  `resolved` is the server that systemd-resolved writes on machines where
it runs: each of its restarts, and the boot, may put `resolv.conf` back to it.

A write of `resolv.conf` by `sudo sh`, and Blocky's copy of its temporary file, may fail,
which the code ignores; the backup and its restoration, both a plain `sudo cp`, are taken
to be made.  That a DHCP client or NetworkManager rewrites the file is left out.

### NetworkConfig

One request may set the name, the name servers and the gateway, in this order. Each has
ways that are tried until one succeeds, and a step of the model is a write, a command or
a verification of one way. A machine is the layers that take name servers: the file,
systemd-resolved and NetworkManager, each with what is written (`saved`) and what is in
use (`live`); NetworkManager also holds a gateway (`profile`). Machines have the file,
and either, both or none of the two others. A name that was copied to `/etc/hostname`
may still not be read back, and a verification that finds no file takes the kernel's
name, as the code does. Every step may fail but the deletion of the default route, whose
command ends in `|| true`; `connection up` may leave no default route, and `ip` refuses
a second one. Most commands go through the memo; the copy of `/etc/hostname`, the
verification and the file layers are run directly. The third way of the gateway,
`route`, is not on the executor's list and always refused. `alone` and `sure` are
history: the request met no other; the parts no command of which was answered from the
memo, or failed without anyone looking. The ways to write `/etc/hosts` are one step,
which writes it or does not. Left out: the text of `/etc/hosts` but for its names, a
second name server.

### AdBlockLists and HostsFile

A toggle is a step for its read of the row and one for the write; a row that cannot be
read is taken to be empty, as in the code.  `answered` is what the panel last said
of a list or domain, where it can be held to it: a toggle that overlapped another one of
its row, or could not read it, puts the other items in doubt when it writes, never its
own.  `HostsFile` puts both pages over one `/etc/hosts` and restarts them together.

### WifiConnect

Each user's goroutine and the reconnecting one (`System`) have a program counter
whose labels are the waits and the commands of `connectWiFi` and
`autoConnectToLastNetwork`; `byFile` tells the reconnect that starts the supplicant
with the file that is there from a call of `connectWiFi`.  There is one supplicant,
with the network of its file (`own`), the one it was told to select (`current`) and
its state; a key is the right one, a wrong one, or none for an open network.  The
commands that switch the radio and kill the supplicant go through the memo;
`wpa_supplicant`, `wpa_cli` and `pgrep` are run directly.  A second supplicant on the
interface refuses to start, and the retry that first removes its socket does not
help, since the executor does not run `rm`.  The supplicant may end, lose its
network, be slow to obey SIGTERM; the panel may stop and start anywhere.  The loops
of 10 and 5 pings, of 20, 8 and 5 polls are `PingAttempts` and `PollAttempts`.
`disturbed` (two goroutines overlapped) and `fresh` (a reconnect that nothing has
interfered with) are history.  Left out: the socket directory, DHCP, systemd's and
NetworkManager's own supplicants, the region.

### HostApd

Four requests (create `ap0`, toggle, restart, configure) whose steps are the commands
that change something; `kind` says what follows a step they share.  A configuration
is an interface (`ap0`, or the physical one when no `ap0` can be created) and the
settings asked for; the files, hostapd and dnsmasq each hold one.  Requests start
when the memo is empty, so it holds only the commands that a request repeats: the
look at `ap0`, its creation, and the copy of the override.  Any request may be cut
off at any step; the driver may drop `ap0`, starts, stops and files may fail, Blocky may
stop dnsmasq; `Fallible` names what of this an instance has.

The toggle and its look at what it did compare "active" with the output of `systemctl
is-active hostapd || pgrep hostapd && echo active || echo inactive`, which the shell reads
as `(is-active || pgrep) && echo`: where systemctl answers (`bus`), a running hostapd
gives the word twice and is taken for one that does not run.  `Status` is that output.
Hence on a machine with systemd the toggle never takes the branch that switches off, and
reports a failure after it has switched on (run `hostapd_toggle`).  Where systemctl does
not answer the panel, pgrep decides and the comparison is right; the model has both.

A rule is one of the gateway's addresses, of the way out, or of an interface with the way
out (the last stands for the two of the code).  They are those of one way out: a request
made while the machine has another, or has the access point's own interface for it,
deletes and adds fewer of them (`OwnRules`, where "route" is `Fallible`).  Deletions and
additions may be refused; `refused` is a history of the rules of which a deletion was.
`systemctl enable` and `disable` do not fail.

A request that has made `ap0` waits for `Waits` ticks and looks for it up to `Attempts`
times, a tick apart, against a memo of `TTL` ticks in which the look that missed it is.  In
the code, in seconds and rounded against the panel, these are 3 (the three sleeps take 3.5),
5 and 5.  `AnswersHold` needs `TTL < Waits + Attempts`, so that a look is not answered
from the memo; the run has the least room that this leaves (1 < 0 + 2), and the theorem
has it as its hypothesis.

### Vpn

A request is a step for its write and one for each command; what two kinds of
request share (taking wg0 down, bringing it up) is one action, and `DownCommand` and
`UpCommand` say by which key, if any, the executor knows the command.  A tunnel is
the configuration it was brought up with.  Requests of all kinds overlap, the panel
and the machine restart at any step, and the memo forgets at any moment.  `wg-quick up`
may fail before or after wg0 is there, and `wg-quick down` before it saves, before wg0 is
gone or after (hooks, sudo, the executor's deadline).  With `SaveConfig = true` in the file
(`saving`), which the validator accepts, `down` writes the configuration of the tunnel over
the file (`Saved`).  The toggle looks at any interface of WireGuard, of which there may be
another (`other`), and acts on wg0; configuring looks at wg0.

`alone` and `worked` are history: the request met no other; its commands were run, none was
answered from the memo, and none failed.  What the code looks at needs no `worked`: the
switch, the restart and the errors are held to their word whatever fails.  Configuring
drops the results of its commands, so `AnswersHold` asks of its answer only what follows
when both have succeeded, and then a file with `SaveConfig` comes up as the old
configuration.  That its answer says more than that is run `vpn_configure`.

### Sessions

A login signs its token in one step and sets the cookie in another, each reading
`TokenExpiry`; in between the log is written, which may take `MaxDelay` ticks.
Expiries are counted in ticks left, so the clock has no bound.  The server keeps no
tokens; a request may be made as long as the browser's cookie holds a valid one (the
front end's own copy of the token goes with it).  `systemConfigHandler` is a step for
the save of each key and one for its effect, in any order of the keys; the keys are
those with an effect.  `running` is what is in force, `rows` what is saved and shown.
A restart takes the timeout from `config.yaml` again, and without that file makes a
new secret.  `sure`, `met`, `calm` and `waited` are history.

## Runs

| Run | Instance | Shows |
|---|---|---|
| `shared` | 2 goroutines in each part. Executor: an allowed and a refused command, 2 timeouts, TTL 2, limit 1, 5 ticks. Limiter: 3 addresses, 1 key, 2 requests per window of 2, 5 ticks. Sessions: 2 timeouts, 2 zones, values that are refused, a delay of 1 | executor: type, ownership, retention, spacing, refinement of `CommandMemo`; limiter: window bound, earned refusals, a race on first use that does no harm; sessions: settings shown are in force, cookie and token end together |
| `accounts_tor` | Accounts: 2 handlers, 2 passwords, maxima 1 and 2, lockout of 2, 3 ticks. Tor: 1 handler, 2 interfaces, failures of torrc, start and add | accounts: lockout, password, first login; Tor: rules after each answer |
| `tor_persist` | 1 handler, 1 interface, no failures | finding, below |
| `dns` | 1 handler, 2 networks, with and without systemd-resolved, failures of starts, writes and installations | what enabling answers is so, disabled restores, the way back is never lost |
| `dns_port` | as `dns` | finding |
| `hosts` | 2 requests and 2 toggles, 2 names (one a domain), 2 servers, 2 gateways, 2 lists, TTL 1, 2 commands remembered | what the network page answers is so, toggles stick |
| `wifi` | 1 user and the reconnect, 1 network, 3 keys, every failure, 2 pings, 3 polls, 2 refusals | success is about the request, requests end, the last network comes back |
| `wifi_key` | as `wifi` | finding |
| `hostapd` | 1 handler, 1 setting, every failure, at most one rule refused, 2 looks without a wait, TTL 1 | ap0 survives, no double rules, configured runs, a success of toggle or restart is so, giving up on ap0 is right |
| `hostapd_toggle` | 1 handler, 1 setting | finding |
| `vpn` | 2 handlers, 2 configurations with and without SaveConfig, 2 profiles, another interface, TTL 1 | an answer about a tunnel is so |
| `vpn_configure` | as `vpn` | finding |

In `shared` and in `accounts_tor` the parts share no variable, and a step of one is a
stutter of the others: a behaviour of the instance moves one part (`part`) and leaves the
others in an initial state, which is every behaviour of each part.

Why the bounds are enough.  The executor's table has a limit of one entry, so a
second entry prunes; TTL 2 separates fresh, stale and outdated entries, and five
ticks let an entry pass 2*TTL.  Three addresses for two handlers leave one that
the race must not use.  Two copies of a rule are enough to see a duplicate.
Maxima 1 and 2 let the maximum fall below and rise above a count; three ticks pass
one lockout and begin another.  Two goroutines are what the Wi-Fi client has at
its least, and requests for one network are told apart by their keys; two pings,
three polls and two refusals let each loop go on, end by its count and end by
refusals.  The clocks are bounded only in `CommandExecutor`
(`MaxTime`), `Accounts` (`MaxMinute`) and `RateLimiter` (`MaxClock`); `MaxCopies` bounds
the rules.  The limiters of `shared` are created in one order, as they are alike.  The
failures of the access point multiply, so that its run has one setting and no rule refused
after another was (`OneRefusal`); a refusal of one kind already leaves a rule behind for the
additions of later requests, and the theorems have neither bound.  In `vpn` a TTL of 1 is
enough because commands are stored in the order of their requests: that an earlier
one is forgotten and a later one is not happens with one tick between them. In
`sessions` two timeouts let it rise and fall, and a delay of one tick tells a slow
login from a quick one; `Asks` has every kind of value of each key, and both keys
at once.  In `hosts` a behaviour is about one of `Topics`: fields of a request that
share no state are not combined, since neither can see the other, but name servers and
gateway (both end in `connection up`) and name and domains (`/etc/hosts`) are.
Requests about one field overlap (`Overlapping`); a request begins when at most
`MaxRemembered` commands are remembered, those of one earlier request or one of each of
two.  The theorems have neither bound.

Assumptions that some runs make, by constants of the modules:

- `Spaced` (all Tor and DNS runs; built into `HostApd`): an operation starts when
  no other is running and the memo is empty, that is, five seconds after the last.
  Without it the memo answers for deletions and additions of an earlier operation,
  so none of the properties can be expected; the findings show that some fail even
  with it.
- `Alternating` (run `dns`): the administrator disables a proxy before enabling
  one or setting the DNS, and the machine does not reboot within a request.  Without
  it a second enabling backs up `127.0.0.1`, which disabling restores.

Fairness is assumed in `WifiConnect` only, where liveness is stated.  A goroutine
that can take a step takes one (`WF_vars(Step(h))`): Go's scheduler sees to it, the
waits are sleeps, and the executor puts a deadline on its commands; that
`wpa_cli` and `pgrep`, which are run without a deadline, end is an assumption.  A
supplicant with the right key and the radio on finds its network (`WF_vars(Associate)`):
the networks of the model are in range.  Nothing is assumed of crashes, losses,
time, users or restarts, and neither property needs strong fairness: a supplicant
that keeps losing its network has been connected.
Deadlock is checked in every run.

## What the violated runs show

- `tor_persist`: enabling saves the rules twice, after the old rules are deleted
  and after the new ones are added.  The second save is the same command and is
  answered from the memo, so the saved rules lack the ones just added and the next
  boot comes up without redirection.
- `wifi_key`: when the supplicant of the reconnect does not start, the code falls back
  on `connectWiFi` with an empty password, which replaces the saved file by one for
  an open network.  A user's request at the time of the start, or a supplicant that
  survived SIGTERM while the memo answers the SIGKILL, is enough.
- `vpn_configure`: configuring a tunnel that is up takes it down and brings it up, and
  looks at neither result.  A `down` that fails leaves the old tunnel; one that succeeds
  under `SaveConfig = true` writes the old configuration over the new file.  The answer
  is "WireGuard reiniciado con nueva configuración" (vpn_handlers.go:246-248).
- `hostapd_toggle`: "HostAPD failed to start", says the log of a hostapd that the toggle
  has just started, for it compares "active" with "active" printed twice
  (api_compat.go:1690-1695).  By the same comparison it never switches one off (:1450).
- `dns_port`: "Blocky es el único DNS que usamos" (adblock_handlers.go:942), but dnsmasq is
  stopped and not disabled, and at the next boot may have port 53 before Blocky.

Seen while modelling and too plain for a run, though the models have them:

- A restart takes `TokenExpiry` from `config.yaml` (main.go:157); the saved
  `session_timeout` is shown and not in force until it is saved again.
- The access point's configuration installs the override of hostapd's service
  twice, without and with the script that makes sure of `ap0` (api_compat.go:2555 and
  2605), by the same copy command.  The memo answers the second, so the script does
  not run.
- Disabling the redirection deletes the rules for the ports `torrc` has now
  (tor_handlers.go:533).  If they changed since enabling, the old rules stay.
- Starting an OpenVPN that runs succeeds and does nothing (vpn_handlers.go:138): the new
  configuration is written, "started" and not used.  Nothing in the panel stops it.
- A restart of WireGuard that is down answers an error and brings it up
  (handlers.go:1035).
- Each enabling of a proxy copies `resolv.conf` over the one backup
  (adblock_handlers.go:405): enabling twice backs up `127.0.0.1`, which disabling
  restores.
- Enabling DNSCrypt frees port 53 of nobody (adblock_handlers.go:387): over a dnsmasq or
  a Blocky that has the port its start fails, or succeeds and it ends later, when
  `resolv.conf` already names it.
- Where systemd-resolved runs and `resolv.conf` is a link to its file, the restart that
  ends each enabling (adblock_handlers.go:434, 978) may undo the redirection just written.
- An installation of Blocky that stops before its unit is written is answered with
  "already installed" from then on (adblock_handlers.go:655) and never repaired.
- A request for name servers and a gateway on a machine with NetworkManager: the second
  `nmcli connection up` (api_compat.go:680) is answered from the memo of the first, so
  the gateway is "set" and not in force.
- A gateway that cannot be added leaves the machine without a default route
  (api_compat.go:702); the third way, `route`, is never allowed to run.
- When every copy to `/etc/hosts` fails, the answer still says that it was updated
  (api_compat.go:526).
- Where `hostnamectl` fails, setting the name A, then B, then A within five seconds: the
  last `hostname` is answered from the memo, the verification finds B, and the answer is
  an error although `/etc/hostname` says A.
- A machine whose name has a dot shows up among the blocked domains of AdBlock, as its
  name is on a line of `127.0.0.1`.
- A toggle that cannot read its row takes it to be empty and writes it back: all other
  lists are switched on again (extra_api_handlers.go:121).

Seen beside the models:

- Two Blocky requests share `/tmp/hostberry_resolv.conf` (adblock_handlers.go:973): one
  may remove it before the other copies it.
- A second restart of hostapd within five seconds succeeds and does nothing
  (api_compat.go:1775).
- A comment (main.go:59) says that `lockout_minutes` 0 locks for good, and
  `getLockoutMinutes` replaces it by 15.

## What is proved

For every value of the constants (finite `Goroutines` for the limiter; the
assumptions are named `...Assumption` in the modules and TLC evaluates them):

- `Shared_proofs`, the executor: `IInv` is inductive (`Inductive`).  It is the
  conjunction of the type, of `ResultsBelongToTheirKey` and of `FreshRetained`,
  which need one another: a store keeps a result with its key because the call's
  result is of the call's run, and retention needs the type to know that what is
  stored is an entry.  `TypeCorrect`, `ResultsAreTheirOwn` and `FreshIsRetained`
  follow; `RunsSpaced` is the action property, from retention and the guard of
  `Start`; `ImplementsMemo` maps each step to a step or stutter of `CommandMemo`:
  `Store` to `Produce`, `Tick` to `Age`.  The lemma `StoreEffect` says that a prune
  never takes an entry that lookups can see, because 2*TTL > TTL.
- `Shared_proofs`, the limiter: `LimiterInv` strengthens `WindowBound` by `Remembers`
  (histories are sorted and do not lie in the future, and every request in the window is
  in the map) and `Pointers` (the global is nil only before the first creation).  The
  window bound alone is not inductive: an accepted request is a window after
  the one MaxReqs before it only because the map has not forgotten any in between.
  `AppendKeepsSpaced` carries that argument.  `WindowIsBounded`, `RefusalsAreEarned` and
  `PointerIsSet` follow; `RaceIsBounded` has an invariant of its own, and `RaceHarmless`
  joins the two.
- `Shared_proofs`, the sessions: `SessionsInv` has a part for each of two properties.
  `ShownIsInForce` needs that two requests which are to do the same key know of each
  other (`Separate`), so that the row still holds what a request wrote when it comes
  to apply it, if it met no other and its save did not fail (`Written`).
  `ExpireTogether` needs that a token whose cookie is still to come has, with the
  ticks it waited, the timeout in force (`Coming`): this is what the cookie is given.
  `ShownStaysInForce` and `CookieEndsWithToken` follow, for any number of handlers,
  any timeouts and zones and any `MaxDelay`; `SessionsTypeCorrect` is about the types.
- `Accounts_proofs`: `LockedIsCounted` holds whatever overlaps and fails.  The
  other three are about undisturbed behaviours, so their invariant is
  `~disturbed => Undisturbed`: at most one request is under way (`Alone`), its
  copy is the row but for what it has changed (`Keeps`, one part per handler), and the
  row tells of the wrong passwords read: those not counted in it lie a lockout back
  (`LeftBehind`), or the lock covers them (`LockCovers`).
  `Counting` adds that a copy about to be checked has fewer failures than its maximum,
  which bounds the count by 20.  The lemma `Recorded` shows that one more wrong
  password then leaves any maximum of them spread over a lockout.
  `WrongsSpaced`, `PasswordsStick` and `FirstLoginChangedOnce` follow.  `MaxMinute` is
  any number, so time has no bound.
- `HostsFile_proofs`, the network page: `AnswersHold` is about the end of a request and
  needs what is known before it. `Knows` says, for each step, what the handler knows of
  the machine: after a verification the name is the one asked for, after a write the
  layer has the servers, after `connection modify` the profile has the gateway, and what
  is applied is in use. The request's later steps keep this because its parts touch
  different state; `connection up`, which both of the others end in, only puts in force
  what the request has written. The steps of others put an end to it, as they put one to
  `alone` (`Alone`: such a request is the only one). `Inductive` and `AnswersAreTrue`
  say so, with no bound on the memo, the topics or the handlers; the types are
  `PagesTypeCorrect`, with those of the other page.
- `HostsFile_proofs`, the pages together: the two pages implement the network page alone
  (`PagesImplementNetworkPage`, PagesSpec => Spec: every step of AdBlock is a stutter),
  so `PagesAnswersAreTrue` is a corollary.  `TogglesAlwaysStick` needs that a busy toggle
  has in its copy of the row what it will answer and, alone and having read it, all that
  was answered before (`Carries`); the rewriting of `/etc/hosts` does not matter because
  an answered domain has its state in the row (`Stick`), whatever the file says.
- `Vpn_proofs`: `Knows` says, for each kind of request and each of its steps, how the
  files and tunnels stand to what the request has in its locals: before its commands the
  tunnel is the one it found, after its write the file is the one it was given, after a
  `down` that succeeded there is no tunnel and the file is the new one or, with
  `SaveConfig`, the old.  Requests of others disturb all of this, so it
  is about requests that met no other, and `Alone` says that those are the only one.
  `AnswersAreTrue` reads `Knows` at the answer.  Nothing is assumed of the memo, nor that
  a command succeeds, fails cleanly or looks at the right interface: where the code drops a
  result, the property says what is left of the answer.
- `TorRouting_proofs`: the types need no hypothesis; the rest has `Spaced`, that is,
  an operation starts when no other is running and the memo is empty.  That no rule is
  doubled is not inductive: an addition makes a second copy unless the
  deletions before it left none, and they left none only if they were run and not
  answered from the memo.  `Fresh` says which commands an operation has still to ask
  for, so that the memo does not know them (the two deletions of a rule are told apart
  by the tries); `Copies` says how many copies of the two rules each step finds;
  `AtStep` joins them with the target, which the operation reads once and keeps.
  `NeverTwice`, `EnabledRedirects`, `DisabledClears` and `AnswersPaired` read
  `AtStep` at the answer.  Restarts, reboots and commands that fail are steps like any
  other, and the number of interfaces and ports is any.
- `HostApd_proofs`: `AtStep` has a part for each thing a request relies on.  `Ap0At`:
  the first look is run and not remembered, so `ap0` is removed only where there is none,
  and a look that is answered from the memo is as old as the request has waited.
  `ToggleAt` and `ConfigAt`: what was written, enabled and stopped stays so.  `RulesAt`:
  the deletion of a rule that is there at most once, and is not refused, leaves none, and
  the rules added are those deleted.  The toggle acts on `Status`; `ActiveSeen` says that
  it is "active" just when hostapd runs and systemctl does not answer, so "on" is true when
  it is said, though it is not said whenever it is true.  `RunsOnAp0` (hostapd
  runs on no `ap0` that is not there) is what makes removing it harmless.
  `NoRuleTwice`, `RunningIsSpared`, `ConfigurationIsApplied` and `AnswersAreTrue` follow;
  only the last has a hypothesis, `TTL < Waits + Attempts`, which the code meets.
- `DnsProxy_proofs`: the types, and that a started Blocky is whole and port 53 is had by a
  started service or by none (`RunsWhole`), need no hypothesis.  Under `Spaced`, `AtStep`
  says for each step which commands of the request the memo does not know (`Fresh`) and
  what the earlier ones have done (`Done`), so far as services that end by themselves
  leave it so; `Redirected` and `Restored` are what `resolv.conf` may be after the write,
  whether it was made, failed or is undone by systemd-resolved.  `EnabledIsServed` reads
  them at the answer.  It does not say that the proxy has port 53, nor that it will have it
  after a boot: no step of the code sees to that.  Under `Alternating`, too,
  `Way` and `WayAt` follow the one backup: it is never of `127.0.0.1`; from the
  copy on, and while a proxy is in use, it is what the enabling found; while
  `resolv.conf` is `127.0.0.1` a proxy is in use or its enabling is about to be answered.
  `WayBackIsKept` and `OriginalIsRestored` follow.  `WayBack` alone is not inductive:
  the backup is of something else only because no proxy was in use when the enabling
  began.
- `WifiConnect_proofs`: that a supplicant has a network (`TypeCorrect`) needs `LocalsAt`:
  whoever starts it has a file for it, which the reconnect found and a request wrote, and
  no step takes a file away.  `NetworkIsItsOwn` is about requests that nothing overlapped
  (`Alone`) and follows the request's network and key through `AtStep`: they are in the
  file when the supplicant starts, then in the supplicant that has read it, then in the
  network it is told to select.  A `pkill` answered from the memo leaves the old
  supplicant running, but then the new one does not start, so the request fails instead
  of reporting the other's network.  The supplicant's own steps and the radio change only
  what it is connected to, and a stop of the panel ends every request.

Where a theorem and a run state the same property, the hypotheses of the theorem are
the constants of the run (`Spaced`, `Alternating`) and nothing else, so the run also
shows that behaviours with them exist in which the cases happen.

Every invariant and every safety property of a step that a passing run checks is
stated by a theorem.  Only model-checked are `RequestsEnd` and `Reconnects`: liveness
under fairness is out of the prover's reach, as are `ENABLED` and induction over
recursively defined data.  `MaxCopies`, which keeps the rules of Tor and of the access
point finite for TLC, is any positive number in the theorems: with 2 or more, that no
rule has two copies is never the bound's doing.

## What is not modelled

The components with status `not_modelled` in `PROJECT.json`, with their reasons.
In the modelled ones: the text of outputs and errors, logging, translation, the
parsing of statuses (they read and keep nothing).

Of what is modelled, these are simpler than the code:

- `TorRouting`: a deletion fails only when no copy of the rule is left, which is how the
  code reads any failure (tor_handlers.go:548, 554).  A deletion refused for another
  reason would leave rules that `NoDuplicates` and `DisableClears` exclude.
- `WifiConnect`: a network has one file.  The code writes it to another directory where
  `/etc` is read-only (wifi_handlers.go:685-758), and the reconnect prefers the copy in
  `/etc` (1397-1401), which may be older.
- `WifiConnect`: there is one interface; a request may name another
  (handlers.go:839-842).  NetworkManager is stopped and not disabled
  (wifi_handlers.go:557-567), so it may come back after a boot.
- `DnsProxy`: see its section for the copies taken to be made.

## Plan

1. Done: executor with its abstract specification and proofs; limiter, accounts and
   sessions with proofs; Tor routing; DNS proxies; Wi-Fi client; access point; VPN.
2. Done: the installation of Blocky; the network handler and the AdBlock lists over one
   `/etc/hosts`, with proofs.
3. Left: an unspaced run of the DNS proxies over their shared temporary file; an
   abstract redirection (on or off, as the last answer says) that `TorRouting`
   implements under `Spaced`.
4. Done: proofs for Vpn, Tor routing, the access point and the DNS proxies.
5. Done: proofs for the Wi-Fi client, all but its liveness.
