------------------------- MODULE MCLegacyRetirement -------------------------
(***************************************************************************)
(* A retirement on a clock of a few ticks.  Native evidence, the archive's *)
(* restore and every scan take a tick, the disabled window two, so that a  *)
(* flawless retirement ends at 8; one tick may be lost anywhere.           *)
(***************************************************************************)
EXTENDS LegacyRetirement

MCScanPolicy == [id |-> "scan", detectors |-> RequiredDetectors]
MCPolicy ==
    [frozen |-> 0, minNative |-> 1, maxNativeGap |-> 1, minRetention |-> 4, scan |-> "scan",
     maxCaptureSkew |-> 2, maxFinalAge |-> 1, minDisabled |-> 2, maxDisabledGap |-> 2,
     artifacts |-> RequiredArtifacts, capabilities |-> RequiredCapabilities,
     drills |-> RequiredDrills]
MCReleaseKinds == {"image", "configuration"}
MCBreachReasons == {"drawdown"}

\* One target for every kind of outcome.
MCInventory ==
    [secret  |-> [scope |-> "credentials_and_sessions", kind |-> "secret_reference",
                  locator |-> <<"exchange">>, action |-> "revoke", destination |-> <<>>],
     runtime |-> [scope |-> "runtime_state", kind |-> "runtime_path",
                  locator |-> <<"/", "opt", "trader", "mt5">>, action |-> "retain_archive_only",
                  destination |-> <<>>],
     route   |-> [scope |-> "host_dependencies", kind |-> "host_integration",
                  locator |-> <<"/", "etc", "nginx", "mt5">>, action |-> "remove",
                  destination |-> <<>>],
     tools   |-> [scope |-> "native_package_migration", kind |-> "repository_path",
                  locator |-> <<"tools">>, action |-> "migrate_native",
                  destination |-> <<"src", "tools">>],
     sources |-> [scope |-> "mql5_source", kind |-> "repository_path",
                  locator |-> <<"mql5">>, action |-> "remove", destination |-> <<>>]]
=============================================================================
