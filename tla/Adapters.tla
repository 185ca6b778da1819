------------------------------ MODULE Adapters ------------------------------
(***************************************************************************)
(* Which ecosystems a project belongs to, by the names of the files at its  *)
(* root (exec/adapters.rs): what runs as its checks and what reproduces.    *)
(***************************************************************************)
EXTENDS Sequences

\* detect_ecosystem_with: lock files decide between the package managers.
PackageManager(has) ==
  CASE "pnpm-lock.yaml" \in has -> "pnpm"
    [] "yarn.lock" \in has /\ "pnpm-lock.yaml" \notin has -> "yarn"
    [] has \cap {"bun.lockb", "bun.lock"} # {} /\ has \cap {"pnpm-lock.yaml", "yarn.lock"} = {} -> "bun"
    [] OTHER -> "npm"

Ecosystems(has) ==
  LET When(manifests, eco) == IF manifests \cap has # {} THEN <<eco>> ELSE <<>>
  IN When({"Cargo.toml"}, "cargo") \o When({"package.json"}, PackageManager(has))
       \o When({"pyproject.toml", "setup.py", "requirements.txt"}, "python")
       \o When({"go.mod"}, "go") \o When({"pom.xml"}, "maven")
       \o When({"build.gradle", "build.gradle.kts", "settings.gradle"}, "gradle")
=============================================================================
